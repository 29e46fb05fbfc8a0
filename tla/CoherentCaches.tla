--------------------------- MODULE CoherentCaches ---------------------------
(***************************************************************************)
(* The coherent cache hierarchy of CacheBase.hpp: one L1 and one private   *)
(* L2 per CPU (accessCpuCache, accessL2Cache) and a home, the shared last  *)
(* level cache, which keeps the directory (accessCoherentHome).  The state *)
(* of a line is Modified, Shared or Invalid; the directory of the home and *)
(* the one of each L2 are maps that are never trimmed.                     *)
(*                                                                         *)
(* Every call is a blocking b_transport and the only caller is the thread  *)
(* of MainMemCosim::Run, so a whole CPU access, with the victims it evicts *)
(* at the three levels and the messages those send, is one step.           *)
(*                                                                         *)
(* The lines of distinct addresses meet only where a miss evicts a victim. *)
(* The state is therefore kept per address: a "line" gathers what the      *)
(* three levels know of one address.  Operators whose first argument is    *)
(* ln map a line to a line; operators whose first argument is f map the    *)
(* whole state to the set of states it may become, one per choice of       *)
(* victims.  Any valid way may be the victim, which covers the replacement *)
(* policies of CacheSet (module CacheSet).                                 *)
(***************************************************************************)
EXTENDS FiniteSets, Naturals

CONSTANTS
  CPU,            \* identifiers of the CPUs; the L1 and the L2 of a CPU share it
  Addr,           \* line addresses
  NULL_IDX,       \* "no cache", the Owner of a line nobody owns
  L1Ways,         \* for each CPU, the ways of the set of its L1 that Addr maps to
  L2Ways,         \* the same for its L2
  HomeWays,       \* the same for the home
  ExclusiveHome,  \* InclusionOfHigher==Exclusive at the home (and of lower at L2)
  Debug           \* the build checks assert(): a failed one stops the program

ASSUME NullAssumption == NULL_IDX \notin CPU
ASSUME ModeAssumption == ExclusiveHome \in BOOLEAN /\ Debug \in BOOLEAN

Modified == "Modified"
Shared   == "Shared"
Invalid  == "Invalid"
NoEntry  == "NoEntry"    \* Directory.find(addr) == Directory.end()

States    == {Modified, Shared, Invalid}
DirStates == States \cup {NoEntry}

\* What one CPU's caches know of an address: the state of its L1 line, the
\* state of its L2 line and the L2's directory entry.  The L2 is private (one
\* out_invalidate port, to one L1), so Owner and Sharers of that entry can only
\* name that L1 and follow from the entry's state.
Core == [l1 : States, l2 : States, d2 : DirStates]

\* The home's directory entry.
Entry == [State : DirStates, Owner : CPU \cup {NULL_IDX}, Sharers : SUBSET CPU]

\* The names of the asserts of the code.
Asserts == {"L1", "L2", "L2Victim", "FwdGetSOwner", "HomeModifiedTwice",
            "HomePutS", "HomePutM", "HomeGetM"}

\* All the system keeps for an address.  dirty and failed are history: dirty
\* says that memory lacks a value a CPU wrote, failed collects the asserts
\* that did not hold.
Line == [core : [CPU -> Core], home : States, dir : Entry,
         dirty : BOOLEAN, failed : SUBSET Asserts]

VARIABLE line
vars == <<line>>

Unless(cond, name) == IF cond THEN {} ELSE {name}

\* The line after c's caches changed to k, with the asserts that failed.
WithCore(ln, c, k, bad) == [ln EXCEPT !.core[c] = k, !.failed = @ \cup bad]

-----------------------------------------------------------------------------
(***************************************************************************)
(* Requests from the home to the L2s it names, and from each L2 to its L1. *)
(***************************************************************************)

\* Mutant of CoreFwdGetS: the caches give the line away instead of sharing it.
CoreFwdGetSInvalidates(k) == [l1 |-> Invalid, l2 |-> Invalid, d2 |-> Invalid]

\* accessL2Cache<FwdGetS> and the accessCpuCache<FwdGetS> it calls.
CoreFwdGetS(k) ==
  [l1 |-> IF k.d2 = Modified \/ (k.l2 = Invalid /\ k.d2 = Shared)
          THEN Shared ELSE k.l1,
   l2 |-> IF k.l2 = Modified THEN Shared ELSE k.l2,
   d2 |-> IF k.d2 = Modified THEN Shared ELSE k.d2]

FwdGetSL1Ok(k) ==
  k.d2 = Modified \/ (k.l2 = Invalid /\ k.d2 = Shared) => k.l1 # Invalid

FwdGetSL2Ok(k) ==
  /\ ~(k.l2 = Modified /\ k.d2 = Modified)
  /\ k.d2 # NoEntry
  /\ k.l2 # Invalid \/ k.d2 # Invalid

\* accessL2Cache<FwdGetM> and the accessCpuCache<FwdGetM> it calls.
CoreFwdGetM(k) ==
  [l1 |-> IF k.d2 \in {Shared, Modified} THEN Invalid ELSE k.l1,
   l2 |-> Invalid,
   d2 |-> Invalid]

FwdGetML1Ok(k) == k.d2 \in {Shared, Modified} => k.l1 # Invalid

FwdGetML2Ok(k) ==
  /\ ~(k.l2 = Modified /\ k.d2 = Modified)
  /\ k.d2 # NoEntry
  /\ k.l2 = Modified \/ k.d2 = Modified

\* Mutant of CorePutI: the directory entry of the L2 is not reset.
CorePutIKeepsEntry(k) ==
  [l1 |-> IF k.d2 = Shared THEN Invalid ELSE k.l1,
   l2 |-> Invalid,
   d2 |-> k.d2]

\* accessL2Cache<PutI> and the accessCpuCache<PutI> it calls.
CorePutI(k) ==
  [l1 |-> IF k.d2 = Shared THEN Invalid ELSE k.l1,
   l2 |-> Invalid,
   d2 |-> IF k.d2 = Shared THEN Invalid ELSE k.d2]

PutIL1Ok(k) == k.d2 = Shared => k.l1 = Shared

PutIL2Ok(k) ==
  /\ ~(k.l2 = Modified /\ k.d2 = Modified)
  /\ k.d2 # NoEntry
  /\ k.l2 = Shared \/ k.d2 = Shared
  /\ k.l2 # Invalid => k.l2 # Modified /\ k.d2 # Modified
  /\ CorePutI(k).d2 = Invalid

SendFwdGetS(ln, targets) ==
  [ln EXCEPT
     !.core = [c \in CPU |-> IF c \in targets THEN CoreFwdGetS(ln.core[c])
                                              ELSE ln.core[c]],
     !.failed = @ \cup Unless(\A c \in targets : FwdGetSL1Ok(ln.core[c]), "L1")
                  \cup Unless(\A c \in targets : FwdGetSL2Ok(ln.core[c]), "L2")
                  \cup Unless(\/ ExclusiveHome
                              \/ \A c \in targets : Modified \in
                                   {ln.core[c].l2, ln.core[c].d2},
                              "FwdGetSOwner")]

SendFwdGetM(ln, targets) ==
  [ln EXCEPT
     !.core = [c \in CPU |-> IF c \in targets THEN CoreFwdGetM(ln.core[c])
                                              ELSE ln.core[c]],
     !.failed = @ \cup Unless(\A c \in targets : FwdGetML1Ok(ln.core[c]), "L1")
                  \cup Unless(\A c \in targets : FwdGetML2Ok(ln.core[c]), "L2")]

\* Mutant of SendPutI: the invalidation is never delivered.
SendPutILost(ln, targets) == ln

SendPutI(ln, targets) ==
  [ln EXCEPT
     !.core = [c \in CPU |-> IF c \in targets THEN CorePutI(ln.core[c])
                                              ELSE ln.core[c]],
     !.failed = @ \cup Unless(\A c \in targets : PutIL1Ok(ln.core[c]), "L1")
                  \cup Unless(\A c \in targets : PutIL2Ok(ln.core[c]), "L2")]

-----------------------------------------------------------------------------
(***************************************************************************)
(* The home: accessCoherentHome<GetS|GetM|PutS|PutM> on the line of the    *)
(* address, requested by the L2 of c.                                      *)
(***************************************************************************)

EntryOf(state, owner, sharers) ==
  [State |-> state, Owner |-> owner, Sharers |-> sharers]

\* The assert every request to the home starts with.
EnterHome(ln) ==
  [ln EXCEPT !.failed = @ \cup
     Unless(~(ln.home = Modified /\ ln.dir.State = Modified),
            "HomeModifiedTwice")]

\* Mutant of HomeGetS: an exclusive home keeps the line it gives away.
HomeGetSKeepsLine(ln, c) ==
  LET d      == ln.dir
      hit    == ln.home # Invalid
      owners == IF d.State = Modified THEN {d.Owner} ELSE {}
      asked  == IF d.State = Shared /\ ~hit THEN d.Sharers ELSE owners \ {c}
  IN  [SendFwdGetS(EnterHome(ln), asked) EXCEPT
         !.dir  = EntryOf(Shared, NULL_IDX, d.Sharers \cup owners \cup {c}),
         !.home = IF hit THEN @ ELSE Invalid]

\* Mutant of HomeGetS: the Owner field joins the sharers whatever the state.
HomeGetSAddsOwner(ln, c) ==
  LET d      == ln.dir
      hit    == ln.home # Invalid
      owners == IF d.State = Modified THEN {d.Owner} ELSE {}
      asked  == IF d.State = Shared /\ ~hit THEN d.Sharers ELSE owners \ {c}
  IN  [SendFwdGetS(EnterHome(ln), asked) EXCEPT
         !.dir  = EntryOf(Shared, NULL_IDX, d.Sharers \cup {d.Owner, c})]

\* An exclusive home forwards memory's line on a miss and gives its own line
\* away on a hit, so it never holds the line afterwards; any other home keeps
\* a copy, dirty when an owner had to answer.
HomeGetS(ln, c) ==
  LET d      == ln.dir
      hit    == ln.home # Invalid
      owners == IF d.State = Modified THEN {d.Owner} ELSE {}
      asked  == IF d.State = Shared /\ ~hit THEN d.Sharers ELSE owners \ {c}
  IN  [SendFwdGetS(EnterHome(ln), asked) EXCEPT
         !.dir   = EntryOf(Shared, NULL_IDX, d.Sharers \cup owners \cup {c}),
         !.home  = CASE ExclusiveHome -> Invalid
                     [] ~ExclusiveHome /\ d.State = Modified -> Modified
                     [] ~ExclusiveHome /\ d.State # Modified ->
                          IF hit THEN @ ELSE Shared,
         !.dirty = @ /\ ~(/\ ExclusiveHome /\ hit
                          /\ Modified \in {ln.home, d.State})]

\* On a directory that says Shared, a home that lost the line first fetches it
\* from the sharers, then every other sharer is invalidated; on Modified the
\* owner gives the line to c.  The home's own line is left alone on a hit,
\* unless the home is exclusive and the line or the entry is Modified.
HomeGetM(ln, c) ==
  LET d       == ln.dir
      hit     == ln.home # Invalid
      fetched == IF d.State = Shared /\ ~hit /\ ~ExclusiveHome
                 THEN SendFwdGetS(EnterHome(ln), d.Sharers)
                 ELSE EnterHome(ln)
      told    == CASE d.State = Shared   -> SendPutI(fetched, d.Sharers \ {c})
                   [] d.State = Modified -> SendFwdGetM(fetched, {d.Owner})
                   [] OTHER              -> fetched
  IN  [told EXCEPT
         !.dir    = EntryOf(Modified, c, {}),
         !.home   = IF ExclusiveHome
                    THEN IF Modified \in {ln.home, d.State} THEN Invalid ELSE @
                    ELSE IF hit \/ d.State = Modified THEN @ ELSE Shared,
         !.dirty  = @ /\ ~(/\ ExclusiveHome /\ ln.home = Modified
                           /\ d.State # Modified),
         !.failed = @ \cup Unless(d.State = Modified => d.Owner # c, "HomeGetM")]

\* The last sharer's PutS makes an exclusive home take the line.
HomePutS(ln, c) ==
  LET d    == ln.dir
      rest == d.Sharers \ {c}
  IN  [EnterHome(ln) EXCEPT
         !.dir    = IF rest = {} THEN EntryOf(Invalid, NULL_IDX, {})
                                 ELSE EntryOf(d.State, d.Owner, rest),
         !.home   = IF ExclusiveHome /\ rest = {} THEN Shared ELSE @,
         !.failed = @ \cup Unless(/\ d.State = Shared
                                  /\ d.Owner = NULL_IDX
                                  /\ d.Sharers # {}
                                  /\ ExclusiveHome => ln.home = Invalid,
                                  "HomePutS")]

HomePutM(ln, c) ==
  [EnterHome(ln) EXCEPT
     !.dir    = EntryOf(Invalid, NULL_IDX, {}),
     !.home   = Modified,
     !.failed = @ \cup Unless(/\ ln.dir.State = Modified
                              /\ ln.dir.Owner = c
                              /\ ln.dir.Sharers = {}, "HomePutM")]

\* Mutant of HomeEvict: the victim is dropped without a write to memory.
HomeEvictDrops(ln) == [ln EXCEPT !.home = Invalid]

\* A victim of the home: a Modified one is written to memory.
HomeEvict(ln) ==
  [ln EXCEPT !.home = Invalid, !.dirty = @ /\ ln.home # Modified]

HomeRequest(ln, c, cmd) ==
  CASE cmd = "GetS" -> HomeGetS(ln, c)
    [] cmd = "GetM" -> HomeGetM(ln, c)
    [] cmd = "PutS" -> HomePutS(ln, c)
    [] cmd = "PutM" -> HomePutM(ln, c)

\* accessSet and the eviction of the victim: a hit needs no room, a miss takes
\* a free way or any valid line.
HomeRoom(f, a) ==
  LET valid == {b \in Addr : f[b].home # Invalid}
  IN  IF a \in valid THEN {f}
      ELSE {[f EXCEPT ![b] = HomeEvict(f[b])] : b \in valid}
             \cup {g \in {f} : Cardinality(valid) < HomeWays}

\* accessCoherentHome: on a miss an exclusive home answers GetS and GetM
\* without allocating.
accessCoherentHome(f, c, a, cmd) ==
  {[g EXCEPT ![a] = HomeRequest(g[a], c, cmd)] :
     g \in IF ExclusiveHome /\ cmd \in {"GetS", "GetM"} THEN {f}
                                                        ELSE HomeRoom(f, a)}

-----------------------------------------------------------------------------
(***************************************************************************)
(* The L2 of c: accessL2Cache<GetS|GetM|PutS|PutM>, requested by its L1.   *)
(***************************************************************************)

\* Mutant of VictimCmd: a clean victim is always reported to the home.
VictimCmdEager(k) ==
  CASE k.d2 \in {Invalid, Shared} /\ k.l2 = Shared -> "PutS"
    [] k.d2 = Invalid /\ k.l2 = Modified           -> "PutM"
    [] k.d2 = Shared  /\ k.l2 = Modified           -> "GetS"
    [] OTHER                                       -> "none"

\* The victim of a miss.  What the home is told depends on the L2's directory:
\* nothing while the L1 still holds a line the L2 has no dirty copy of.
VictimCmd(k) ==
  CASE k.d2 = Invalid /\ k.l2 = Shared   -> "PutS"
    [] k.d2 = Invalid /\ k.l2 = Modified -> "PutM"
    [] k.d2 = Shared  /\ k.l2 = Modified -> "GetS"
    [] OTHER                             -> "none"

L2Evict(f, c, b) ==
  LET k   == f[b].core[c]
      cmd == VictimCmd(k)
  IN  {[g EXCEPT ![b] = WithCore(g[b], c, [k EXCEPT !.l2 = Invalid],
                                 Unless(k.d2 # NoEntry, "L2Victim"))] :
         g \in IF cmd = "none" THEN {f} ELSE accessCoherentHome(f, c, b, cmd)}

L2Room(f, c, a) ==
  LET valid == {b \in Addr : f[b].core[c].l2 # Invalid}
  IN  IF a \in valid THEN {f}
      ELSE (UNION {L2Evict(f, c, b) : b \in valid})
             \cup {g \in {f} : Cardinality(valid) < L2Ways[c]}

\* The asserts of an L2 request: the one on entry and the one of the command.
L2Failed(k, ok) ==
  Unless(~(k.l2 = Modified /\ k.d2 = Modified) /\ ok, "L2")

\* Mutant of L2PutS: the home is never told.
L2PutSQuiet(f, c, a) ==
  LET k == f[a].core[c]
  IN  {[f EXCEPT ![a] = WithCore(f[a], c, [k EXCEPT !.d2 = Invalid],
                                 L2Failed(k, k.d2 = Shared))]}

L2PutS(f, c, a) ==
  LET k == f[a].core[c]
  IN  {[g EXCEPT ![a] = WithCore(g[a], c, [k EXCEPT !.d2 = Invalid],
                                 L2Failed(k, k.d2 = Shared))] :
         g \in IF k.l2 = Invalid THEN accessCoherentHome(f, c, a, "PutS")
                                 ELSE {f}}

L2PutM(f, c, a) ==
  LET k == f[a].core[c]
  IN  {[g EXCEPT ![a] = WithCore(g[a], c,
                                 [k EXCEPT !.l2 = Modified, !.d2 = Invalid],
                                 L2Failed(k, k.d2 = Modified))] :
         g \in L2Room(f, c, a)}

L2FillS(ln, c, bad) ==
  WithCore(ln, c, [ln.core[c] EXCEPT !.l2 = IF @ = Invalid THEN Shared ELSE @,
                                     !.d2 = Shared], bad)

L2GetS(f, c, a) ==
  LET k   == f[a].core[c]
      bad == L2Failed(k, /\ k.d2 \in {NoEntry, Invalid}
                         /\ k.d2 = NoEntry => k.l2 = Invalid)
  IN  {[g EXCEPT ![a] = L2FillS(g[a], c, bad)] :
         g \in IF k.l2 # Invalid THEN {f}
               ELSE UNION {accessCoherentHome(h, c, a, "GetS") :
                             h \in L2Room(f, c, a)}}

L2FillM(ln, c, bad) ==
  WithCore(ln, c, [ln.core[c] EXCEPT !.l2 = Shared, !.d2 = Modified], bad)

L2GetM(f, c, a) ==
  LET k   == f[a].core[c]
      bad == L2Failed(k, /\ k.d2 # Modified
                         /\ k.d2 = NoEntry => k.l2 = Invalid)
  IN  {[g EXCEPT ![a] = L2FillM(g[a], c, bad)] :
         g \in IF k.l2 = Modified THEN {f}
               ELSE UNION {accessCoherentHome(h, c, a, "GetM") :
                             h \in L2Room(f, c, a)}}

-----------------------------------------------------------------------------
(***************************************************************************)
(* The L1 of c: accessCpuCache<Read|Write>.                                *)
(***************************************************************************)

SetL1(ln, c, state) == WithCore(ln, c, [ln.core[c] EXCEPT !.l1 = state], {})

L1Evict(f, c, b) ==
  {[g EXCEPT ![b] = SetL1(g[b], c, Invalid)] :
     g \in IF f[b].core[c].l1 = Modified THEN L2PutM(f, c, b)
                                         ELSE L2PutS(f, c, b)}

L1Room(f, c, a) ==
  LET valid == {b \in Addr : f[b].core[c].l1 # Invalid}
  IN  IF a \in valid THEN {f}
      ELSE (UNION {L1Evict(f, c, b) : b \in valid})
             \cup {g \in {f} : Cardinality(valid) < L1Ways[c]}

ReadLine(f, c, a) ==
  IF f[a].core[c].l1 # Invalid THEN {f}
  ELSE {[g EXCEPT ![a] = SetL1(g[a], c, Shared)] :
          g \in UNION {L2GetS(h, c, a) : h \in L1Room(f, c, a)}}

WriteLine(f, c, a) ==
  {[g EXCEPT ![a] = [SetL1(g[a], c, Modified) EXCEPT !.dirty = TRUE]] :
     g \in IF f[a].core[c].l1 = Modified THEN {f}
           ELSE UNION {L2GetM(h, c, a) : h \in L1Room(f, c, a)}}

Init ==
  line = [a \in Addr |->
           [core   |-> [c \in CPU |-> [l1 |-> Invalid, l2 |-> Invalid,
                                       d2 |-> NoEntry]],
            home   |-> Invalid,
            dir    |-> EntryOf(NoEntry, NULL_IDX, {}),
            dirty  |-> FALSE,
            failed |-> {}]]

\* A failed assert stops a build that checks them.
Halted == Debug /\ \E a \in Addr : line[a].failed # {}

Read(c, a)  == ~Halted /\ line' \in ReadLine(line, c, a)
Write(c, a) == ~Halted /\ line' \in WriteLine(line, c, a)

Next == \E c \in CPU, a \in Addr : Read(c, a) \/ Write(c, a)

Spec == Init /\ [][Next]_vars

-----------------------------------------------------------------------------
(***************************************************************************)
(* Properties.                                                             *)
(***************************************************************************)

\* Every level holds a legal state for every address.
TypeOK == line \in [Addr -> Line]

Owns(k) == Modified \in {k.l1, k.l2}
Has(k)  == k.l1 # Invalid \/ k.l2 # Invalid

\* Single writer or several readers: while one CPU's L1 or L2 holds a line
\* Modified, no other CPU's L1 or L2 holds it in any state, whatever chain of
\* fills, forwards and evictions led there.
SingleWriter ==
  \A a \in Addr : \A c, d \in CPU :
    c # d /\ Owns(line[a].core[c]) => ~Has(line[a].core[d])

\* The home's directory entry is exact although evictions reach it through the
\* L2s only: Modified names the one CPU whose caches hold the line Modified,
\* Shared lists exactly the CPUs holding a clean copy, anything else means that
\* no CPU holds the line.
HomeDirectoryExact ==
  \A a \in Addr : LET d == line[a].dir IN
    \A c \in CPU : LET k == line[a].core[c] IN
      /\ Owns(k) <=> d.State = Modified /\ d.Owner = c
      /\ Has(k) /\ ~Owns(k) <=> d.State = Shared /\ c \in d.Sharers

\* The L2's directory entry follows its L1 exactly, also when the L2 has
\* evicted its own copy of the line (the hierarchy is not inclusive).
L2DirectoryExact ==
  \A a \in Addr, c \in CPU : LET k == line[a].core[c] IN
    k.l1 = IF k.d2 = NoEntry THEN Invalid ELSE k.d2

\* No assert of accessCpuCache, accessL2Cache or accessCoherentHome fails.
AssertsHold == \A a \in Addr : line[a].failed = {}

\* Without an exclusive home, two asserts do fail (see HomeModifiedOnce and
\* SharersCanAnswer); a build that does not check them breaks no other.
OtherAssertsHold ==
  \A a \in Addr : line[a].failed \subseteq {"HomeModifiedTwice", "FwdGetSOwner"}

\* The assert accessCoherentHome starts with: a Modified line of the home and a
\* Modified directory entry exclude each other.
HomeModifiedOnce ==
  \A a \in Addr : "HomeModifiedTwice" \notin line[a].failed

\* The assert of accessL2Cache<FwdGetS>: below a home that is not exclusive,
\* only a CPU that owns the line is asked for it.
SharersCanAnswer ==
  \A a \in Addr : "FwdGetSOwner" \notin line[a].failed

\* A value memory lacks is never dropped: some cache holds the line Modified
\* and will write it back when the line leaves it.
DirtyDataHeld ==
  \A a \in Addr : line[a].dirty =>
    \/ line[a].home = Modified
    \/ \E c \in CPU : Owns(line[a].core[c])

\* An L1 loses a line only to another CPU's write of it or to a fill of its
\* own: another CPU's reads, and the evictions of the home and of other CPUs'
\* caches, never take a line out of an L1.
LossJustified ==
  [][\A b \in Addr, d \in CPU :
       line[b].core[d].l1 # Invalid /\ line'[b].core[d].l1 = Invalid =>
         \/ \E c \in CPU \ {d} : line'[b].core[c].l1 = Modified
         \/ \E a \in Addr \ {b} : /\ line[a].core[d].l1 = Invalid
                                  /\ line'[a].core[d].l1 # Invalid]_vars

\* Write-back: a line that has left every cache has been written to memory if
\* a CPU wrote it.
WriteBackComplete ==
  \A a \in Addr : line[a].dirty =>
    \/ line[a].home # Invalid
    \/ \E c \in CPU : Has(line[a].core[c])

-----------------------------------------------------------------------------
(***************************************************************************)
(* The inductive invariant.  It is stated for one line, since every step   *)
(* is a chain of changes to single lines.                                  *)
(***************************************************************************)

CoreInv(k) ==
  /\ k.l1 = IF k.d2 = NoEntry THEN Invalid ELSE k.d2
  /\ ~(k.l2 = Modified /\ k.d2 = Modified)
  /\ k.d2 = NoEntry => k.l2 = Invalid

DirInv(ln) ==
  /\ ln.dir.State = Modified =>
       /\ ln.dir.Owner \in CPU
       /\ ln.dir.Sharers = {}
       /\ Owns(ln.core[ln.dir.Owner])
       /\ \A c \in CPU \ {ln.dir.Owner} : ~Has(ln.core[c])
  /\ ln.dir.State = Shared =>
       /\ ln.dir.Owner = NULL_IDX
       /\ ln.dir.Sharers # {}
       /\ \A c \in CPU : /\ ~Owns(ln.core[c])
                         /\ c \in ln.dir.Sharers <=> Has(ln.core[c])
  /\ ln.dir.State \in {Invalid, NoEntry} =>
       /\ ln.dir.Owner = NULL_IDX
       /\ ln.dir.Sharers = {}
       /\ \A c \in CPU : ~Has(ln.core[c])

HomeInv(ln) ==
  /\ ln.dir.State = NoEntry => ln.home = Invalid
  /\ ExclusiveHome /\ ln.home # Invalid => ln.dir.State # Shared
  /\ ExclusiveHome => ~(ln.home = Modified /\ ln.dir.State = Modified)

FailedInv(ln) ==
  ln.failed \subseteq IF ExclusiveHome THEN {}
                      ELSE {"HomeModifiedTwice", "FwdGetSOwner"}

DirtyInv(ln) ==
  ~ExclusiveHome /\ ln.dirty =>
    ln.home = Modified \/ \E c \in CPU : Owns(ln.core[c])

LineInv(ln) ==
  /\ ln \in Line
  /\ \A c \in CPU : CoreInv(ln.core[c])
  /\ DirInv(ln)
  /\ HomeInv(ln)
  /\ FailedInv(ln)
  /\ DirtyInv(ln)

Consistent(f) == f \in [Addr -> Line] /\ \A a \in Addr : LineInv(f[a])

\* The inductive invariant: every line is consistent.
IInv == Consistent(line)

=============================================================================
