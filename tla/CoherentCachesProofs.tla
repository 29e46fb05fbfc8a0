------------------------ MODULE CoherentCachesProofs ------------------------
(***************************************************************************)
(* Proofs about CoherentCaches for any number of CPUs, any addresses, any  *)
(* associativity and both inclusion modes of the home.                     *)
(***************************************************************************)
EXTENDS CoherentCaches, TLAPS

USE DEF States, DirStates, Modified, Shared, Invalid, NoEntry

-----------------------------------------------------------------------------
(***************************************************************************)
(* What the operators on one line change.                                  *)
(***************************************************************************)

\* WithCore replaces the caches of one CPU and, when no assert failed, nothing
\* else.
LEMMA WithCoreFacts ==
  ASSUME NEW ln \in Line, NEW c \in CPU, NEW k \in Core
  PROVE  /\ WithCore(ln, c, k, {}) \in Line
         /\ WithCore(ln, c, k, {}).core = [ln.core EXCEPT ![c] = k]
         /\ WithCore(ln, c, k, {}).home = ln.home
         /\ WithCore(ln, c, k, {}).dir = ln.dir
         /\ WithCore(ln, c, k, {}).dirty = ln.dirty
         /\ WithCore(ln, c, k, {}).failed = ln.failed
BY DEF WithCore, Line

\* A victim of the home leaves every CPU's caches and the directory alone.
LEMMA HomeEvictInv ==
  ASSUME NEW ln, LineInv(ln)
  PROVE  LineInv(HomeEvict(ln)) /\ HomeEvict(ln).core = ln.core
<1>1. HomeEvict(ln) \in Line
  BY DEF LineInv, HomeEvict, Line
<1>2. /\ HomeEvict(ln).core = ln.core
      /\ HomeEvict(ln).dir = ln.dir
      /\ HomeEvict(ln).home = Invalid
      /\ HomeEvict(ln).failed = ln.failed
      /\ HomeEvict(ln).dirty <=> ln.dirty /\ ln.home # Modified
  BY DEF LineInv, HomeEvict, Line
<1>3. DirInv(HomeEvict(ln)) /\ HomeInv(HomeEvict(ln)) /\ FailedInv(HomeEvict(ln))
  BY <1>2 DEF LineInv, DirInv, HomeInv, FailedInv
<1>4. DirtyInv(HomeEvict(ln))
  BY <1>2 DEF LineInv, DirtyInv
<1>. QED  BY <1>1, <1>2, <1>3, <1>4 DEF LineInv

\* The PutS of a CPU with a clean copy.
LEMMA HomePutSFacts ==
  ASSUME NEW ln, LineInv(ln), NEW c \in CPU, Has(ln.core[c]), ~Owns(ln.core[c])
  PROVE  LET R == HomePutS(ln, c)
             rest == ln.dir.Sharers \ {c}
         IN  /\ R \in Line
             /\ R.core = ln.core
             /\ ln.dir.State = Shared
             /\ R.dir = IF rest = {} THEN EntryOf(Invalid, NULL_IDX, {})
                                     ELSE EntryOf(Shared, NULL_IDX, rest)
             /\ R.home = IF ExclusiveHome /\ rest = {} THEN Shared ELSE ln.home
             /\ R.dirty = ln.dirty
             /\ R.failed = ln.failed
<1>1. ln.dir.State = Shared /\ ln.dir.Owner = NULL_IDX /\ c \in ln.dir.Sharers
  BY DEF LineInv, DirInv, Line, Entry
<1>2. ExclusiveHome => ln.home = Invalid
  BY <1>1 DEF LineInv, HomeInv, Line
<1>3. EnterHome(ln) = ln
  BY <1>1, Zenon DEF LineInv, EnterHome, Unless, Line
<1>. QED  BY <1>1, <1>2, <1>3 DEF LineInv, HomePutS, EntryOf, Unless, Line, Entry

\* The PutM of the owner: the home takes the dirty line and nobody owns it.
LEMMA HomePutMFacts ==
  ASSUME NEW ln, LineInv(ln), NEW c \in CPU, Owns(ln.core[c])
  PROVE  LET R == HomePutM(ln, c)
         IN  /\ R \in Line
             /\ R.core = ln.core
             /\ R.dir = EntryOf(Invalid, NULL_IDX, {})
             /\ R.home = Modified
             /\ R.dirty = ln.dirty
             /\ R.failed \subseteq ln.failed \cup {"HomeModifiedTwice"}
             /\ ExclusiveHome => R.failed = ln.failed
             /\ \A d \in CPU \ {c} : ~Has(ln.core[d])
<1>1. /\ ln.dir.State = Modified /\ ln.dir.Owner = c /\ ln.dir.Sharers = {}
      /\ \A d \in CPU \ {c} : ~Has(ln.core[d])
  BY DEF LineInv, DirInv, Line, Entry, Owns, Has
<1>2. ExclusiveHome => ln.home # Modified
  BY <1>1 DEF LineInv, HomeInv, Line
<1>3. ln \in Line
  BY DEF LineInv
<1>. QED  BY <1>1, <1>2, <1>3 DEF EnterHome, HomePutM, EntryOf, Unless, Line, Entry, Asserts

\* The GetS of an owner whose L1 keeps a clean copy: nobody else is asked.
LEMMA HomeGetSOwnerFacts ==
  ASSUME NEW ln, LineInv(ln), NEW c \in CPU, Owns(ln.core[c])
  PROVE  LET R == HomeGetS(ln, c)
         IN  /\ R \in Line
             /\ R.core = ln.core
             /\ R.dir = EntryOf(Shared, NULL_IDX, {c})
             /\ R.home = IF ExclusiveHome THEN Invalid ELSE Modified
             /\ R.failed \subseteq ln.failed \cup {"HomeModifiedTwice"}
             /\ ExclusiveHome => R.failed = ln.failed
             /\ \A d \in CPU \ {c} : ~Has(ln.core[d])
<1>1. /\ ln.dir.State = Modified /\ ln.dir.Owner = c /\ ln.dir.Sharers = {}
      /\ \A d \in CPU \ {c} : ~Has(ln.core[d])
  BY DEF LineInv, DirInv, Line, Entry, Owns, Has
<1>2. ExclusiveHome => ln.home # Modified
  BY <1>1 DEF LineInv, HomeInv, Line
<1>3. ln \in Line
  BY DEF LineInv
<1>. DEFINE E == EnterHome(ln)
<1>4. /\ E \in Line /\ E.core = ln.core /\ E.dir = ln.dir /\ E.home = ln.home
      /\ E.failed \subseteq ln.failed \cup {"HomeModifiedTwice"}
      /\ ExclusiveHome => E.failed = ln.failed
  BY <1>1, <1>2, <1>3 DEF EnterHome, Unless, Line, Entry, Asserts
<1>. HIDE DEF E
<1>. DEFINE S == SendFwdGetS(E, {})
<1>5. /\ S \in Line /\ S.core = ln.core /\ S.dir = ln.dir /\ S.home = ln.home
      /\ S.failed = E.failed
  BY <1>4 DEF SendFwdGetS, Unless, Line
<1>. HIDE DEF S
<1>6. HomeGetS(ln, c) =
        [S EXCEPT !.dir = EntryOf(Shared, NULL_IDX, {c}),
                  !.home = IF ExclusiveHome THEN Invalid ELSE Modified,
                  !.dirty = @ /\ ~(/\ ExclusiveHome /\ ln.home # Invalid
                                   /\ Modified \in {ln.home, Modified})]
  BY <1>1, <1>3, ModeAssumption DEF HomeGetS, S, E
<1>. DEFINE D == EntryOf(Shared, NULL_IDX, {c})
            H == IF ExclusiveHome THEN Invalid ELSE Modified
            Y == S.dirty /\ ~(/\ ExclusiveHome /\ ln.home # Invalid
                             /\ Modified \in {ln.home, Modified})
<1>7. D \in Entry /\ H \in States /\ Y \in BOOLEAN
  BY <1>5 DEF EntryOf, Entry, Line
<1>8. HomeGetS(ln, c) = [S EXCEPT !.dir = D, !.home = H, !.dirty = Y]
  BY <1>6
<1>. HIDE DEF D, H, Y
<1>9. /\ HomeGetS(ln, c) \in Line
      /\ HomeGetS(ln, c).core = S.core
      /\ HomeGetS(ln, c).dir = D
      /\ HomeGetS(ln, c).home = H
      /\ HomeGetS(ln, c).failed = S.failed
  BY <1>5, <1>7, <1>8 DEF Line
<1>. QED  BY <1>1, <1>4, <1>5, <1>9 DEF D, H

-----------------------------------------------------------------------------
(***************************************************************************)
(* Requests from the home to the L2s.                                      *)
(***************************************************************************)

\* A CPU with a copy that is asked with FwdGetS keeps a clean one.
LEMMA CoreFwdGetSFacts ==
  ASSUME NEW k \in Core, CoreInv(k), Has(k)
  PROVE  /\ CoreFwdGetS(k) \in Core /\ CoreInv(CoreFwdGetS(k))
         /\ Has(CoreFwdGetS(k)) /\ ~Owns(CoreFwdGetS(k))
         /\ FwdGetSL1Ok(k) /\ FwdGetSL2Ok(k)
         /\ k.l1 # Invalid => CoreFwdGetS(k).l1 # Invalid
         /\ ~Owns(k) => CoreFwdGetS(k) = k
<1>1. /\ k.l1 \in States /\ k.l2 \in States /\ k.d2 \in DirStates
      /\ k = [l1 |-> k.l1, l2 |-> k.l2, d2 |-> k.d2]
  BY DEF Core
<1>2. CoreFwdGetS(k) \in Core
  BY <1>1 DEF Core, CoreFwdGetS
<1>3. ~Owns(k) => CoreFwdGetS(k) = k
  BY <1>1 DEF CoreFwdGetS, CoreInv, Owns
<1>. QED  BY <1>1, <1>2, <1>3 DEF CoreInv, Has, Owns, CoreFwdGetS, FwdGetSL1Ok, FwdGetSL2Ok

\* The owner that is asked with FwdGetM gives its copies up.
LEMMA CoreFwdGetMFacts ==
  ASSUME NEW k \in Core, CoreInv(k), Owns(k)
  PROVE  /\ CoreFwdGetM(k) \in Core /\ CoreInv(CoreFwdGetM(k))
         /\ ~Has(CoreFwdGetM(k))
         /\ FwdGetML1Ok(k) /\ FwdGetML2Ok(k)
<1>1. k.l1 \in States /\ k.l2 \in States /\ k.d2 \in DirStates
  BY DEF Core
<1>2. CoreFwdGetM(k) \in Core
  BY <1>1 DEF Core, CoreFwdGetM
<1>. QED  BY <1>1, <1>2 DEF CoreInv, Has, Owns, CoreFwdGetM, FwdGetML1Ok, FwdGetML2Ok

\* A sharer that is asked with PutI gives its copies up.
LEMMA CorePutIFacts ==
  ASSUME NEW k \in Core, CoreInv(k), Has(k), ~Owns(k)
  PROVE  /\ CorePutI(k) \in Core /\ CoreInv(CorePutI(k))
         /\ ~Has(CorePutI(k))
         /\ PutIL1Ok(k) /\ PutIL2Ok(k)
<1>1. k.l1 \in States /\ k.l2 \in States /\ k.d2 \in DirStates
  BY DEF Core
<1>2. CorePutI(k) \in Core
  BY <1>1 DEF Core, CorePutI
<1>. QED  BY <1>1, <1>2 DEF CoreInv, Has, Owns, CorePutI, PutIL1Ok, PutIL2Ok

\* FwdGetS sent to CPUs with a copy changes nothing but their caches, and no
\* assert but the one on ownership can fail.
LEMMA SendFwdGetSFacts ==
  ASSUME NEW ln \in Line, NEW T, T \subseteq CPU,
         \A d \in CPU : CoreInv(ln.core[d]),
         \A d \in T : Has(ln.core[d])
  PROVE  LET S == SendFwdGetS(ln, T)
         IN  /\ S \in Line
             /\ S.home = ln.home /\ S.dir = ln.dir /\ S.dirty = ln.dirty
             /\ S.failed \subseteq ln.failed \cup {"FwdGetSOwner"}
             /\ ExclusiveHome => S.failed = ln.failed
             /\ \A d \in CPU : S.core[d] = IF d \in T THEN CoreFwdGetS(ln.core[d])
                                           ELSE ln.core[d]
             /\ \A d \in CPU : CoreInv(S.core[d])
<1>. DEFINE C == [d \in CPU |-> IF d \in T THEN CoreFwdGetS(ln.core[d]) ELSE ln.core[d]]
            O == Unless(\/ ExclusiveHome
                        \/ \A d \in T : Modified \in {ln.core[d].l2, ln.core[d].d2},
                        "FwdGetSOwner")
            S == SendFwdGetS(ln, T)
<1>1. \A d \in CPU : ln.core[d] \in Core
  BY DEF Line
<1>2. \A d \in T : FwdGetSL1Ok(ln.core[d]) /\ FwdGetSL2Ok(ln.core[d])
  BY <1>1, CoreFwdGetSFacts
<1>3. C \in [CPU -> Core] /\ \A d \in CPU : CoreInv(C[d])
  BY <1>1, CoreFwdGetSFacts
<1>4. O \subseteq {"FwdGetSOwner"} /\ (ExclusiveHome => O = {})
  BY DEF Unless
<1>5. S = [ln EXCEPT !.core = C, !.failed = @ \cup {} \cup {} \cup O]
  BY <1>2 DEF SendFwdGetS, Unless
<1>. HIDE DEF C, O, S
<1>6. /\ S \in Line
      /\ S.core = C /\ S.home = ln.home /\ S.dir = ln.dir /\ S.dirty = ln.dirty
      /\ S.failed = ln.failed \cup O
  BY <1>3, <1>4, <1>5 DEF Line, Asserts
<1>7. \A d \in CPU : S.core[d] = IF d \in T THEN CoreFwdGetS(ln.core[d]) ELSE ln.core[d]
  BY <1>6 DEF C
<1>8. \A d \in CPU : CoreInv(S.core[d])
  BY <1>3, <1>6
<1>9. S.failed \subseteq ln.failed \cup {"FwdGetSOwner"} /\ (ExclusiveHome => S.failed = ln.failed)
  BY <1>4, <1>6
<1>. QED  BY <1>6, <1>7, <1>8, <1>9 DEF S

\* FwdGetM sent to the owner takes its copies away and fails no assert.
LEMMA SendFwdGetMFacts ==
  ASSUME NEW ln \in Line, NEW o \in CPU,
         \A d \in CPU : CoreInv(ln.core[d]),
         Owns(ln.core[o])
  PROVE  LET S == SendFwdGetM(ln, {o})
         IN  /\ S \in Line
             /\ S.home = ln.home /\ S.dir = ln.dir /\ S.dirty = ln.dirty
             /\ S.failed = ln.failed
             /\ \A d \in CPU : S.core[d] = IF d = o THEN CoreFwdGetM(ln.core[d])
                                           ELSE ln.core[d]
             /\ \A d \in CPU : CoreInv(S.core[d])
<1>. DEFINE C == [d \in CPU |-> IF d \in {o} THEN CoreFwdGetM(ln.core[d]) ELSE ln.core[d]]
            S == SendFwdGetM(ln, {o})
<1>1. \A d \in CPU : ln.core[d] \in Core
  BY DEF Line
<1>2. \A d \in {o} : FwdGetML1Ok(ln.core[d]) /\ FwdGetML2Ok(ln.core[d])
  BY <1>1, CoreFwdGetMFacts
<1>3. C \in [CPU -> Core] /\ \A d \in CPU : CoreInv(C[d])
  BY <1>1, CoreFwdGetMFacts
<1>5. S = [ln EXCEPT !.core = C, !.failed = @ \cup {} \cup {}]
  BY <1>2 DEF SendFwdGetM, Unless
<1>. HIDE DEF C, S
<1>6. /\ S \in Line
      /\ S.core = C /\ S.home = ln.home /\ S.dir = ln.dir /\ S.dirty = ln.dirty
      /\ S.failed = ln.failed
  BY <1>3, <1>5 DEF Line
<1>7. \A d \in CPU : S.core[d] = IF d = o THEN CoreFwdGetM(ln.core[d]) ELSE ln.core[d]
  BY <1>6 DEF C
<1>8. \A d \in CPU : CoreInv(S.core[d])
  BY <1>3, <1>6
<1>. QED  BY <1>6, <1>7, <1>8 DEF S

\* PutI sent to sharers takes their copies away and fails no assert.
LEMMA SendPutIFacts ==
  ASSUME NEW ln \in Line, NEW T, T \subseteq CPU,
         \A d \in CPU : CoreInv(ln.core[d]),
         \A d \in T : Has(ln.core[d]) /\ ~Owns(ln.core[d])
  PROVE  LET S == SendPutI(ln, T)
         IN  /\ S \in Line
             /\ S.home = ln.home /\ S.dir = ln.dir /\ S.dirty = ln.dirty
             /\ S.failed = ln.failed
             /\ \A d \in CPU : S.core[d] = IF d \in T THEN CorePutI(ln.core[d])
                                           ELSE ln.core[d]
             /\ \A d \in CPU : CoreInv(S.core[d])
<1>. DEFINE C == [d \in CPU |-> IF d \in T THEN CorePutI(ln.core[d]) ELSE ln.core[d]]
            S == SendPutI(ln, T)
<1>1. \A d \in CPU : ln.core[d] \in Core
  BY DEF Line
<1>2. \A d \in T : PutIL1Ok(ln.core[d]) /\ PutIL2Ok(ln.core[d])
  BY <1>1, CorePutIFacts
<1>3. C \in [CPU -> Core] /\ \A d \in CPU : CoreInv(C[d])
  BY <1>1, CorePutIFacts
<1>5. S = [ln EXCEPT !.core = C, !.failed = @ \cup {} \cup {}]
  BY <1>2 DEF SendPutI, Unless
<1>. HIDE DEF C, S
<1>6. /\ S \in Line
      /\ S.core = C /\ S.home = ln.home /\ S.dir = ln.dir /\ S.dirty = ln.dirty
      /\ S.failed = ln.failed
  BY <1>3, <1>5 DEF Line
<1>7. \A d \in CPU : S.core[d] = IF d \in T THEN CorePutI(ln.core[d]) ELSE ln.core[d]
  BY <1>6 DEF C
<1>8. \A d \in CPU : CoreInv(S.core[d])
  BY <1>3, <1>6
<1>. QED  BY <1>6, <1>7, <1>8 DEF S

\* Entering the home only records whether its first assert held.
LEMMA EnterHomeFacts ==
  ASSUME NEW ln, LineInv(ln)
  PROVE  LET E == EnterHome(ln)
         IN  /\ E \in Line
             /\ E.core = ln.core
             /\ E.home = ln.home /\ E.dir = ln.dir /\ E.dirty = ln.dirty
             /\ E.failed \subseteq ln.failed \cup {"HomeModifiedTwice"}
             /\ ExclusiveHome => E.failed = ln.failed
<1>1. ln \in Line /\ (ExclusiveHome => ~(ln.home = Modified /\ ln.dir.State = Modified))
  BY DEF LineInv, HomeInv
<1>. QED  BY <1>1 DEF EnterHome, Unless, Line, Entry, Asserts

-----------------------------------------------------------------------------
(***************************************************************************)
(* The two allocating requests at the home.                                *)
(***************************************************************************)

\* GetS of a CPU without a copy: nobody owns the line afterwards, and the entry
\* lists whoever had a copy and the requester.
LEMMA HomeGetSFacts ==
  ASSUME NEW ln, LineInv(ln), NEW c \in CPU, ~Has(ln.core[c])
  PROVE  LET R == HomeGetS(ln, c)
         IN  /\ R \in Line
             /\ R.core[c] = ln.core[c]
             /\ \A d \in CPU : /\ CoreInv(R.core[d])
                               /\ ~Owns(R.core[d])
                               /\ Has(R.core[d]) <=> Has(ln.core[d])
                               /\ ln.core[d].l1 # Invalid => R.core[d].l1 # Invalid
             /\ R.dir.State = Shared /\ R.dir.Owner = NULL_IDX
             /\ \A d \in CPU : d \in R.dir.Sharers <=> d = c \/ Has(ln.core[d])
             /\ ExclusiveHome => R.home = Invalid
             /\ ~ExclusiveHome => R.dirty = ln.dirty
             /\ ~ExclusiveHome /\ (ln.home = Modified \/ \E d \in CPU : Owns(ln.core[d]))
                  => R.home = Modified
             /\ R.failed \subseteq ln.failed \cup {"HomeModifiedTwice", "FwdGetSOwner"}
             /\ ExclusiveHome => R.failed = ln.failed
<1>. DEFINE dr     == ln.dir
            hit    == ln.home # Invalid
            owners == IF dr.State = Modified THEN {dr.Owner} ELSE {}
            asked  == IF dr.State = Shared /\ ~hit THEN dr.Sharers ELSE owners \ {c}
            E == EnterHome(ln)
            S == SendFwdGetS(E, asked)
            D == EntryOf(Shared, NULL_IDX, dr.Sharers \cup owners \cup {c})
            H == CASE ExclusiveHome -> Invalid
                   [] ~ExclusiveHome /\ dr.State = Modified -> Modified
                   [] ~ExclusiveHome /\ dr.State # Modified ->
                        IF hit THEN S.home ELSE Shared
            Y == S.dirty /\ ~(/\ ExclusiveHome /\ hit
                              /\ Modified \in {ln.home, dr.State})
            R == HomeGetS(ln, c)
<1>1. /\ ln \in Line /\ dr \in Entry /\ ln.home \in States
      /\ dr.Sharers \subseteq CPU /\ dr.State \in DirStates
      /\ \A d \in CPU : ln.core[d] \in Core /\ CoreInv(ln.core[d])
  BY DEF LineInv, Line, Entry
<1>2. DirInv(ln)
  BY DEF LineInv
<1>3. /\ E \in Line /\ E.core = ln.core
      /\ E.home = ln.home /\ E.dir = ln.dir /\ E.dirty = ln.dirty
      /\ E.failed \subseteq ln.failed \cup {"HomeModifiedTwice"}
      /\ ExclusiveHome => E.failed = ln.failed
  BY EnterHomeFacts
<1>4. /\ owners \subseteq CPU /\ asked \subseteq CPU /\ c \notin asked
      /\ \A d \in asked : Has(ln.core[d])
      /\ \A d \in CPU : Owns(ln.core[d]) => d \in asked
      /\ \A d \in CPU : d \in dr.Sharers \cup owners <=> Has(ln.core[d])
  <2>1. CASE dr.State = Modified
    <3>1. /\ dr.Owner \in CPU /\ dr.Sharers = {} /\ Owns(ln.core[dr.Owner])
          /\ \A d \in CPU \ {dr.Owner} : ~Has(ln.core[d]) /\ ~Owns(ln.core[d])
      BY <1>2, <2>1 DEF DirInv, Owns, Has
    <3>2. Has(ln.core[dr.Owner]) /\ dr.Owner # c
      BY <3>1 DEF Owns, Has
    <3>3. owners = {dr.Owner} /\ asked = {dr.Owner}
      BY <2>1, <3>2
    <3>. QED  BY <3>1, <3>2, <3>3
  <2>2. CASE dr.State = Shared
    <3>1. /\ owners = {} /\ asked \in {{}, dr.Sharers}
          /\ \A d \in CPU : ~Owns(ln.core[d]) /\ (d \in dr.Sharers <=> Has(ln.core[d]))
      BY <1>2, <2>2 DEF DirInv
    <3>. QED  BY <1>1, <3>1
  <2>3. CASE dr.State \in {Invalid, NoEntry}
    <3>1. /\ owners = {} /\ asked = {} /\ dr.Sharers = {}
          /\ \A d \in CPU : ~Has(ln.core[d])
      BY <1>2, <2>3 DEF DirInv
    <3>. QED  BY <3>1 DEF Owns, Has
  <2>. QED  BY <1>1, <2>1, <2>2, <2>3
<1>5. /\ S \in Line
      /\ S.home = ln.home /\ S.dir = ln.dir /\ S.dirty = ln.dirty
      /\ S.failed \subseteq ln.failed \cup {"HomeModifiedTwice", "FwdGetSOwner"}
      /\ ExclusiveHome => S.failed = ln.failed
      /\ \A d \in CPU : S.core[d] = IF d \in asked THEN CoreFwdGetS(ln.core[d])
                                    ELSE ln.core[d]
      /\ \A d \in CPU : CoreInv(S.core[d])
  <2>. HIDE DEF E, asked
  <2>1. /\ \A d \in CPU : CoreInv(E.core[d])
        /\ \A d \in asked : Has(E.core[d])
    BY <1>1, <1>3, <1>4
  <2>2. /\ S \in Line
        /\ S.home = E.home /\ S.dir = E.dir /\ S.dirty = E.dirty
        /\ S.failed \subseteq E.failed \cup {"FwdGetSOwner"}
        /\ ExclusiveHome => S.failed = E.failed
        /\ \A d \in CPU : S.core[d] = IF d \in asked THEN CoreFwdGetS(E.core[d])
                                      ELSE E.core[d]
        /\ \A d \in CPU : CoreInv(S.core[d])
    BY <1>3, <1>4, <2>1, SendFwdGetSFacts
  <2>. HIDE DEF S
  <2>. QED  BY <1>3, <2>2
<1>6. /\ S.core[c] = ln.core[c]
      /\ \A d \in CPU : /\ ~Owns(S.core[d])
                        /\ Has(S.core[d]) <=> Has(ln.core[d])
                        /\ ln.core[d].l1 # Invalid => S.core[d].l1 # Invalid
  <2>. HIDE DEF S, asked
  <2>. QED  BY <1>1, <1>4, <1>5, CoreFwdGetSFacts
<1>7. R = [S EXCEPT !.dir = D, !.home = H, !.dirty = Y]
  BY DEF HomeGetS
<1>8. D \in Entry /\ H \in States /\ Y \in BOOLEAN
  <2>1. D \in Entry
    BY <1>1, <1>4 DEF EntryOf, Entry
  <2>2. H \in States
    <3>. HIDE DEF S
    <3>. QED  BY <1>1, <1>5, ModeAssumption
  <2>. QED  BY <2>1, <2>2
<1>9. /\ D.State = Shared /\ D.Owner = NULL_IDX
      /\ \A d \in CPU : d \in D.Sharers <=> d = c \/ Has(ln.core[d])
  BY <1>4 DEF EntryOf
<1>10. /\ ExclusiveHome => H = Invalid
       /\ ~ExclusiveHome => (Y <=> ln.dirty)
       /\ ~ExclusiveHome /\ (ln.home = Modified \/ \E d \in CPU : Owns(ln.core[d]))
                  => H = Modified
  <2>1. (\E d \in CPU : Owns(ln.core[d])) => dr.State = Modified
    BY <1>1, <1>2 DEF DirInv, Owns, Has
  <2>. HIDE DEF S
  <2>. QED  BY <1>1, <1>5, <2>1, ModeAssumption
<1>. HIDE DEF R, S, D, H, Y
<1>11. /\ R \in Line /\ R.core = S.core /\ R.dir = D /\ R.home = H /\ R.dirty = Y
       /\ R.failed = S.failed
  BY <1>5, <1>7, <1>8 DEF Line
<1>12. ~ExclusiveHome => R.dirty = ln.dirty
  BY <1>1, <1>8, <1>10, <1>11 DEF Line
<1>. QED  BY <1>5, <1>6, <1>9, <1>10, <1>11, <1>12 DEF R

\* GetM of a CPU that does not own the line: every other copy is gone
\* afterwards and the entry names the requester.
LEMMA HomeGetMFacts ==
  ASSUME NEW ln, LineInv(ln), NEW c \in CPU, ~Owns(ln.core[c])
  PROVE  LET R == HomeGetM(ln, c)
         IN  /\ R \in Line
             /\ \A d \in CPU : CoreInv(R.core[d])
             /\ \A d \in CPU \ {c} : ~Has(R.core[d])
             /\ R.dir = EntryOf(Modified, c, {})
             /\ ExclusiveHome => R.home # Modified
             /\ R.failed \subseteq ln.failed \cup {"HomeModifiedTwice", "FwdGetSOwner"}
             /\ ExclusiveHome => R.failed = ln.failed
<1>. DEFINE dr      == ln.dir
            hit     == ln.home # Invalid
            E       == EnterHome(ln)
            fetched == IF dr.State = Shared /\ ~hit /\ ~ExclusiveHome
                       THEN SendFwdGetS(E, dr.Sharers) ELSE E
            told    == CASE dr.State = Shared   -> SendPutI(fetched, dr.Sharers \ {c})
                         [] dr.State = Modified -> SendFwdGetM(fetched, {dr.Owner})
                         [] OTHER               -> fetched
            D == EntryOf(Modified, c, {})
            H == IF ExclusiveHome
                 THEN IF Modified \in {ln.home, dr.State} THEN Invalid ELSE told.home
                 ELSE IF hit \/ dr.State = Modified THEN told.home ELSE Shared
            Y == told.dirty /\ ~(/\ ExclusiveHome /\ ln.home = Modified
                                 /\ dr.State # Modified)
            R == HomeGetM(ln, c)
<1>1. /\ ln \in Line /\ dr \in Entry /\ ln.home \in States
      /\ dr.Sharers \subseteq CPU /\ dr.State \in DirStates
      /\ \A d \in CPU : ln.core[d] \in Core /\ CoreInv(ln.core[d])
  BY DEF LineInv, Line, Entry
<1>2. DirInv(ln)
  BY DEF LineInv
<1>3. /\ E \in Line /\ E.core = ln.core
      /\ E.home = ln.home /\ E.dir = ln.dir /\ E.dirty = ln.dirty
      /\ E.failed \subseteq ln.failed \cup {"HomeModifiedTwice"}
      /\ ExclusiveHome => E.failed = ln.failed
  BY EnterHomeFacts
<1>. HIDE DEF E
<1>4. /\ fetched \in Line
      /\ \A d \in CPU : fetched.core[d] = ln.core[d]
      /\ fetched.home = ln.home /\ fetched.dirty = ln.dirty
      /\ fetched.failed \subseteq ln.failed \cup {"HomeModifiedTwice", "FwdGetSOwner"}
      /\ ExclusiveHome => fetched.failed = ln.failed
  <2>1. CASE dr.State = Shared /\ ~hit /\ ~ExclusiveHome
    <3>1. \A d \in CPU : ~Owns(ln.core[d]) /\ (d \in dr.Sharers <=> Has(ln.core[d]))
      BY <1>2, <2>1 DEF DirInv
    <3>2. /\ \A d \in CPU : CoreInv(E.core[d])
          /\ \A d \in dr.Sharers : Has(E.core[d])
      BY <1>1, <1>3, <3>1
    <3>. DEFINE S == SendFwdGetS(E, dr.Sharers)
    <3>3. /\ S \in Line
          /\ S.home = E.home /\ S.dir = E.dir /\ S.dirty = E.dirty
          /\ S.failed \subseteq E.failed \cup {"FwdGetSOwner"}
          /\ ExclusiveHome => S.failed = E.failed
          /\ \A d \in CPU : S.core[d] = IF d \in dr.Sharers THEN CoreFwdGetS(E.core[d])
                                        ELSE E.core[d]
      BY <1>1, <1>3, <3>2, SendFwdGetSFacts
    <3>4. fetched = S
      BY <2>1
    <3>. HIDE DEF S
    <3>5. \A d \in CPU : S.core[d] = ln.core[d]
      BY <1>1, <1>3, <3>1, <3>3, CoreFwdGetSFacts
    <3>. QED  BY <1>3, <2>1, <3>3, <3>4, <3>5
  <2>2. CASE ~(dr.State = Shared /\ ~hit /\ ~ExclusiveHome)
    BY <1>3, <2>2
  <2>. QED  BY <2>1, <2>2
<1>. HIDE DEF fetched
<1>5. /\ told \in Line
      /\ told.home = ln.home /\ told.dirty = ln.dirty
      /\ told.failed = fetched.failed
      /\ \A d \in CPU : CoreInv(told.core[d])
      /\ \A d \in CPU \ {c} : ~Has(told.core[d])
  <2>0. \A d \in CPU : CoreInv(fetched.core[d])
    BY <1>1, <1>4
  <2>1. CASE dr.State = Shared
    <3>. DEFINE T == dr.Sharers \ {c}
                S == SendPutI(fetched, T)
    <3>1. \A d \in CPU : ~Owns(ln.core[d]) /\ (d \in dr.Sharers <=> Has(ln.core[d]))
      BY <1>2, <2>1 DEF DirInv
    <3>2. T \subseteq CPU /\ \A d \in T : Has(fetched.core[d]) /\ ~Owns(fetched.core[d])
      BY <1>1, <1>4, <3>1
    <3>. HIDE DEF T
    <3>3. /\ S \in Line
          /\ S.home = fetched.home /\ S.dir = fetched.dir /\ S.dirty = fetched.dirty
          /\ S.failed = fetched.failed
          /\ \A d \in CPU : S.core[d] = IF d \in T THEN CorePutI(fetched.core[d])
                                        ELSE fetched.core[d]
          /\ \A d \in CPU : CoreInv(S.core[d])
      BY <1>4, <2>0, <3>2, SendPutIFacts
    <3>4. told = S
      BY <2>1 DEF T
    <3>. HIDE DEF S
    <3>5. ASSUME NEW d \in CPU \ {c} PROVE ~Has(S.core[d])
      <4>1. CASE d \in T
        BY <1>1, <1>4, <3>2, <3>3, <4>1, CorePutIFacts
      <4>2. CASE d \notin T
        BY <1>4, <3>1, <3>3, <4>2 DEF T
      <4>. QED  BY <4>1, <4>2
    <3>. QED  BY <1>4, <3>3, <3>4, <3>5
  <2>2. CASE dr.State = Modified
    <3>. DEFINE o == dr.Owner
                S == SendFwdGetM(fetched, {o})
    <3>1. o \in CPU /\ Owns(ln.core[o]) /\ \A d \in CPU \ {o} : ~Has(ln.core[d])
      BY <1>2, <2>2 DEF DirInv
    <3>2. Owns(fetched.core[o])
      BY <1>4, <3>1
    <3>. HIDE DEF o
    <3>3. /\ S \in Line
          /\ S.home = fetched.home /\ S.dir = fetched.dir /\ S.dirty = fetched.dirty
          /\ S.failed = fetched.failed
          /\ \A d \in CPU : S.core[d] = IF d = o THEN CoreFwdGetM(fetched.core[d])
                                        ELSE fetched.core[d]
          /\ \A d \in CPU : CoreInv(S.core[d])
      BY <1>4, <2>0, <3>1, <3>2, SendFwdGetMFacts
    <3>4. told = S
      BY <2>2 DEF o
    <3>. HIDE DEF S
    <3>5. ASSUME NEW d \in CPU PROVE ~Has(S.core[d])
      BY <1>1, <1>4, <3>1, <3>2, <3>3, CoreFwdGetMFacts
    <3>. QED  BY <1>4, <3>3, <3>4, <3>5
  <2>3. CASE dr.State \in {Invalid, NoEntry}
    <3>1. told = fetched /\ \A d \in CPU : ~Has(ln.core[d])
      BY <1>2, <2>3 DEF DirInv
    <3>. HIDE DEF told
    <3>. QED  BY <1>4, <2>0, <3>1
  <2>. QED  BY <1>1, <2>1, <2>2, <2>3
<1>6. dr.State = Modified => dr.Owner # c
  BY <1>2 DEF DirInv
<1>7. R = [told EXCEPT !.dir = D, !.home = H, !.dirty = Y, !.failed = @ \cup {}]
  BY <1>6 DEF HomeGetM, Unless, fetched, E
<1>. HIDE DEF told
<1>8. D \in Entry /\ H \in States /\ Y \in BOOLEAN /\ (ExclusiveHome => H # Modified)
  BY <1>1, <1>5 DEF EntryOf, Entry
<1>. HIDE DEF R, D, H, Y
<1>9. /\ R \in Line /\ R.core = told.core /\ R.dir = D /\ R.home = H
      /\ R.failed = told.failed
  BY <1>5, <1>7, <1>8 DEF Line
<1>. QED  BY <1>4, <1>5, <1>8, <1>9 DEF R, D

-----------------------------------------------------------------------------
(***************************************************************************)
(* A CPU's caches drop or fill a line: each transaction as a whole keeps   *)
(* the line consistent, although its parts do not.                         *)
(***************************************************************************)

\* Replacing c's caches by consistent ones keeps all caches consistent.
LEMMA CoreStepFacts ==
  ASSUME NEW R \in Line, NEW c \in CPU, NEW k \in Core, CoreInv(k),
         \A d \in CPU : CoreInv(R.core[d])
  PROVE  LET g == WithCore(R, c, k, {})
         IN  /\ g \in Line
             /\ g.home = R.home /\ g.dir = R.dir /\ g.dirty = R.dirty
             /\ g.failed = R.failed
             /\ \A d \in CPU : g.core[d] = IF d = c THEN k ELSE R.core[d]
             /\ \A d \in CPU : CoreInv(g.core[d])
<1>. DEFINE g == WithCore(R, c, k, {})
<1>1. /\ g \in Line /\ g.core = [R.core EXCEPT ![c] = k]
      /\ g.home = R.home /\ g.dir = R.dir /\ g.dirty = R.dirty
      /\ g.failed = R.failed
  BY WithCoreFacts
<1>. HIDE DEF g
<1>2. \A d \in CPU : g.core[d] = IF d = c THEN k ELSE R.core[d]
  BY <1>1 DEF Line
<1>. QED  BY <1>1, <1>2 DEF g

\* SetL1 on top of WithCore.
LEMMA SetL1Facts ==
  ASSUME NEW R \in Line, NEW c \in CPU, NEW k \in Core, NEW s \in States
  PROVE  SetL1(WithCore(R, c, k, {}), c, s) =
           WithCore(R, c, [l1 |-> s, l2 |-> k.l2, d2 |-> k.d2], {})
<1>. DEFINE g == WithCore(R, c, k, {})
            j == [l1 |-> s, l2 |-> k.l2, d2 |-> k.d2]
<1>1. g \in Line /\ g.core = [R.core EXCEPT ![c] = k]
  BY WithCoreFacts
<1>2. g.core[c] = k
  BY <1>1 DEF Line
<1>3. [g.core[c] EXCEPT !.l1 = s] = j
  BY <1>2 DEF Core
<1>4. SetL1(g, c, s) = WithCore(g, c, j, {})
  BY <1>3 DEF SetL1
<1>5. [[R.core EXCEPT ![c] = k] EXCEPT ![c] = j] = [R.core EXCEPT ![c] = j]
  BY DEF Line
<1>6. WithCore(g, c, j, {}) = WithCore(R, c, j, {})
  BY <1>5 DEF WithCore, Line
<1>. QED  BY <1>4, <1>6

\* A change of c's caches that neither takes a copy nor gives one up.
LEMMA SameRoleInv ==
  ASSUME NEW ln, LineInv(ln), NEW c \in CPU, NEW k \in Core, CoreInv(k),
         Owns(k) <=> Owns(ln.core[c]), Has(k) <=> Has(ln.core[c])
  PROVE  LineInv(WithCore(ln, c, k, {}))
<1>. DEFINE g == WithCore(ln, c, k, {})
<1>1. ln \in Line /\ \A d \in CPU : CoreInv(ln.core[d])
  BY DEF LineInv
<1>2. /\ g \in Line
      /\ g.home = ln.home /\ g.dir = ln.dir /\ g.dirty = ln.dirty
      /\ g.failed = ln.failed
      /\ \A d \in CPU : g.core[d] = IF d = c THEN k ELSE ln.core[d]
      /\ \A d \in CPU : CoreInv(g.core[d])
  BY <1>1, CoreStepFacts
<1>. HIDE DEF g
<1>3. \A d \in CPU : /\ Owns(g.core[d]) <=> Owns(ln.core[d])
                     /\ Has(g.core[d]) <=> Has(ln.core[d])
  BY <1>2
<1>4. DirInv(g)
  BY <1>2, <1>3 DEF LineInv, DirInv
<1>5. HomeInv(g) /\ FailedInv(g)
  BY <1>2 DEF LineInv, HomeInv, FailedInv
<1>6. DirtyInv(g)
  BY <1>2, <1>3 DEF LineInv, DirtyInv
<1>. QED  BY <1>2, <1>4, <1>5, <1>6 DEF LineInv, g

\* c's last clean copy goes with a PutS.
LEMMA PutSInv ==
  ASSUME NEW ln, LineInv(ln), NEW c \in CPU, Has(ln.core[c]), ~Owns(ln.core[c]),
         NEW k \in Core, CoreInv(k), ~Has(k)
  PROVE  LineInv(WithCore(HomePutS(ln, c), c, k, {}))
<1>. DEFINE R == HomePutS(ln, c)
            g == WithCore(R, c, k, {})
            rest == ln.dir.Sharers \ {c}
<1>1. ln \in Line /\ \A d \in CPU : CoreInv(ln.core[d])
  BY DEF LineInv
<1>2. /\ R \in Line /\ R.core = ln.core /\ ln.dir.State = Shared
      /\ R.dir = IF rest = {} THEN EntryOf(Invalid, NULL_IDX, {})
                              ELSE EntryOf(Shared, NULL_IDX, rest)
      /\ R.home = IF ExclusiveHome /\ rest = {} THEN Shared ELSE ln.home
      /\ R.dirty = ln.dirty /\ R.failed = ln.failed
  BY HomePutSFacts
<1>3. \A d \in CPU : ~Owns(ln.core[d]) /\ (d \in ln.dir.Sharers <=> Has(ln.core[d]))
  BY <1>2 DEF LineInv, DirInv
<1>4. ~Owns(k)
  BY DEF Has, Owns
<1>. HIDE DEF R
<1>5. /\ g \in Line
      /\ g.home = R.home /\ g.dir = R.dir /\ g.dirty = R.dirty
      /\ g.failed = R.failed
      /\ \A d \in CPU : g.core[d] = IF d = c THEN k ELSE R.core[d]
      /\ \A d \in CPU : CoreInv(g.core[d])
  BY <1>1, <1>2, CoreStepFacts
<1>. HIDE DEF g
<1>6. \A d \in CPU : ~Owns(g.core[d]) /\ (d \in rest <=> Has(g.core[d]))
  BY <1>2, <1>3, <1>4, <1>5
<1>7. DirInv(g)
  BY <1>2, <1>5, <1>6 DEF DirInv, EntryOf
<1>8. HomeInv(g) /\ FailedInv(g)
  BY <1>2, <1>5 DEF LineInv, HomeInv, FailedInv, EntryOf
<1>9. DirtyInv(g)
  BY <1>2, <1>3, <1>5 DEF LineInv, DirtyInv
<1>. QED  BY <1>5, <1>7, <1>8, <1>9 DEF LineInv, g, R

\* The L2's part of the eviction of its copy, on the line's state.
L2Drop(ln, c) ==
  LET cmd == VictimCmd(ln.core[c])
  IN  WithCore(IF cmd = "none" THEN ln ELSE HomeRequest(ln, c, cmd), c,
               [ln.core[c] EXCEPT !.l2 = Invalid],
               Unless(ln.core[c].d2 # NoEntry, "L2Victim"))

\* The victim of an L2 miss: whatever VictimCmd tells the home, the line stays
\* consistent and only the L2's copy is gone.
LEMMA L2DropInv ==
  ASSUME NEW ln, LineInv(ln), NEW c \in CPU, ln.core[c].l2 # Invalid
  PROVE  /\ LineInv(L2Drop(ln, c))
         /\ L2Drop(ln, c).core = [ln.core EXCEPT ![c] = [@ EXCEPT !.l2 = Invalid]]
<1>. DEFINE k  == ln.core[c]
            k2 == [k EXCEPT !.l2 = Invalid]
            R  == IF VictimCmd(k) = "none" THEN ln
                                           ELSE HomeRequest(ln, c, VictimCmd(k))
            g  == L2Drop(ln, c)
<1>1. /\ ln \in Line /\ k \in Core /\ CoreInv(k) /\ k.d2 # NoEntry
      /\ \A d \in CPU : CoreInv(ln.core[d])
  BY DEF LineInv, Line, CoreInv
<1>2. /\ k2 \in Core /\ CoreInv(k2) /\ k2.l1 = k.l1 /\ k2.d2 = k.d2
      /\ k2.l2 = Invalid
  BY <1>1 DEF Core, CoreInv
<1>3. g = WithCore(R, c, k2, {})
  BY <1>1 DEF Unless, L2Drop
<1>4. SUFFICES R \in Line /\ R.core = ln.core /\ LineInv(WithCore(R, c, k2, {}))
  <2>. HIDE DEF k2, R, g
  <2>1. R \in Line /\ R.core = ln.core => g.core = [ln.core EXCEPT ![c] = k2]
    BY <1>2, <1>3, WithCoreFacts
  <2>. QED  BY <1>3, <2>1 DEF k2, g
<1>. DEFINE w == WithCore(R, c, k2, {})
<1>. HIDE DEF k2, R, g
<1>5. ASSUME R \in Line, R.core = ln.core
      PROVE  /\ w \in Line
             /\ w.dir = R.dir /\ w.home = R.home /\ w.dirty = R.dirty
             /\ w.failed = R.failed
             /\ \A d \in CPU : w.core[d] = IF d = c THEN k2 ELSE ln.core[d]
             /\ \A d \in CPU : CoreInv(w.core[d])
  BY <1>1, <1>2, <1>5, CoreStepFacts
<1>6. CASE VictimCmd(k) = "none"
  <2>1. R = ln
    BY <1>6 DEF R
  <2>2. (Owns(k2) <=> Owns(k)) /\ (Has(k2) <=> Has(k))
    BY <1>1, <1>2, <1>6 DEF VictimCmd, CoreInv, Owns, Has, Core
  <2>. QED  BY <1>1, <1>2, <2>1, <2>2, SameRoleInv
<1>7. CASE VictimCmd(k) = "PutS"
  <2>1. R = HomePutS(ln, c)
    BY <1>7 DEF HomeRequest, R
  <2>2. Has(k) /\ ~Owns(k) /\ ~Has(k2)
    BY <1>1, <1>2, <1>7 DEF VictimCmd, CoreInv, Owns, Has, Core
  <2>3. R \in Line /\ R.core = ln.core
    BY <2>1, <2>2, HomePutSFacts
  <2>. QED  BY <1>2, <2>1, <2>2, <2>3, PutSInv
<1>8. CASE VictimCmd(k) = "PutM"
  <2>1. R = HomePutM(ln, c)
    BY <1>8 DEF HomeRequest, R
  <2>2. Owns(k) /\ ~Has(k2)
    BY <1>1, <1>2, <1>8 DEF VictimCmd, CoreInv, Owns, Has, Core
  <2>3. /\ R \in Line /\ R.core = ln.core
        /\ R.dir = EntryOf(Invalid, NULL_IDX, {})
        /\ R.home = Modified
        /\ R.failed \subseteq ln.failed \cup {"HomeModifiedTwice"}
        /\ ExclusiveHome => R.failed = ln.failed
        /\ \A d \in CPU \ {c} : ~Has(ln.core[d])
    BY <2>1, <2>2, HomePutMFacts
  <2>. HIDE DEF w
  <2>4. \A d \in CPU : ~Has(w.core[d])
    BY <1>5, <2>2, <2>3
  <2>5. DirInv(w) /\ HomeInv(w) /\ FailedInv(w) /\ DirtyInv(w)
    BY <1>5, <2>3, <2>4
    DEF LineInv, DirInv, HomeInv, FailedInv, DirtyInv, EntryOf
  <2>. QED  BY <1>5, <2>3, <2>5 DEF LineInv, w
<1>9. CASE VictimCmd(k) = "GetS"
  <2>1. R = HomeGetS(ln, c)
    BY <1>9 DEF HomeRequest, R
  <2>2. Owns(k) /\ Has(k2) /\ ~Owns(k2)
    BY <1>1, <1>2, <1>9 DEF VictimCmd, CoreInv, Owns, Has, Core
  <2>3. /\ R \in Line /\ R.core = ln.core
        /\ R.dir = EntryOf(Shared, NULL_IDX, {c})
        /\ R.home = IF ExclusiveHome THEN Invalid ELSE Modified
        /\ R.failed \subseteq ln.failed \cup {"HomeModifiedTwice"}
        /\ ExclusiveHome => R.failed = ln.failed
        /\ \A d \in CPU \ {c} : ~Has(ln.core[d])
    BY <2>1, <2>2, HomeGetSOwnerFacts
  <2>. HIDE DEF w
  <2>4. \A d \in CPU : ~Owns(w.core[d]) /\ (d \in {c} <=> Has(w.core[d]))
    <3>. TAKE d \in CPU
    <3>1. d # c => ~Has(ln.core[d]) /\ ~Owns(ln.core[d])
      BY <2>3 DEF Owns, Has
    <3>. QED  BY <1>5, <2>2, <2>3, <3>1
  <2>5. DirInv(w)
    BY <1>5, <2>3, <2>4 DEF DirInv, EntryOf
  <2>6. HomeInv(w) /\ FailedInv(w) /\ DirtyInv(w)
    BY <1>5, <2>3 DEF LineInv, HomeInv, FailedInv, DirtyInv, EntryOf
  <2>. QED  BY <1>5, <2>3, <2>5, <2>6 DEF LineInv, w
<1>10. VictimCmd(k) \in {"none", "PutS", "PutM", "GetS"}
  BY DEF VictimCmd
<1>. QED  BY <1>6, <1>7, <1>8, <1>9, <1>10

\* c takes a clean copy with a GetS.
LEMMA GetSInv ==
  ASSUME NEW ln, LineInv(ln), NEW c \in CPU, ~Has(ln.core[c]),
         NEW k \in Core, CoreInv(k), Has(k), ~Owns(k)
  PROVE  LineInv(WithCore(HomeGetS(ln, c), c, k, {}))
<1>. DEFINE R == HomeGetS(ln, c)
            g == WithCore(R, c, k, {})
<1>2. /\ R \in Line
      /\ \A d \in CPU : /\ CoreInv(R.core[d])
                        /\ ~Owns(R.core[d])
                        /\ Has(R.core[d]) <=> Has(ln.core[d])
      /\ R.dir.State = Shared /\ R.dir.Owner = NULL_IDX
      /\ \A d \in CPU : d \in R.dir.Sharers <=> d = c \/ Has(ln.core[d])
      /\ ExclusiveHome => R.home = Invalid
      /\ ~ExclusiveHome => R.dirty = ln.dirty
      /\ ~ExclusiveHome /\ (ln.home = Modified \/ \E d \in CPU : Owns(ln.core[d]))
           => R.home = Modified
      /\ R.failed \subseteq ln.failed \cup {"HomeModifiedTwice", "FwdGetSOwner"}
      /\ ExclusiveHome => R.failed = ln.failed
  BY HomeGetSFacts
<1>. HIDE DEF R
<1>3. /\ g \in Line
      /\ g.home = R.home /\ g.dir = R.dir /\ g.dirty = R.dirty
      /\ g.failed = R.failed
      /\ \A d \in CPU : g.core[d] = IF d = c THEN k ELSE R.core[d]
      /\ \A d \in CPU : CoreInv(g.core[d])
  BY <1>2, CoreStepFacts
<1>. HIDE DEF g
<1>4. \A d \in CPU : ~Owns(g.core[d]) /\ (d \in g.dir.Sharers <=> Has(g.core[d]))
  BY <1>2, <1>3
<1>5. DirInv(g)
  BY <1>2, <1>3, <1>4 DEF DirInv
<1>6. HomeInv(g) /\ FailedInv(g)
  BY <1>2, <1>3 DEF LineInv, HomeInv, FailedInv
<1>7. DirtyInv(g)
  BY <1>2, <1>3 DEF LineInv, DirtyInv
<1>. QED  BY <1>3, <1>5, <1>6, <1>7 DEF LineInv, g, R

\* A write to a line its CPU owns keeps the line consistent.
LEMMA DirtyOwnedInv ==
  ASSUME NEW ln, LineInv(ln), NEW c \in CPU, Owns(ln.core[c])
  PROVE  LineInv([ln EXCEPT !.dirty = TRUE])
<1>. DEFINE g == [ln EXCEPT !.dirty = TRUE]
<1>1. /\ g \in Line
      /\ g.core = ln.core /\ g.home = ln.home /\ g.dir = ln.dir
      /\ g.failed = ln.failed
  BY DEF LineInv, Line
<1>. HIDE DEF g
<1>2. DirInv(g) /\ HomeInv(g) /\ FailedInv(g)
  BY <1>1 DEF LineInv, DirInv, HomeInv, FailedInv
<1>3. DirtyInv(g)
  BY <1>1 DEF DirtyInv
<1>4. \A d \in CPU : CoreInv(g.core[d])
  BY <1>1 DEF LineInv
<1>. QED  BY <1>1, <1>2, <1>3, <1>4 DEF LineInv, g

\* c takes the line for itself with a GetM and writes it.
LEMMA GetMInv ==
  ASSUME NEW ln, LineInv(ln), NEW c \in CPU, ~Owns(ln.core[c]),
         NEW k \in Core, CoreInv(k), Owns(k)
  PROVE  LineInv([WithCore(HomeGetM(ln, c), c, k, {}) EXCEPT !.dirty = TRUE])
<1>. DEFINE R == HomeGetM(ln, c)
            g == WithCore(R, c, k, {})
<1>2. /\ R \in Line
      /\ \A d \in CPU : CoreInv(R.core[d])
      /\ \A d \in CPU \ {c} : ~Has(R.core[d])
      /\ R.dir = EntryOf(Modified, c, {})
      /\ ExclusiveHome => R.home # Modified
      /\ R.failed \subseteq ln.failed \cup {"HomeModifiedTwice", "FwdGetSOwner"}
      /\ ExclusiveHome => R.failed = ln.failed
  BY HomeGetMFacts
<1>. HIDE DEF R
<1>3. /\ g \in Line
      /\ g.home = R.home /\ g.dir = R.dir /\ g.dirty = R.dirty
      /\ g.failed = R.failed
      /\ \A d \in CPU : g.core[d] = IF d = c THEN k ELSE R.core[d]
      /\ \A d \in CPU : CoreInv(g.core[d])
  BY <1>2, CoreStepFacts
<1>. HIDE DEF g
<1>4. Owns(g.core[c]) /\ \A d \in CPU \ {c} : ~Has(g.core[d])
  BY <1>2, <1>3
<1>5. DirInv(g)
  BY <1>2, <1>3, <1>4 DEF DirInv, EntryOf
<1>6. HomeInv(g) /\ FailedInv(g)
  BY <1>2, <1>3 DEF LineInv, HomeInv, FailedInv, EntryOf
<1>7. DirtyInv(g)
  BY <1>4 DEF DirtyInv
<1>8. LineInv(g)
  BY <1>3, <1>5, <1>6, <1>7 DEF LineInv
<1>. QED  BY <1>4, <1>8, DirtyOwnedInv DEF g, R

-----------------------------------------------------------------------------
(***************************************************************************)
(* The whole state: making room at a level keeps every line consistent and *)
(* does not touch the caches' copies of the address room is made for.      *)
(***************************************************************************)

\* Making room at the home leaves the requested line and all L1s and L2s alone.
LEMMA HomeRoomInv ==
  ASSUME NEW f, Consistent(f), NEW a \in Addr, NEW g \in HomeRoom(f, a)
  PROVE  /\ Consistent(g)
         /\ g[a] = f[a]
         /\ \A b \in Addr : g[b].core = f[b].core
<1>1. CASE g = f
  BY <1>1
<1>2. CASE g # f
  <2>1. PICK b \in Addr : b # a /\ g = [f EXCEPT ![b] = HomeEvict(f[b])]
    BY <1>2 DEF HomeRoom
  <2>2. LineInv(HomeEvict(f[b])) /\ HomeEvict(f[b]).core = f[b].core
    BY HomeEvictInv DEF Consistent
  <2>3. /\ Consistent(g) /\ g[b] = HomeEvict(f[b])
        /\ \A x \in Addr \ {b} : g[x] = f[x]
    <3>. DEFINE X == HomeEvict(f[b])
    <3>. HIDE DEF X
    <3>1. f \in [Addr -> Line] /\ LineInv(X) /\ X \in Line /\ g = [f EXCEPT ![b] = X]
      BY <2>1, <2>2 DEF X, Consistent, LineInv
    <3>2. g \in [Addr -> Line] /\ g[b] = X /\ \A x \in Addr \ {b} : g[x] = f[x]
      BY <3>1
    <3>3. Consistent(g)
      BY <3>1, <3>2 DEF Consistent
    <3>. QED  BY <3>2, <3>3 DEF X
  <2>. QED  BY <2>1, <2>2, <2>3
<1>. QED  BY <1>1, <1>2

\* A request to the home is the room it makes, then a change of the one line.
LEMMA AtHome ==
  ASSUME NEW f, Consistent(f), NEW c \in CPU, NEW a \in Addr, NEW cmd,
         NEW g \in accessCoherentHome(f, c, a, cmd)
  PROVE  \E h : /\ Consistent(h)
                /\ h[a] = f[a]
                /\ \A b \in Addr : h[b].core = f[b].core
                /\ g = [h EXCEPT ![a] = HomeRequest(f[a], c, cmd)]
<1>1. PICK h \in {f} \cup HomeRoom(f, a) : g = [h EXCEPT ![a] = HomeRequest(h[a], c, cmd)]
  BY DEF accessCoherentHome
<1>2. /\ Consistent(h) /\ h[a] = f[a]
      /\ \A b \in Addr : h[b].core = f[b].core
  BY HomeRoomInv
<1>. QED  BY <1>1, <1>2

\* The eviction of b by c's L2 keeps every L1 and every other line's caches.
LEMMA L2EvictInv ==
  ASSUME NEW f, Consistent(f), NEW c \in CPU, NEW b \in Addr,
         f[b].core[c].l2 # Invalid, NEW g \in L2Evict(f, c, b)
  PROVE  /\ Consistent(g)
         /\ \A a \in Addr \ {b} : g[a].core = f[a].core
         /\ \A d \in CPU : g[b].core[d].l1 = f[b].core[d].l1
<1>. DEFINE k == f[b].core[c]
            cmd == VictimCmd(k)
<1>1. LineInv(f[b]) /\ f[b] \in Line /\ f[b].core \in [CPU -> Core]
  BY DEF Consistent, LineInv, Line
<1>2. PICK g1 \in IF cmd = "none" THEN {f} ELSE accessCoherentHome(f, c, b, cmd) :
        g = [g1 EXCEPT ![b] = WithCore(g1[b], c, [k EXCEPT !.l2 = Invalid],
                                       Unless(k.d2 # NoEntry, "L2Victim"))]
  BY DEF L2Evict
<1>3. /\ LineInv(L2Drop(f[b], c))
      /\ L2Drop(f[b], c).core = [f[b].core EXCEPT ![c] = [@ EXCEPT !.l2 = Invalid]]
  BY <1>1, L2DropInv
<1>4. \A d \in CPU : L2Drop(f[b], c).core[d].l1 = f[b].core[d].l1
  BY <1>1, <1>3 DEF Core
<1>5. \E h : /\ Consistent(h)
             /\ \A a \in Addr : h[a].core = f[a].core
             /\ g = [h EXCEPT ![b] = L2Drop(f[b], c)]
  <2>1. CASE cmd = "none"
    BY <1>2, <2>1 DEF L2Drop
  <2>2. CASE cmd # "none"
    <3>1. g1 \in accessCoherentHome(f, c, b, cmd)
      BY <1>2, <2>2
    <3>. HIDE DEF cmd
    <3>2. PICK h : /\ Consistent(h)
                   /\ h[b] = f[b]
                   /\ \A a \in Addr : h[a].core = f[a].core
                   /\ g1 = [h EXCEPT ![b] = HomeRequest(f[b], c, cmd)]
      BY <3>1, AtHome
    <3>3. h \in [Addr -> Line]
      BY <3>2 DEF Consistent
    <3>4. g1[b] = HomeRequest(f[b], c, cmd)
      BY <3>2, <3>3
    <3>5. g = [g1 EXCEPT ![b] = L2Drop(f[b], c)]
      BY <1>2, <2>2, <3>4 DEF L2Drop, cmd
    <3>6. g = [h EXCEPT ![b] = L2Drop(f[b], c)]
      BY <3>2, <3>3, <3>5
    <3>. QED  BY <3>2, <3>6
  <2>. QED  BY <2>1, <2>2
<1>6. PICK h : /\ Consistent(h)
               /\ \A a \in Addr : h[a].core = f[a].core
               /\ g = [h EXCEPT ![b] = L2Drop(f[b], c)]
  BY <1>5
<1>7. /\ Consistent(g) /\ g[b] = L2Drop(f[b], c)
      /\ \A a \in Addr \ {b} : g[a] = h[a]
  <2>. DEFINE X == L2Drop(f[b], c)
  <2>. HIDE DEF X
  <2>1. h \in [Addr -> Line] /\ LineInv(X) /\ X \in Line /\ g = [h EXCEPT ![b] = X]
    BY <1>3, <1>6 DEF X, Consistent, LineInv
  <2>2. g \in [Addr -> Line] /\ g[b] = X /\ \A a \in Addr \ {b} : g[a] = h[a]
    BY <2>1
  <2>3. Consistent(g)
    BY <1>3, <1>6, <2>1, <2>2 DEF Consistent
  <2>. QED  BY <2>2, <2>3 DEF X
<1>. QED  BY <1>4, <1>6, <1>7

\* Unless it leaves the state alone, making room in c's L2 evicts a line of it.
LEMMA L2RoomVictim ==
  ASSUME NEW f, NEW c, NEW a
  PROVE  \A g \in L2Room(f, c, a) : g # f =>
           \E b \in Addr : b # a /\ f[b].core[c].l2 # Invalid /\ g \in L2Evict(f, c, b)
<1>. DEFINE valid == {x \in Addr : f[x].core[c].l2 # Invalid}
            U == UNION {L2Evict(f, c, x) : x \in valid}
            W == {x \in {f} : Cardinality(valid) < L2Ways[c]}
<1>1. L2Room(f, c, a) = IF a \in valid THEN {f} ELSE U \cup W
  BY DEF L2Room
<1>2. \A g \in W : g = f
  OBVIOUS
<1>. HIDE DEF U, W, valid
<1>3. SUFFICES ASSUME NEW g \in L2Room(f, c, a), g # f
               PROVE  \E b \in Addr : b # a /\ f[b].core[c].l2 # Invalid /\ g \in L2Evict(f, c, b)
  OBVIOUS
<1>4. a \notin valid /\ g \in U
  BY <1>1, <1>2, <1>3
<1>5. PICK b \in valid : g \in L2Evict(f, c, b)
  BY <1>4 DEF U
<1>. QED  BY <1>4, <1>5 DEF valid

\* Making room in c's L2 keeps the state consistent and every L1 as it was.
LEMMA L2RoomInv ==
  ASSUME NEW f, Consistent(f), NEW c \in CPU, NEW a \in Addr,
         NEW g \in L2Room(f, c, a)
  PROVE  /\ Consistent(g)
         /\ g[a].core = f[a].core
         /\ \A b \in Addr, d \in CPU : g[b].core[d].l1 = f[b].core[d].l1
<1>1. CASE g = f
  BY <1>1
<1>2. CASE g # f
  <2>1. PICK b \in Addr : b # a /\ f[b].core[c].l2 # Invalid /\ g \in L2Evict(f, c, b)
    BY <1>2, L2RoomVictim
  <2>. QED  BY <2>1, L2EvictInv
<1>. QED  BY <1>1, <1>2

\* The L1's part of an eviction, after the L2's.
L1Drop(g, c, b) == [g EXCEPT ![b] = SetL1(g[b], c, Invalid)]

\* The L1 of c gives a Modified line to the L2: PutM.
LEMMA L1EvictMInv ==
  ASSUME NEW f, Consistent(f), NEW c \in CPU, NEW b \in Addr,
         f[b].core[c].l1 = Modified, NEW g1 \in L2PutM(f, c, b)
  PROVE  /\ Consistent(L1Drop(g1, c, b))
         /\ \A a \in Addr, d \in CPU : a # b \/ d # c =>
              L1Drop(g1, c, b)[a].core[d].l1 = f[a].core[d].l1
<1>. DEFINE k  == f[b].core[c]
            k1 == [k EXCEPT !.l2 = Modified, !.d2 = Invalid]
            k2 == [l1 |-> Invalid, l2 |-> Modified, d2 |-> Invalid]
            g  == L1Drop(g1, c, b)
<1>1. /\ k \in Core /\ CoreInv(k) /\ k1 \in Core /\ k2 \in Core /\ CoreInv(k2)
      /\ k2 = [l1 |-> Invalid, l2 |-> k1.l2, d2 |-> k1.d2]
      /\ Owns(k) /\ Has(k) /\ Owns(k2) /\ Has(k2)
      /\ L2Failed(k, k.d2 = Modified) = {}
  <2>1. k \in Core /\ CoreInv(k)
    BY DEF Consistent, LineInv, Line
  <2>2. k1 \in Core /\ k2 \in Core /\ k1.l2 = Modified /\ k1.d2 = Invalid
    BY <2>1 DEF Core
  <2>3. k.d2 = Modified /\ k.l2 # Modified
    BY <2>1 DEF CoreInv, Core
  <2>4. L2Failed(k, k.d2 = Modified) = {}
    BY <2>3 DEF L2Failed, Unless
  <2>. QED  BY <2>1, <2>2, <2>4 DEF CoreInv, Owns, Has
<1>2. PICK h \in L2Room(f, c, b) :
        g1 = [h EXCEPT ![b] = WithCore(h[b], c, k1, {})]
  BY <1>1 DEF L2PutM
<1>. HIDE DEF k, k1, k2
<1>3. /\ Consistent(h) /\ h[b].core[c] = k
      /\ \A a \in Addr, d \in CPU : h[a].core[d].l1 = f[a].core[d].l1
  BY L2RoomInv DEF k
<1>4. LineInv(h[b]) /\ h[b] \in Line /\ h \in [Addr -> Line]
  BY <1>3 DEF Consistent, LineInv
<1>5. /\ LineInv(WithCore(h[b], c, k2, {}))
      /\ \A d \in CPU \ {c} : WithCore(h[b], c, k2, {}).core[d] = h[b].core[d]
  <2>1. WithCore(h[b], c, k2, {}).core = [h[b].core EXCEPT ![c] = k2]
    BY <1>1, <1>4, WithCoreFacts
  <2>2. h[b].core \in [CPU -> Core]
    BY <1>4 DEF Line
  <2>3. \A d \in CPU \ {c} : WithCore(h[b], c, k2, {}).core[d] = h[b].core[d]
    BY <2>1, <2>2
  <2>. QED  BY <1>1, <1>3, <1>4, <2>3, SameRoleInv
<1>6. SetL1(g1[b], c, Invalid) = WithCore(h[b], c, k2, {})
  BY <1>1, <1>2, <1>4, SetL1Facts
<1>7. g = [h EXCEPT ![b] = WithCore(h[b], c, k2, {})]
  BY <1>2, <1>4, <1>6 DEF L1Drop
<1>. HIDE DEF g
<1>8. /\ Consistent(g) /\ \A a \in Addr \ {b} : g[a] = h[a]
      /\ g[b] = WithCore(h[b], c, k2, {})
  <2>. DEFINE X == WithCore(h[b], c, k2, {})
  <2>. HIDE DEF X
  <2>1. h \in [Addr -> Line] /\ LineInv(X) /\ X \in Line /\ g = [h EXCEPT ![b] = X]
    BY <1>3, <1>5, <1>7 DEF X, Consistent, LineInv
  <2>2. g \in [Addr -> Line] /\ g[b] = X /\ \A a \in Addr \ {b} : g[a] = h[a]
    BY <2>1
  <2>3. Consistent(g)
    BY <1>3, <1>5, <1>7, <2>1, <2>2 DEF Consistent
  <2>. QED  BY <2>2, <2>3 DEF X
<1>. QED  BY <1>3, <1>5, <1>8 DEF g

\* The L1 of c gives a clean line to the L2: PutS, passed on to the home when the
\* L2 has no copy either.
LEMMA L1EvictSInv ==
  ASSUME NEW f, Consistent(f), NEW c \in CPU, NEW b \in Addr,
         f[b].core[c].l1 = Shared, NEW g1 \in L2PutS(f, c, b)
  PROVE  /\ Consistent(L1Drop(g1, c, b))
         /\ \A a \in Addr, d \in CPU : a # b \/ d # c =>
              L1Drop(g1, c, b)[a].core[d].l1 = f[a].core[d].l1
<1>. DEFINE k  == f[b].core[c]
            k1 == [k EXCEPT !.d2 = Invalid]
            k2 == [l1 |-> Invalid, l2 |-> k.l2, d2 |-> Invalid]
            g  == L1Drop(g1, c, b)
            R  == IF k.l2 = Invalid THEN HomePutS(f[b], c) ELSE f[b]
<1>1. k \in Core /\ CoreInv(k) /\ LineInv(f[b]) /\ f[b] \in Line /\ f \in [Addr -> Line]
  BY DEF Consistent, LineInv, Line
<1>2. /\ k1 \in Core /\ k2 \in Core /\ CoreInv(k2)
      /\ k2 = [l1 |-> Invalid, l2 |-> k1.l2, d2 |-> k1.d2]
      /\ Has(k) /\ (Owns(k2) <=> Owns(k))
      /\ k.l2 = Invalid => ~Has(k2) /\ ~Owns(k)
      /\ k.l2 # Invalid => Has(k2)
      /\ L2Failed(k, k.d2 = Shared) = {}
  <2>1. k1 \in Core /\ k2 \in Core /\ k1.l2 = k.l2 /\ k1.d2 = Invalid
    BY <1>1 DEF Core
  <2>2. k.d2 = Shared
    BY <1>1 DEF CoreInv, Core
  <2>3. L2Failed(k, k.d2 = Shared) = {}
    BY <2>2 DEF L2Failed, Unless
  <2>. QED  BY <2>1, <2>3 DEF CoreInv, Owns, Has
<1>3. LineInv(WithCore(R, c, k2, {})) /\ R \in Line /\ R.core = f[b].core
  <2>1. CASE k.l2 = Invalid
    <3>. HIDE DEF k2
    <3>1. HomePutS(f[b], c) \in Line /\ HomePutS(f[b], c).core = f[b].core
      BY <1>1, <1>2, <2>1, HomePutSFacts
    <3>2. LineInv(WithCore(HomePutS(f[b], c), c, k2, {}))
      BY <1>1, <1>2, <2>1, PutSInv
    <3>. QED  BY <2>1, <3>1, <3>2
  <2>2. CASE k.l2 # Invalid
    <3>. HIDE DEF k2
    <3>. QED  BY <1>1, <1>2, <2>2, SameRoleInv
  <2>. QED  BY <2>1, <2>2
<1>4. PICK h : /\ Consistent(h)
               /\ \A a \in Addr : h[a].core = f[a].core
               /\ g1 = [h EXCEPT ![b] = WithCore(R, c, k1, {})]
  <2>1. PICK g2 \in IF k.l2 = Invalid THEN accessCoherentHome(f, c, b, "PutS") ELSE {f} :
          g1 = [g2 EXCEPT ![b] = WithCore(g2[b], c, k1, {})]
    BY <1>2 DEF L2PutS
  <2>2. CASE k.l2 = Invalid
    <3>1. PICK h : /\ Consistent(h)
                   /\ \A a \in Addr : h[a].core = f[a].core
                   /\ g2 = [h EXCEPT ![b] = HomeRequest(f[b], c, "PutS")]
      BY <2>1, <2>2, AtHome
    <3>2. h \in [Addr -> Line]
      BY <3>1 DEF Consistent
    <3>3. g2[b] = R
      BY <2>2, <3>1, <3>2 DEF HomeRequest
    <3>. HIDE DEF R, k1
    <3>4. g1 = [h EXCEPT ![b] = WithCore(R, c, k1, {})]
      BY <2>1, <3>1, <3>2, <3>3
    <3>. QED  BY <3>1, <3>4
  <2>3. CASE k.l2 # Invalid
    BY <2>1, <2>3
  <2>. QED  BY <2>2, <2>3
<1>. HIDE DEF R, k, k1, k2
<1>5. h \in [Addr -> Line]
  BY <1>4 DEF Consistent
<1>6. SetL1(g1[b], c, Invalid) = WithCore(R, c, k2, {})
  BY <1>2, <1>3, <1>4, <1>5, SetL1Facts
<1>7. g = [h EXCEPT ![b] = WithCore(R, c, k2, {})]
  BY <1>4, <1>5, <1>6 DEF L1Drop
<1>. HIDE DEF g
<1>8. /\ Consistent(g) /\ \A a \in Addr \ {b} : g[a] = h[a]
      /\ g[b] = WithCore(R, c, k2, {})
  <2>. DEFINE X == WithCore(R, c, k2, {})
  <2>. HIDE DEF X
  <2>1. h \in [Addr -> Line] /\ LineInv(X) /\ X \in Line /\ g = [h EXCEPT ![b] = X]
    BY <1>3, <1>4, <1>7 DEF X, Consistent, LineInv
  <2>2. g \in [Addr -> Line] /\ g[b] = X /\ \A a \in Addr \ {b} : g[a] = h[a]
    BY <2>1
  <2>3. Consistent(g)
    BY <1>3, <1>4, <1>7, <2>1, <2>2 DEF Consistent
  <2>. QED  BY <2>2, <2>3 DEF X
<1>9. \A d \in CPU \ {c} : g[b].core[d] = f[b].core[d]
  <2>1. WithCore(R, c, k2, {}).core = [R.core EXCEPT ![c] = k2] /\ R.core \in [CPU -> Core]
    BY <1>2, <1>3, WithCoreFacts DEF Line
  <2>. QED  BY <1>3, <1>8, <2>1
<1>. QED  BY <1>4, <1>8, <1>9 DEF g

\* Unless it leaves the state alone, making room in c's L1 evicts a line of it.
LEMMA L1RoomVictim ==
  ASSUME NEW f, NEW c, NEW a
  PROVE  \A g \in L1Room(f, c, a) : g # f =>
           /\ a \in Addr => f[a].core[c].l1 = Invalid
           /\ \E b \in Addr : b # a /\ f[b].core[c].l1 # Invalid /\ g \in L1Evict(f, c, b)
<1>. DEFINE valid == {x \in Addr : f[x].core[c].l1 # Invalid}
            U == UNION {L1Evict(f, c, x) : x \in valid}
            W == {x \in {f} : Cardinality(valid) < L1Ways[c]}
<1>1. L1Room(f, c, a) = IF a \in valid THEN {f} ELSE U \cup W
  BY DEF L1Room
<1>2. \A g \in W : g = f
  OBVIOUS
<1>. HIDE DEF U, W, valid
<1>3. SUFFICES ASSUME NEW g \in L1Room(f, c, a), g # f
               PROVE  /\ a \in Addr => f[a].core[c].l1 = Invalid
                      /\ \E b \in Addr : b # a /\ f[b].core[c].l1 # Invalid /\ g \in L1Evict(f, c, b)
  OBVIOUS
<1>4. a \notin valid /\ g \in U
  BY <1>1, <1>2, <1>3
<1>5. PICK b \in valid : g \in L1Evict(f, c, b)
  BY <1>4 DEF U
<1>. QED  BY <1>4, <1>5 DEF valid

\* Making room in c's L1 keeps the state consistent and leaves the line that is
\* to be filled and every other L1 alone; it evicts nothing if the line is there.
LEMMA L1RoomInv ==
  ASSUME NEW f, Consistent(f), NEW c \in CPU, NEW a \in Addr,
         NEW g \in L1Room(f, c, a)
  PROVE  /\ Consistent(g) /\ g[a].core[c].l1 = f[a].core[c].l1
         /\ \A b \in Addr, d \in CPU \ {c} : g[b].core[d].l1 = f[b].core[d].l1
         /\ f[a].core[c].l1 # Invalid => g = f
<1>1. CASE g = f
  BY <1>1
<1>2. CASE g # f
  <2>0. f[a].core[c].l1 = Invalid
    BY <1>2, L1RoomVictim
  <2>1. PICK b \in Addr : b # a /\ f[b].core[c].l1 # Invalid /\ g \in L1Evict(f, c, b)
    BY <1>2, L1RoomVictim
  <2>2. f[b].core[c].l1 \in States
    BY DEF Consistent, Line, Core
  <2>3. PICK g1 \in IF f[b].core[c].l1 = Modified THEN L2PutM(f, c, b)
                                                  ELSE L2PutS(f, c, b) :
          g = L1Drop(g1, c, b)
    BY <2>1 DEF L1Evict, L1Drop
  <2>4. CASE f[b].core[c].l1 = Modified
    <3>1. g1 \in L2PutM(f, c, b)
      BY <2>3, <2>4
    <3>. QED  BY <2>0, <2>1, <2>3, <2>4, <3>1, L1EvictMInv
  <2>5. CASE f[b].core[c].l1 = Shared
    <3>1. g1 \in L2PutS(f, c, b)
      BY <2>3, <2>5
    <3>. QED  BY <2>0, <2>1, <2>3, <2>5, <3>1, L1EvictSInv
  <2>. QED  BY <2>1, <2>2, <2>4, <2>5
<1>. QED  BY <1>1, <1>2

-----------------------------------------------------------------------------
(***************************************************************************)
(* The CPU's accesses.                                                     *)
(***************************************************************************)

\* The L1's part of a read and of a write, after the L2's.
L1Fill(g, c, a)  == [g EXCEPT ![a] = SetL1(g[a], c, Shared)]
L1Write(g, c, a) == [g EXCEPT ![a] = [SetL1(g[a], c, Modified) EXCEPT !.dirty = TRUE]]

\* A GetS of an L1 without a copy, then the L1's fill: no L1 loses a line.
LEMMA L2GetSInv ==
  ASSUME NEW f, Consistent(f), NEW c \in CPU, NEW a \in Addr,
         f[a].core[c].l1 = Invalid, NEW g1 \in L2GetS(f, c, a)
  PROVE  LET g == L1Fill(g1, c, a)
         IN  /\ Consistent(g) /\ g[a].core[c].l1 = Shared
             /\ \A b \in Addr, d \in CPU : f[b].core[d].l1 # Invalid => g[b].core[d].l1 # Invalid
<1>. DEFINE k  == f[a].core[c]
            k2 == [l1 |-> Shared, l2 |-> IF k.l2 = Invalid THEN Shared ELSE k.l2,
                   d2 |-> Shared]
            bad == L2Failed(k, /\ k.d2 \in {NoEntry, Invalid}
                               /\ k.d2 = NoEntry => k.l2 = Invalid)
            g  == L1Fill(g1, c, a)
<1>1. k \in Core /\ CoreInv(k) /\ LineInv(f[a]) /\ f[a] \in Line /\ f \in [Addr -> Line]
  BY DEF Consistent, LineInv, Line
<1>2. k2 \in Core /\ CoreInv(k2) /\ Has(k2) /\ (Owns(k2) <=> Owns(k))
  BY <1>1 DEF Core, CoreInv, Has, Owns
<1>3. bad = {}
  BY <1>1 DEF CoreInv, Core, L2Failed, Unless
<1>4. PICK g2 \in IF k.l2 # Invalid THEN {f}
                  ELSE UNION {accessCoherentHome(h, c, a, "GetS") : h \in L2Room(f, c, a)} :
        g1 = [g2 EXCEPT ![a] = L2FillS(g2[a], c, {})]
  <2>1. \E g2 \in IF k.l2 # Invalid THEN {f}
                  ELSE UNION {accessCoherentHome(h, c, a, "GetS") : h \in L2Room(f, c, a)} :
          g1 = [g2 EXCEPT ![a] = L2FillS(g2[a], c, bad)]
    BY DEF L2GetS
  <2>. HIDE DEF bad
  <2>. QED  BY <1>3, <2>1
<1>5. PICK h, R : /\ Consistent(h) /\ R \in Line /\ R.core[c] = k
                  /\ g2 = [h EXCEPT ![a] = R]
                  /\ LineInv(WithCore(R, c, k2, {}))
                  /\ \A b \in Addr, d \in CPU : h[b].core[d].l1 = f[b].core[d].l1
                  /\ \A d \in CPU : f[a].core[d].l1 # Invalid => R.core[d].l1 # Invalid
  <2>1. CASE k.l2 # Invalid
    <3>. HIDE DEF k2
    <3>1. Has(k)
      BY <2>1 DEF Has
    <3>2. LineInv(WithCore(f[a], c, k2, {}))
      BY <1>1, <1>2, <3>1, SameRoleInv
    <3>3. g2 = [f EXCEPT ![a] = f[a]]
      BY <1>1, <1>4, <2>1
    <3>. QED  BY <1>1, <3>2, <3>3
  <2>2. CASE k.l2 = Invalid
    <3>1. PICK h0 \in L2Room(f, c, a) : g2 \in accessCoherentHome(h0, c, a, "GetS")
      BY <1>4, <2>2
    <3>2. /\ Consistent(h0) /\ h0[a].core = f[a].core /\ h0[a].core[c] = k
          /\ \A b \in Addr, d \in CPU : h0[b].core[d].l1 = f[b].core[d].l1
      BY <3>1, L2RoomInv
    <3>. HIDE DEF k
    <3>3. PICK h : /\ Consistent(h)
                   /\ \A b \in Addr : h[b].core = h0[b].core
                   /\ g2 = [h EXCEPT ![a] = HomeRequest(h0[a], c, "GetS")]
      BY <3>1, <3>2, AtHome
    <3>. DEFINE R == HomeGetS(h0[a], c)
    <3>4. LineInv(h0[a]) /\ ~Has(h0[a].core[c]) /\ ~Owns(k2)
      BY <1>1, <1>2, <2>2, <3>2 DEF Consistent, Has, Owns, k
    <3>. HIDE DEF k2
    <3>5. /\ R \in Line /\ R.core[c] = k
          /\ \A d \in CPU : f[a].core[d].l1 # Invalid => R.core[d].l1 # Invalid
      BY <3>2, <3>4, HomeGetSFacts
    <3>6. LineInv(WithCore(R, c, k2, {}))
      BY <1>2, <3>4, GetSInv
    <3>7. g2 = [h EXCEPT ![a] = R]
      BY <3>3 DEF HomeRequest
    <3>8. \A b \in Addr, d \in CPU : h[b].core[d].l1 = f[b].core[d].l1
      BY <3>2, <3>3
    <3>. HIDE DEF R
    <3>. WITNESS h, R
    <3>. QED  BY <3>3, <3>5, <3>6, <3>7, <3>8
  <2>. QED  BY <2>1, <2>2
<1>. DEFINE k1 == [k EXCEPT !.l2 = IF k.l2 = Invalid THEN Shared ELSE @, !.d2 = Shared]
<1>6. k1 \in Core /\ k2 = [l1 |-> Shared, l2 |-> k1.l2, d2 |-> k1.d2]
  BY <1>1 DEF Core
<1>7. h \in [Addr -> Line]
  BY <1>5 DEF Consistent
<1>8. g2[a] = R
  BY <1>5, <1>7
<1>9. g1 = [g2 EXCEPT ![a] = WithCore(R, c, k1, {})]
  BY <1>4, <1>5, <1>8 DEF L2FillS
<1>. HIDE DEF k, k1, k2
<1>10. g1 = [h EXCEPT ![a] = WithCore(R, c, k1, {})]
  BY <1>5, <1>7, <1>9
<1>11. SetL1(g1[a], c, Shared) = WithCore(R, c, k2, {})
  BY <1>5, <1>6, <1>7, <1>10, SetL1Facts
<1>. DEFINE X == WithCore(R, c, k2, {})
<1>12. /\ LineInv(X) /\ X \in Line /\ X.core[c].l1 = Shared
       /\ \A d \in CPU \ {c} : X.core[d] = R.core[d]
  <2>1. k2 \in Core /\ k2.l1 = Shared
    BY <1>2 DEF k2
  <2>2. X.core = [R.core EXCEPT ![c] = k2] /\ R.core \in [CPU -> Core]
    BY <1>5, <2>1, WithCoreFacts DEF Line
  <2>. QED  BY <1>5, <2>1, <2>2 DEF LineInv
<1>13. g = [h EXCEPT ![a] = X]
  BY <1>7, <1>10, <1>11 DEF L1Fill
<1>. HIDE DEF X, g
<1>14. g \in [Addr -> Line] /\ g[a] = X /\ \A b \in Addr \ {a} : g[b] = h[b]
  BY <1>7, <1>12, <1>13
<1>15. Consistent(g)
  BY <1>5, <1>12, <1>14 DEF Consistent
<1>16. ASSUME NEW b \in Addr, NEW d \in CPU, f[b].core[d].l1 # Invalid
       PROVE  g[b].core[d].l1 # Invalid
  BY <1>5, <1>12, <1>14, <1>16
<1>17. g[a].core[c].l1 = Shared
  BY <1>12, <1>14
<1>. QED  BY <1>15, <1>16, <1>17 DEF g

\* A GetM of an L1 that does not own the line, then the L1's fill and write: the
\* L1s keep their other lines.
LEMMA L2GetMInv ==
  ASSUME NEW f, Consistent(f), NEW c \in CPU, NEW a \in Addr,
         f[a].core[c].l1 # Modified, NEW g1 \in L2GetM(f, c, a)
  PROVE  LET g == L1Write(g1, c, a)
         IN  /\ Consistent(g) /\ g[a].core[c].l1 = Modified
             /\ \A b \in Addr \ {a}, d \in CPU : g[b].core[d].l1 = f[b].core[d].l1
<1>. DEFINE k  == f[a].core[c]
            k2 == [l1 |-> Modified, l2 |-> Shared, d2 |-> Modified]
            bad == L2Failed(k, /\ k.d2 # Modified
                               /\ k.d2 = NoEntry => k.l2 = Invalid)
            g  == L1Write(g1, c, a)
<1>1. k \in Core /\ CoreInv(k) /\ LineInv(f[a]) /\ f[a] \in Line /\ f \in [Addr -> Line]
  BY DEF Consistent, LineInv, Line
<1>2. k2 \in Core /\ CoreInv(k2) /\ Has(k2) /\ Owns(k2)
  BY DEF Core, CoreInv, Has, Owns
<1>3. bad = {}
  BY <1>1 DEF CoreInv, Core, L2Failed, Unless
<1>4. PICK g2 \in IF k.l2 = Modified THEN {f}
                  ELSE UNION {accessCoherentHome(h, c, a, "GetM") : h \in L2Room(f, c, a)} :
        g1 = [g2 EXCEPT ![a] = L2FillM(g2[a], c, {})]
  <2>1. \E g2 \in IF k.l2 = Modified THEN {f}
                  ELSE UNION {accessCoherentHome(h, c, a, "GetM") : h \in L2Room(f, c, a)} :
          g1 = [g2 EXCEPT ![a] = L2FillM(g2[a], c, bad)]
    BY DEF L2GetM
  <2>. HIDE DEF bad
  <2>. QED  BY <1>3, <2>1
<1>. HIDE DEF k2
<1>5. PICK h, R : /\ Consistent(h) /\ R \in Line
                  /\ g2 = [h EXCEPT ![a] = R]
                  /\ LineInv([WithCore(R, c, k2, {}) EXCEPT !.dirty = TRUE])
                  /\ \A b \in Addr, d \in CPU : h[b].core[d].l1 = f[b].core[d].l1
  <2>1. CASE k.l2 = Modified
    <3>1. Has(k) /\ Owns(k)
      BY <2>1 DEF Has, Owns
    <3>2. LineInv(WithCore(f[a], c, k2, {}))
      BY <1>1, <1>2, <3>1, SameRoleInv
    <3>3. WithCore(f[a], c, k2, {}).core[c] = k2
      <4>1. /\ f[a].core \in [CPU -> Core]
            /\ WithCore(f[a], c, k2, {}).core = [f[a].core EXCEPT ![c] = k2]
        BY <1>1, <1>2, WithCoreFacts DEF Line
      <4>. QED  BY <4>1
    <3>4. LineInv([WithCore(f[a], c, k2, {}) EXCEPT !.dirty = TRUE])
      BY <1>2, <3>2, <3>3, DirtyOwnedInv
    <3>5. g2 = [f EXCEPT ![a] = f[a]]
      BY <1>1, <1>4, <2>1
    <3>. QED  BY <1>1, <3>4, <3>5
  <2>2. CASE k.l2 # Modified
    <3>1. PICK h0 \in L2Room(f, c, a) : g2 \in accessCoherentHome(h0, c, a, "GetM")
      BY <1>4, <2>2
    <3>2. /\ Consistent(h0) /\ h0[a].core[c] = k
          /\ \A b \in Addr, d \in CPU : h0[b].core[d].l1 = f[b].core[d].l1
      BY <3>1, L2RoomInv
    <3>3. PICK h : /\ Consistent(h)
                   /\ \A b \in Addr : h[b].core = h0[b].core
                   /\ g2 = [h EXCEPT ![a] = HomeRequest(h0[a], c, "GetM")]
      BY <3>1, <3>2, AtHome
    <3>. DEFINE R == HomeGetM(h0[a], c)
    <3>4. LineInv(h0[a]) /\ ~Owns(h0[a].core[c])
      BY <2>2, <3>2 DEF Consistent, Owns
    <3>. HIDE DEF k
    <3>5. R \in Line
      BY <3>4, HomeGetMFacts
    <3>6. LineInv([WithCore(R, c, k2, {}) EXCEPT !.dirty = TRUE])
      BY <1>2, <3>4, GetMInv
    <3>7. g2 = [h EXCEPT ![a] = R]
      BY <3>3 DEF HomeRequest
    <3>8. \A b \in Addr, d \in CPU : h[b].core[d].l1 = f[b].core[d].l1
      BY <3>2, <3>3
    <3>. HIDE DEF R
    <3>. WITNESS h, R
    <3>. QED  BY <3>3, <3>5, <3>6, <3>7, <3>8
  <2>. QED  BY <2>1, <2>2
<1>. DEFINE k1 == [R.core[c] EXCEPT !.l2 = Shared, !.d2 = Modified]
<1>6. k1 \in Core /\ k2 = [l1 |-> Modified, l2 |-> k1.l2, d2 |-> k1.d2]
  <2>1. R.core[c] \in Core
    BY <1>5 DEF Line
  <2>2. k1 \in Core /\ k1.l2 = Shared /\ k1.d2 = Modified
    BY <2>1 DEF Core
  <2>. QED  BY <2>2 DEF k2
<1>7. h \in [Addr -> Line]
  BY <1>5 DEF Consistent
<1>8. g2[a] = R
  BY <1>5, <1>7
<1>9. g1 = [g2 EXCEPT ![a] = WithCore(R, c, k1, {})]
  BY <1>4, <1>8 DEF L2FillM
<1>. HIDE DEF k, k1
<1>10. g1 = [h EXCEPT ![a] = WithCore(R, c, k1, {})]
  BY <1>5, <1>7, <1>9
<1>11. SetL1(g1[a], c, Modified) = WithCore(R, c, k2, {})
  BY <1>5, <1>6, <1>7, <1>10, SetL1Facts
<1>. DEFINE X == [WithCore(R, c, k2, {}) EXCEPT !.dirty = TRUE]
<1>12. LineInv(X) /\ X \in Line /\ X.core[c].l1 = Modified
  <2>1. k2 \in Core /\ k2.l1 = Modified
    BY <1>2 DEF k2
  <2>. DEFINE Y == WithCore(R, c, k2, {})
  <2>2. Y \in Line /\ Y.core = [R.core EXCEPT ![c] = k2] /\ R.core \in [CPU -> Core]
    BY <1>5, <2>1, WithCoreFacts DEF Line
  <2>. HIDE DEF Y
  <2>3. [Y EXCEPT !.dirty = TRUE].core = Y.core
    BY <2>2 DEF Line
  <2>4. X.core[c] = k2
    BY <2>2, <2>3 DEF Y
  <2>. QED  BY <1>5, <2>1, <2>4 DEF LineInv
<1>13. g = [g1 EXCEPT ![a] = X]
  BY <1>11 DEF L1Write
<1>. HIDE DEF X, g
<1>14. g = [h EXCEPT ![a] = X]
  BY <1>7, <1>10, <1>13
<1>15. g \in [Addr -> Line] /\ g[a] = X /\ \A b \in Addr \ {a} : g[b] = h[b]
  BY <1>7, <1>12, <1>14
<1>16. Consistent(g)
  BY <1>5, <1>12, <1>15 DEF Consistent
<1>17. /\ g[a].core[c].l1 = Modified
       /\ \A b \in Addr \ {a}, d \in CPU : g[b].core[d].l1 = f[b].core[d].l1
  BY <1>5, <1>12, <1>15
<1>. QED  BY <1>16, <1>17 DEF g

\* A whole read, with every eviction and message it causes, keeps the state
\* consistent.
LEMMA ReadLineInv ==
  ASSUME NEW f, Consistent(f), NEW c \in CPU, NEW a \in Addr,
         NEW g, g \in ReadLine(f, c, a)
  PROVE  Consistent(g)
<1>1. CASE f[a].core[c].l1 # Invalid
  BY <1>1 DEF ReadLine
<1>2. CASE f[a].core[c].l1 = Invalid
  <2>1. PICK h \in L1Room(f, c, a) : \E g1 \in L2GetS(h, c, a) :
          g = L1Fill(g1, c, a)
    BY <1>2 DEF ReadLine, L1Fill
  <2>2. PICK g1 \in L2GetS(h, c, a) : g = L1Fill(g1, c, a)
    BY <2>1
  <2>3. Consistent(h) /\ h[a].core[c].l1 = Invalid
    BY <1>2, L1RoomInv
  <2>. QED  BY <2>2, <2>3, L2GetSInv
<1>. QED  BY <1>1, <1>2

\* A whole write, with every eviction and message it causes, keeps the state
\* consistent.
LEMMA WriteLineInv ==
  ASSUME NEW f, Consistent(f), NEW c \in CPU, NEW a \in Addr,
         NEW g, g \in WriteLine(f, c, a)
  PROVE  Consistent(g)
<1>1. CASE f[a].core[c].l1 = Modified
  <2>. DEFINE k == f[a].core[c]
              X == [f[a] EXCEPT !.dirty = TRUE]
  <2>1. k \in Core /\ LineInv(f[a]) /\ f[a] \in Line /\ f \in [Addr -> Line] /\ Owns(k)
    BY <1>1 DEF Consistent, LineInv, Line, Owns
  <2>2. [k EXCEPT !.l1 = Modified] = k
    BY <1>1, <2>1 DEF Core
  <2>3. SetL1(f[a], c, Modified) = f[a]
    BY <2>1, <2>2 DEF SetL1, WithCore, Line
  <2>4. g = [f EXCEPT ![a] = X]
    BY <1>1, <2>3 DEF WriteLine
  <2>5. LineInv(X) /\ X \in Line
    BY <2>1, DirtyOwnedInv DEF LineInv
  <2>. HIDE DEF X
  <2>6. g \in [Addr -> Line] /\ g[a] = X /\ \A b \in Addr \ {a} : g[b] = f[b]
    BY <2>1, <2>4, <2>5
  <2>. QED  BY <2>5, <2>6 DEF Consistent
<1>2. CASE f[a].core[c].l1 # Modified
  <2>1. PICK h \in L1Room(f, c, a) : \E g1 \in L2GetM(h, c, a) :
          g = L1Write(g1, c, a)
    BY <1>2 DEF WriteLine, L1Write
  <2>2. PICK g1 \in L2GetM(h, c, a) : g = L1Write(g1, c, a)
    BY <2>1
  <2>3. Consistent(h) /\ h[a].core[c].l1 # Modified
    BY <1>2, L1RoomInv
  <2>. QED  BY <2>2, <2>3, L2GetMInv
<1>. QED  BY <1>1, <1>2

\* Who may lose a line in an access by c to a.
LossOf(f, g, b, d) == f[b].core[d].l1 # Invalid /\ g[b].core[d].l1 = Invalid

\* A read takes lines out of the reader's own L1 only, and only when it fills it.
LEMMA ReadLoss ==
  ASSUME NEW f, Consistent(f), NEW c \in CPU, NEW a \in Addr,
         NEW g, g \in ReadLine(f, c, a), NEW b \in Addr, NEW d \in CPU, LossOf(f, g, b, d)
  PROVE  d = c /\ b # a /\ f[a].core[c].l1 = Invalid /\ g[a].core[c].l1 # Invalid
<1>1. f[a].core[c].l1 = Invalid
  BY DEF ReadLine, LossOf
<1>2. PICK h \in L1Room(f, c, a) : \E g1 \in L2GetS(h, c, a) :
        g = L1Fill(g1, c, a)
  BY <1>1 DEF ReadLine, L1Fill
<1>3. PICK g1 \in L2GetS(h, c, a) : g = L1Fill(g1, c, a)
  BY <1>2
<1>4. /\ Consistent(h) /\ h[a].core[c].l1 = Invalid
      /\ \A x \in Addr, e \in CPU \ {c} : h[x].core[e].l1 = f[x].core[e].l1
  BY <1>1, L1RoomInv
<1>5. /\ g[a].core[c].l1 = Shared
      /\ \A x \in Addr, e \in CPU : h[x].core[e].l1 # Invalid => g[x].core[e].l1 # Invalid
  BY <1>3, <1>4, L2GetSInv
<1>. QED  BY <1>1, <1>4, <1>5 DEF LossOf

\* A write takes the line written out of the other L1s, and others out of the
\* writer's own L1 only, when it fills it.
LEMMA WriteLoss ==
  ASSUME NEW f, Consistent(f), NEW c \in CPU, NEW a \in Addr,
         NEW g, g \in WriteLine(f, c, a), NEW b \in Addr, NEW d \in CPU, LossOf(f, g, b, d)
  PROVE  /\ g[a].core[c].l1 = Modified
         /\ \/ d # c /\ b = a
            \/ d = c /\ b # a /\ f[a].core[c].l1 = Invalid
<1>1. f[a].core[c].l1 # Modified
  <2>1. SUFFICES ASSUME f[a].core[c].l1 = Modified PROVE FALSE
    OBVIOUS
  <2>. DEFINE k == f[a].core[c]
              X == [f[a] EXCEPT !.dirty = TRUE]
  <2>2. k \in Core /\ f[a] \in Line /\ f \in [Addr -> Line]
    BY DEF Consistent, LineInv, Line
  <2>3. [k EXCEPT !.l1 = Modified] = k
    BY <2>1, <2>2 DEF Core
  <2>4. SetL1(f[a], c, Modified) = f[a]
    BY <2>2, <2>3 DEF SetL1, WithCore, Line
  <2>5. g = [f EXCEPT ![a] = X]
    BY <2>1, <2>4 DEF WriteLine
  <2>6. X.core = f[a].core
    BY <2>2 DEF Line
  <2>. HIDE DEF X
  <2>7. g[b].core = f[b].core
    BY <2>2, <2>5, <2>6
  <2>. QED  BY <2>7 DEF LossOf
<1>2. PICK h \in L1Room(f, c, a) : \E g1 \in L2GetM(h, c, a) :
        g = L1Write(g1, c, a)
  BY <1>1 DEF WriteLine, L1Write
<1>3. PICK g1 \in L2GetM(h, c, a) : g = L1Write(g1, c, a)
  BY <1>2
<1>4. /\ Consistent(h) /\ h[a].core[c].l1 # Modified
      /\ \A x \in Addr, e \in CPU \ {c} : h[x].core[e].l1 = f[x].core[e].l1
      /\ f[a].core[c].l1 # Invalid => h = f
  BY <1>1, L1RoomInv
<1>5. /\ g[a].core[c].l1 = Modified
      /\ \A x \in Addr \ {a}, e \in CPU : g[x].core[e].l1 = h[x].core[e].l1
  BY <1>3, <1>4, L2GetMInv
<1>. QED  BY <1>4, <1>5 DEF LossOf

-----------------------------------------------------------------------------
(***************************************************************************)
(* The theorems.                                                           *)
(***************************************************************************)

\* Whatever the CPUs read and write, and whichever victims the three levels
\* choose, every line stays consistent.
THEOREM InductiveInvariant == Spec => []IInv
<1>1. Init => IInv
  <2>. SUFFICES ASSUME Init, NEW a \in Addr PROVE line \in [Addr -> Line] /\ LineInv(line[a])
    BY DEF IInv, Consistent, Init
  <2>. DEFINE C == [c \in CPU |-> [l1 |-> Invalid, l2 |-> Invalid, d2 |-> NoEntry]]
              D == EntryOf(NoEntry, NULL_IDX, {})
              X == [core |-> C, home |-> Invalid, dir |-> D, dirty |-> FALSE, failed |-> {}]
  <2>1. C \in [CPU -> Core] /\ D \in Entry
    BY DEF Core, Entry, EntryOf
  <2>2. X \in Line
    BY <2>1 DEF Line
  <2>3. line = [b \in Addr |-> X]
    BY DEF Init
  <2>4. line \in [Addr -> Line] /\ line[a] = X
    BY <2>2, <2>3
  <2>5. \A c \in CPU : CoreInv(C[c]) /\ ~Has(C[c])
    BY DEF CoreInv, Has
  <2>6. X.core = C /\ X.home = Invalid /\ X.dir = D /\ ~X.dirty /\ X.failed = {}
    OBVIOUS
  <2>. HIDE DEF C, X
  <2>7. DirInv(X) /\ HomeInv(X) /\ FailedInv(X) /\ DirtyInv(X)
    BY <2>5, <2>6 DEF DirInv, HomeInv, FailedInv, DirtyInv, EntryOf
  <2>. QED  BY <2>2, <2>4, <2>5, <2>6, <2>7 DEF LineInv
<1>2. IInv /\ [Next]_vars => IInv'
  <2>. SUFFICES ASSUME IInv, [Next]_vars PROVE Consistent(line')
    BY DEF IInv, Consistent
  <2>1. CASE UNCHANGED vars
    BY <2>1 DEF IInv, vars
  <2>2. ASSUME NEW c \in CPU, NEW a \in Addr, Read(c, a) PROVE Consistent(line')
    BY <2>2, ReadLineInv DEF IInv, Read
  <2>3. ASSUME NEW c \in CPU, NEW a \in Addr, Write(c, a) PROVE Consistent(line')
    BY <2>3, WriteLineInv DEF IInv, Write
  <2>. QED  BY <2>1, <2>2, <2>3 DEF Next
<1>. QED  BY <1>1, <1>2, PTL DEF Spec

\* Every level holds a legal state for every address.
THEOREM TypeCorrect == Spec => []TypeOK
<1>1. IInv => TypeOK
  BY DEF IInv, Consistent, TypeOK
<1>. QED  BY <1>1, InductiveInvariant, PTL

\* Single writer or several readers, for any number of CPUs.
THEOREM Coherence == Spec => []SingleWriter
<1>1. IInv => SingleWriter
  <2>. SUFFICES ASSUME IInv, NEW a \in Addr, NEW c \in CPU, NEW d \in CPU,
                       c # d, Owns(line[a].core[c])
                PROVE  ~Has(line[a].core[d])
    BY DEF SingleWriter
  <2>. DEFINE ln == line[a]
  <2>1. DirInv(ln) /\ ln.dir.State \in DirStates /\ Has(ln.core[c])
    BY DEF IInv, Consistent, LineInv, Line, Entry, Owns, Has
  <2>. HIDE DEF ln
  <2>. QED  BY <2>1 DEF DirInv, ln
<1>. QED  BY <1>1, InductiveInvariant, PTL

\* The home's directory names exactly the CPUs that hold the line.
THEOREM HomeDirectory == Spec => []HomeDirectoryExact
<1>1. IInv => HomeDirectoryExact
  <2>. SUFFICES ASSUME IInv, NEW a \in Addr, NEW c \in CPU
                PROVE  LET d == line[a].dir
                           k == line[a].core[c]
                       IN  /\ Owns(k) <=> d.State = Modified /\ d.Owner = c
                           /\ Has(k) /\ ~Owns(k) <=> d.State = Shared /\ c \in d.Sharers
    BY DEF HomeDirectoryExact
  <2>. DEFINE ln == line[a]
  <2>1. DirInv(ln) /\ ln.dir.State \in DirStates /\ (Owns(ln.core[c]) => Has(ln.core[c]))
    BY DEF IInv, Consistent, LineInv, Line, Entry, Owns, Has
  <2>. HIDE DEF ln
  <2>2. /\ Owns(ln.core[c]) <=> ln.dir.State = Modified /\ ln.dir.Owner = c
        /\ Has(ln.core[c]) /\ ~Owns(ln.core[c])
             <=> ln.dir.State = Shared /\ c \in ln.dir.Sharers
    BY <2>1 DEF DirInv
  <2>. QED  BY <2>2 DEF ln
<1>. QED  BY <1>1, InductiveInvariant, PTL

\* Each L2's directory follows its L1.
THEOREM L2Directory == Spec => []L2DirectoryExact
<1>1. IInv => L2DirectoryExact
  BY DEF IInv, Consistent, LineInv, CoreInv, L2DirectoryExact
<1>. QED  BY <1>1, InductiveInvariant, PTL

\* An L1 loses a line only to another CPU's write of it or to a fill of its own,
\* whatever victims the L2s and the home choose.
THEOREM LossesJustified == Spec => LossJustified
<1>. DEFINE Justified(b, d) ==
              \/ \E c \in CPU \ {d} : line'[b].core[c].l1 = Modified
              \/ \E a \in Addr \ {b} : /\ line[a].core[d].l1 = Invalid
                                       /\ line'[a].core[d].l1 # Invalid
            Losses == \A b \in Addr, d \in CPU :
                        line[b].core[d].l1 # Invalid /\ line'[b].core[d].l1 = Invalid => Justified(b, d)
<1>1. ASSUME IInv, Next PROVE Losses
  <2>. SUFFICES ASSUME NEW b \in Addr, NEW d \in CPU, LossOf(line, line', b, d)
                PROVE  Justified(b, d)
    BY DEF LossOf
  <2>1. ASSUME NEW c \in CPU, NEW a \in Addr, Read(c, a) PROVE Justified(b, d)
    <3>1. d = c /\ b # a /\ line[a].core[c].l1 = Invalid /\ line'[a].core[c].l1 # Invalid
      BY <1>1, <2>1, ReadLoss DEF IInv, Read
    <3>. QED  BY <3>1
  <2>2. ASSUME NEW c \in CPU, NEW a \in Addr, Write(c, a) PROVE Justified(b, d)
    <3>1. /\ line'[a].core[c].l1 = Modified
          /\ \/ d # c /\ b = a
             \/ d = c /\ b # a /\ line[a].core[c].l1 = Invalid
      BY <1>1, <2>2, WriteLoss DEF IInv, Write
    <3>. QED  BY <3>1
  <2>. QED  BY <1>1, <2>1, <2>2 DEF Next
<1>2. IInv /\ [Next]_vars => [Losses]_vars
  BY <1>1
<1>. QED  BY <1>2, InductiveInvariant, PTL DEF Spec, LossJustified

\* Below an exclusive home no assert of the three levels ever fails.
THEOREM ExclusiveAsserts == ASSUME ExclusiveHome PROVE Spec => []AssertsHold
<1>1. IInv => AssertsHold
  BY DEF IInv, Consistent, LineInv, FailedInv, AssertsHold
<1>. QED  BY <1>1, InductiveInvariant, PTL

\* In both modes no assert but the two of HomeModifiedOnce and SharersCanAnswer
\* ever fails.
THEOREM OtherAsserts == Spec => []OtherAssertsHold
<1>1. IInv => OtherAssertsHold
  BY ModeAssumption DEF IInv, Consistent, LineInv, FailedInv, OtherAssertsHold
<1>. QED  BY <1>1, InductiveInvariant, PTL

\* A home that is not exclusive never lets a written value leave the caches
\* before memory has it.
THEOREM DirtyKept == ASSUME ~ExclusiveHome PROVE Spec => []DirtyDataHeld
<1>1. IInv => DirtyDataHeld
  BY DEF IInv, Consistent, LineInv, DirtyInv, DirtyDataHeld
<1>. QED  BY <1>1, InductiveInvariant, PTL

=============================================================================
