--------------------------- MODULE SchedulerProofs ---------------------------
(***************************************************************************)
(* Proofs about the two schedulers that are SystemC threads: appointments  *)
(* for parameters (ParamScheduler) and for debug levels (LoggerCore), for  *)
(* any modules, loggers, dates and numbers of appointments.                *)
(***************************************************************************)
EXTENDS ParamScheduler, LoggerCore, FiniteSetTheorems, TLAPS

-----------------------------------------------------------------------------
(***************************************************************************)
(* The inductive invariant of ParamScheduler.                              *)
(***************************************************************************)

\* The order in which appointments are due: by date, then as they were made.
Before(list, a, b) == list[a].date < list[b].date \/ (list[a].date = list[b].date /\ a < b)

ParamTyped ==
  /\ appointments \in Seq([module : ParamModules, date : Dates])
  /\ paramSchedule \in Seq(DOMAIN appointments) /\ applied \in Seq(DOMAIN appointments)

\* What is scheduled and what was applied are in order, the latter first.
ParamsInOrder ==
  /\ \A i, j \in DOMAIN paramSchedule :
       i < j => Before(appointments, paramSchedule[i], paramSchedule[j])
  /\ \A i, j \in DOMAIN applied : i < j => Before(appointments, applied[i], applied[j])
  /\ \A i \in DOMAIN applied : \A j \in DOMAIN paramSchedule :
       Before(appointments, applied[i], paramSchedule[j])
  /\ \A i \in DOMAIN applied : DateOf(applied[i]) <= now

\* The appointment the thread holds is scheduled, and no other one of its date
\* was made earlier.
ReferenceIsFirst ==
  reference # NoReference =>
    /\ \E i \in DOMAIN paramSchedule : paramSchedule[i] = reference
    /\ \A i \in DOMAIN paramSchedule :
         DateOf(paramSchedule[i]) = DateOf(reference) => reference <= paramSchedule[i]

\* A thread that waits, and that nobody woke, waits for the first appointment.
ParamWaits ==
  ~runnable /\ ~notified /\ paramSchedule # <<>> => wakeAt = DateOf(paramSchedule[1])

\* An appointment is scheduled or was applied.
EachAccounted ==
  \A a \in DOMAIN appointments : (\E i \in DOMAIN applied : applied[i] = a)
                                    <=> ~(\E i \in DOMAIN paramSchedule : paramSchedule[i] = a)

\* The part of the invariant that is about the appointments.
ParamListInv ==
  /\ KernelTypeOK /\ ParamTyped /\ reference \in {NoReference} \union DOMAIN appointments
  /\ ParamsInOrder /\ ReferenceIsFirst /\ ParamWaits /\ NoParamLate /\ EachAccounted

\* The inductive invariant.
ParamInv ==
  /\ ParamListInv
  /\ mVpsimModules \subseteq ParamModules /\ thrown \in BOOLEAN
  /\ registrations \in 0 .. MaxRegistrations

-----------------------------------------------------------------------------
(***************************************************************************)
(* The inductive invariant of LoggerCore.                                  *)
(***************************************************************************)

LogTyped ==
  /\ made \in Seq([logger : Loggers, date : Dates, lvl : DebugLvls])
  /\ times \in Seq(Nat) /\ Len(times) = Len(made)
  /\ done \in [Dates -> Nat] /\ crowded \subseteq Dates
  /\ mSchedule \in Seq(DOMAIN made)
  /\ \A i, j \in DOMAIN mSchedule : mSchedule[i] = mSchedule[j] => i = j

\* What is still in the list was not applied, except for a crowded date.
NotYetApplied ==
  \A i \in DOMAIN mSchedule : times[mSchedule[i]] = 0 \/ Date(mSchedule[i]) \in crowded

\* The appointment the thread copied is still in the list.
CopyKept ==
  nextAppointment # NoAppointment => \E i \in DOMAIN mSchedule : mSchedule[i] = nextAppointment

\* Where the copy is not the first of the list, the thread is about to run, and
\* at a date at which the copy is not due, or one that is crowded.
CopyIsFirst ==
  mSchedule # <<>> /\ nextAppointment # mSchedule[1] =>
    /\ runnable \/ notified
    /\ nextAppointment # NoAppointment => Date(nextAppointment) > now \/ now \in crowded

\* A thread that waits, and that nobody woke, waits for the first appointment.
LogWaits ==
  ~runnable /\ ~notified /\ mSchedule # <<>> => wakeAt = Date(mSchedule[1])

\* The part of the invariant that is about the list of appointments.
ListInv ==
  /\ KernelTypeOK /\ LogTyped /\ nextAppointment \in {NoAppointment} \union DOMAIN made
  /\ NoAppointmentLate /\ AppliedOnce /\ AppliedAsManyAsLeft
  /\ NotYetApplied /\ CopyKept /\ CopyIsFirst /\ LogWaits

\* The part about the registered loggers.
CoreInv ==
  /\ mLoggers \in [LoggerNames -> Loggers \union {NoLogger}]
  /\ mLoggingEnabled \in BOOLEAN /\ mGlobalDebugLvl \in DebugLvls
  /\ alive \subseteq Loggers /\ name \in [Loggers -> LoggerNames]
  /\ mEnabled \in [Loggers -> BOOLEAN] /\ mDebugLvl \in [Loggers -> DebugLvls]
  /\ \A n \in LoggerNames : mLoggers[n] # NoLogger =>
        mLoggers[n] \in alive /\ name[mLoggers[n]] = n
  /\ \A l \in Loggers : mEnabled[l] <=> (isRegistered(l) /\ mLoggingEnabled)

\* The inductive invariant.
LoggerInv == ListInv /\ CoreInv

-----------------------------------------------------------------------------
(***************************************************************************)
(* Sequences.                                                              *)
(***************************************************************************)

\* A set of natural numbers has a least element.
LEMMA MinOf ==
  ASSUME NEW S, S \subseteq Nat, S # {}
  PROVE  Min(S) \in S /\ \A y \in S : Min(S) <= y
<1>1. PICK x \in S : \A y \in S : ~(<<y, x>> \in OpToRel(<, Nat))
  BY NatLessThanWellFounded, WFMin, Zenon
<1>2. \A y \in S : x <= y
  <2>. SUFFICES ASSUME NEW y \in S, y < x  PROVE FALSE
    OBVIOUS
  <2>1. <<y, x>> \in OpToRel(<, Nat)
    BY DEF OpToRel
  <2>. QED  BY <1>1, <2>1
<1>. QED  BY <1>2 DEF Min

\* The elements of a sequence.
LEMMA ElementOf ==
  ASSUME NEW T, NEW s \in Seq(T), NEW i \in DOMAIN s
  PROVE  s[i] \in T
OBVIOUS

\* What InsertAt makes of a sequence.
LEMMA Inserted ==
  ASSUME NEW T, NEW s \in Seq(T), NEW e, NEW p \in 1 .. Len(s) + 1
  PROVE  InsertAt(s, p, e)
           = [k \in 1 .. Len(s) + 1 |-> IF k < p THEN s[k] ELSE IF k = p THEN e ELSE s[k - 1]]
<1>. DEFINE n == Len(s)
            left == SubSeq(s, 1, p - 1)
            right == SubSeq(s, p, n)
<1>1. n \in Nat /\ DOMAIN s = 1 .. n
  OBVIOUS
<1>2. left \in Seq(T) /\ Len(left) = p - 1 /\ \A k \in 1 .. p - 1 : left[k] = s[k]
  BY <1>1
<1>3. right \in Seq(T) /\ Len(right) = n - p + 1 /\ \A k \in 1 .. n - p + 1 : right[k] = s[p + k - 1]
  BY <1>1
<1>4. InsertAt(s, p, e) = left \o <<e>> \o right
  BY DEF InsertAt
<1>. DEFINE U == T \union {e}
            a == left \o <<e>>
            r == InsertAt(s, p, e)
<1>. HIDE DEF left, right
<1>5. /\ left \in Seq(U) /\ right \in Seq(U) /\ <<e>> \in Seq(U)
      /\ a \in Seq(U) /\ Len(a) = p /\ \A k \in 1 .. p : a[k] = IF k < p THEN s[k] ELSE e
  BY <1>1, <1>2, <1>3
<1>6. r = a \o right
  BY <1>4
<1>. HIDE DEF a, r, U
<1>7. r \in Seq(U) /\ Len(r) = n + 1
  <2>1. a \in Seq(U) /\ right \in Seq(U)
    BY <1>5
  <2>2. r \in Seq(U) /\ Len(r) = Len(a) + Len(right)
    BY <1>6, <2>1
  <2>. QED  BY <1>1, <1>3, <1>5, <2>2
<1>8. ASSUME NEW k \in 1 .. n + 1
      PROVE  r[k] = IF k < p THEN s[k] ELSE IF k = p THEN e ELSE s[k - 1]
  <2>1. CASE k <= p
    <3>1. r[k] = a[k]
      BY <1>3, <1>5, <1>6, <2>1
    <3>. QED  BY <1>5, <2>1, <3>1
  <2>2. CASE ~(k <= p)
    <3>1. r[k] = right[k - p] /\ k - p \in 1 .. n - p + 1
      BY <1>1, <1>3, <1>5, <1>6, <2>2
    <3>2. right[k - p] = s[p + (k - p) - 1]
      BY <1>3, <3>1
    <3>3. p + (k - p) - 1 = k - 1
      BY <1>1
    <3>. QED  BY <2>2, <3>1, <3>2, <3>3
  <2>. QED  BY <2>1, <2>2
<1>. QED  BY <1>1, <1>7, <1>8 DEF r

\* r is the sequence s with e at place p: where the elements are, and which.
WithInserted(r, s, p, e) ==
  /\ DOMAIN r = 1 .. Len(s) + 1
  /\ \A k \in 1 .. Len(s) + 1 : /\ k < p => k \in 1 .. Len(s) /\ r[k] = s[k]
                                /\ k = p => r[k] = e
                                /\ k > p => k - 1 \in 1 .. Len(s) /\ r[k] = s[k - 1]
  /\ \A k \in 1 .. Len(s) + 1 : r[k] = e \/ \E i \in 1 .. Len(s) : r[k] = s[i]
  /\ \A i \in 1 .. Len(s) : \E k \in 1 .. Len(s) + 1 : r[k] = s[i]
  /\ \E k \in 1 .. Len(s) + 1 : r[k] = e

\* InsertAt is that sequence.
LEMMA InsertedElements ==
  ASSUME NEW T, NEW s \in Seq(T), NEW e, NEW p \in 1 .. Len(s) + 1, NEW r, r = InsertAt(s, p, e)
  PROVE  r \in Seq(T \union {e}) /\ WithInserted(r, s, p, e)
<1>. DEFINE l == Len(s)
<1>1. l \in Nat /\ p \in Int
  OBVIOUS
<1>2. r = [k \in 1 .. l + 1 |-> IF k < p THEN s[k] ELSE IF k = p THEN e ELSE s[k - 1]]
  BY Inserted
<1>3. \A i \in 1 .. l : s[i] \in T
  OBVIOUS
<1>. HIDE DEF l
<1>4. /\ DOMAIN r = 1 .. l + 1
      /\ \A k \in 1 .. l + 1 : /\ k < p => k \in 1 .. l /\ r[k] = s[k]
                               /\ k = p => r[k] = e
                               /\ k > p => k - 1 \in 1 .. l /\ r[k] = s[k - 1]
  BY <1>1, <1>2 DEF l
<1>5. ASSUME NEW k \in 1 .. l + 1  PROVE r[k] = e \/ \E i \in 1 .. l : r[k] = s[i]
  BY <1>1, <1>4
<1>6. ASSUME NEW i \in 1 .. l  PROVE \E k \in 1 .. l + 1 : r[k] = s[i]
  <2>1. CASE i < p
    BY <1>1, <1>4, <2>1
  <2>2. CASE ~(i < p)
    <3>1. i + 1 \in 1 .. l + 1 /\ i + 1 > p /\ (i + 1) - 1 = i
      BY <1>1, <2>2
    <3>2. r[i + 1] = s[(i + 1) - 1]
      BY <1>4, <3>1
    <3>. QED  BY <3>1, <3>2
  <2>. QED  BY <2>1, <2>2
<1>7. r[p] = e /\ p \in 1 .. l + 1
  BY <1>4 DEF l
<1>8. \A k \in 1 .. l + 1 : r[k] \in T \union {e}
  BY <1>3, <1>5
<1>9. r \in Seq(T \union {e})
  BY <1>1, <1>2, <1>4, <1>8
<1>. QED  BY <1>4, <1>5, <1>6, <1>7, <1>9 DEF l, WithInserted

-----------------------------------------------------------------------------
(***************************************************************************)
(* The scheduler of parameters.                                            *)
(***************************************************************************)

\* The types the steps below use.
LEMMA ParamTypes ==
  ASSUME ParamListInv
  PROVE  /\ MaxTime \in Nat /\ Dates = 0 .. MaxTime /\ now \in Int
         /\ Len(appointments) \in Nat /\ DOMAIN appointments = 1 .. Len(appointments)
         /\ Len(paramSchedule) \in Nat /\ DOMAIN paramSchedule = 1 .. Len(paramSchedule)
         /\ Len(applied) \in Nat /\ DOMAIN applied = 1 .. Len(applied)
         /\ \A a \in DOMAIN appointments : a \in Int /\ DateOf(a) \in Dates /\ DateOf(a) \in Int
         /\ \A i \in DOMAIN paramSchedule : paramSchedule[i] \in DOMAIN appointments
         /\ \A i \in DOMAIN applied : applied[i] \in DOMAIN appointments
<1>1. /\ appointments \in Seq([module : ParamModules, date : Dates])
      /\ paramSchedule \in Seq(DOMAIN appointments) /\ applied \in Seq(DOMAIN appointments)
  BY DEF ParamListInv, ParamTyped
<1>2. MaxTime \in Nat /\ Dates = 0 .. MaxTime /\ now \in Int
  BY MaxTimeAssumption DEF ParamListInv, KernelTypeOK, Dates
<1>3. Len(appointments) \in Nat /\ DOMAIN appointments = 1 .. Len(appointments)
  BY <1>1
<1>4. \A a \in DOMAIN appointments : DateOf(a) \in Dates
  <2>. SUFFICES ASSUME NEW a \in DOMAIN appointments  PROVE appointments[a].date \in Dates
    BY DEF DateOf
  <2>1. appointments[a] \in [module : ParamModules, date : Dates]
    BY <1>1, ElementOf, Zenon
  <2>. QED  BY <2>1
<1>. QED  BY <1>1, <1>2, <1>3, <1>4

\* addParamAppointment: the place in the schedule is after the appointments of
\* the same date.
LEMMA PlaceOf ==
  ASSUME ParamListInv, NEW date \in Dates
  PROVE  /\ Place(date) \in 1 .. Len(paramSchedule) + 1
         /\ \A i \in DOMAIN paramSchedule : i < Place(date) => DateOf(paramSchedule[i]) <= date
         /\ \A i \in DOMAIN paramSchedule : i >= Place(date) => DateOf(paramSchedule[i]) > date
<1>. DEFINE n == Len(paramSchedule)
            late == {i \in DOMAIN paramSchedule : DateOf(paramSchedule[i]) > date}
            S == late \union {n + 1}
            p == Place(date)
<1>1. /\ n \in Nat /\ DOMAIN paramSchedule = 1 .. n /\ date \in Int
      /\ \A i \in 1 .. n : DateOf(paramSchedule[i]) \in Int
  BY ParamTypes
<1>2. S \subseteq Nat /\ S # {}
  BY <1>1
<1>3. p = Min(S)
  BY DEF Place
<1>4. p \in S /\ \A y \in S : p <= y
  <2>. HIDE DEF S, p
  <2>. QED  BY <1>2, <1>3, MinOf
<1>. HIDE DEF p
<1>5. p \in 1 .. n + 1
  BY <1>1, <1>4
<1>6. ASSUME NEW i \in 1 .. n, i < p  PROVE DateOf(paramSchedule[i]) <= date
  BY <1>1, <1>4, <1>5, <1>6
<1>7. ASSUME NEW i \in 1 .. n, i >= p  PROVE DateOf(paramSchedule[i]) > date
  <2>1. p \in 1 .. n /\ DateOf(paramSchedule[p]) > date
    BY <1>1, <1>4, <1>5, <1>7
  <2>2. CASE i = p
    BY <2>1, <2>2
  <2>3. CASE i # p
    <3>1. Before(appointments, paramSchedule[p], paramSchedule[i])
      BY <1>1, <1>7, <2>1, <2>3 DEF ParamListInv, ParamsInOrder
    <3>2. DateOf(paramSchedule[p]) <= DateOf(paramSchedule[i])
      BY <1>1, <2>1, <3>1 DEF Before, DateOf
    <3>. QED  BY <1>1, <2>1, <3>2
  <2>. QED  BY <2>2, <2>3
<1>. QED  BY <1>1, <1>5, <1>6, <1>7 DEF p

\* addParamAppointment: the new appointment goes to its place.
LEMMA AddKeeps ==
  ASSUME ParamListInv, NEW m \in ParamModules, NEW date \in Dates, addParamAppointment(m, date)
  PROVE  ParamListInv'
<1>. DEFINE n == Len(appointments) + 1
            l == Len(paramSchedule)
            p == Place(date)
            old == appointments
            new == appointments'
            s == paramSchedule
            r == paramSchedule'
<1>1. /\ MaxTime \in Nat /\ Dates = 0 .. MaxTime /\ now \in Int /\ date \in Int
      /\ n \in Nat /\ n > 0 /\ DOMAIN old = 1 .. n - 1
      /\ l \in Nat /\ DOMAIN s = 1 .. l
      /\ \A a \in 1 .. n - 1 : old[a].date \in Dates /\ old[a].date \in Int
      /\ \A i \in 1 .. l : s[i] \in 1 .. n - 1
      /\ \A i \in DOMAIN applied : applied[i] \in 1 .. n - 1
  BY ParamTypes DEF DateOf
<1>2. /\ date >= now /\ new = Append(old, [module |-> m, date |-> date])
      /\ r = InsertAt(s, p, n) /\ notified' = TRUE
      /\ UNCHANGED <<now, runnable, wakeAt, reference, applied>>
  BY DEF addParamAppointment
<1>3. old \in Seq([module : ParamModules, date : Dates]) /\ s \in Seq(1 .. n - 1)
      /\ applied \in Seq(1 .. n - 1)
  BY <1>1 DEF ParamListInv, ParamTyped
<1>4. /\ new \in Seq([module : ParamModules, date : Dates]) /\ DOMAIN new = 1 .. n
      /\ \A a \in 1 .. n - 1 : new[a] = old[a]
      /\ new[n].date = date
  <2>1. [module |-> m, date |-> date] \in [module : ParamModules, date : Dates]
    OBVIOUS
  <2>. QED  BY <1>1, <1>2, <1>3, <2>1
<1>5. /\ p \in 1 .. l + 1
      /\ \A i \in 1 .. l : i < p => old[s[i]].date <= date
      /\ \A i \in 1 .. l : i >= p => old[s[i]].date > date
  BY <1>1, PlaceOf DEF DateOf
<1>. HIDE DEF p
<1>6. r \in Seq((1 .. n - 1) \union {n}) /\ WithInserted(r, s, p, n)
  <2>1. /\ paramSchedule \in Seq(1 .. n - 1) /\ p \in 1 .. Len(paramSchedule) + 1
        /\ paramSchedule' = InsertAt(paramSchedule, p, n)
    BY <1>2, <1>3, <1>5
  <2>. HIDE DEF n
  <2>. QED  BY <2>1, InsertedElements
<1>7. /\ DOMAIN r = 1 .. l + 1
      /\ \A k \in 1 .. l + 1 : /\ k < p => k \in 1 .. l /\ r[k] = s[k] /\ r[k] \in 1 .. n - 1
                               /\ k = p => r[k] = n
                               /\ k > p => k - 1 \in 1 .. l /\ r[k] = s[k - 1] /\ r[k] \in 1 .. n - 1
  BY <1>1, <1>6 DEF WithInserted
<1>8. r \in Seq(1 .. n)
  <2>1. (1 .. n - 1) \union {n} = 1 .. n
    BY <1>1
  <2>. QED  BY <1>6, <2>1
<1>. HIDE DEF n, l, old, new, s, r
<1>9. /\ \A a, b \in 1 .. n - 1 : Before(new, a, b) <=> Before(old, a, b)
      /\ \A a \in 1 .. n - 1 : new[a].date <= date => Before(new, a, n)
      /\ \A a \in 1 .. n - 1 : new[a].date > date => Before(new, n, a)
  <2>1. \A a \in 1 .. n - 1 : new[a].date = old[a].date /\ new[a].date \in Int /\ a \in Int /\ a < n
    BY <1>1, <1>4
  <2>2. new[n].date = date /\ date \in Int /\ n \in Int
    BY <1>1, <1>4
  <2>3. \A a, b \in 1 .. n - 1 : Before(new, a, b) <=> Before(old, a, b)
    BY <2>1 DEF Before
  <2>4. \A a \in 1 .. n - 1 : new[a].date <= date => Before(new, a, n)
    BY <2>1, <2>2 DEF Before
  <2>5. \A a \in 1 .. n - 1 : new[a].date > date => Before(new, n, a)
    BY <2>1, <2>2 DEF Before
  <2>. QED  BY <2>3, <2>4, <2>5
<1>10. ASSUME NEW i \in 1 .. l + 1, NEW j \in 1 .. l + 1, i < j  PROVE Before(new, r[i], r[j])
  <2>0. /\ \A x, y \in 1 .. l : x < y => Before(old, s[x], s[y])
        /\ i \in Int /\ j \in Int /\ p \in Int
    <3>1. \A x, y \in 1 .. l : x < y => Before(old, s[x], s[y])
      BY <1>1 DEF ParamListInv, ParamsInOrder, s, old
    <3>2. i \in Int /\ j \in Int /\ p \in Int
      BY <1>1, <1>5
    <3>. QED  BY <3>1, <3>2
  <2>1. CASE j < p
    <3>1. Before(old, s[i], s[j]) /\ i < p
      BY <1>7, <1>10, <2>0, <2>1
    <3>. QED  BY <1>7, <1>9, <2>1, <3>1
  <2>2. CASE j = p
    <3>1. r[i] = s[i] /\ r[i] \in 1 .. n - 1 /\ old[s[i]].date <= date /\ r[j] = n
      BY <1>5, <1>7, <1>10, <2>0, <2>2
    <3>2. new[r[i]].date <= date
      BY <1>4, <3>1
    <3>. QED  BY <1>9, <3>1, <3>2
  <2>3. CASE i = p
    <3>1. r[j] = s[j - 1] /\ r[j] \in 1 .. n - 1 /\ j - 1 \in 1 .. l /\ j - 1 >= p /\ r[i] = n
      BY <1>7, <1>10, <2>0, <2>3
    <3>2. new[r[j]].date > date
      BY <1>4, <1>5, <3>1
    <3>. QED  BY <1>9, <3>1, <3>2
  <2>4. CASE i < p /\ j > p
    <3>1. r[i] = s[i] /\ i \in 1 .. l /\ r[i] \in 1 .. n - 1 /\ i < j - 1
          /\ r[j] = s[j - 1] /\ r[j] \in 1 .. n - 1 /\ j - 1 \in 1 .. l
      BY <1>7, <2>0, <2>4
    <3>. QED  BY <1>9, <2>0, <3>1
  <2>5. CASE i > p
    <3>1. r[i] = s[i - 1] /\ i - 1 \in 1 .. l /\ r[i] \in 1 .. n - 1 /\ i - 1 < j - 1
          /\ r[j] = s[j - 1] /\ r[j] \in 1 .. n - 1 /\ j - 1 \in 1 .. l
      BY <1>7, <1>10, <2>0, <2>5
    <3>. QED  BY <1>9, <2>0, <3>1
  <2>. QED  BY <1>10, <2>0, <2>1, <2>2, <2>3, <2>4, <2>5
\* Every place of the new schedule is the new appointment or one scheduled before.
<1>11. /\ \A k \in 1 .. l + 1 : r[k] = n \/ \E i \in 1 .. l : r[k] = s[i]
       /\ \A i \in 1 .. l : \E k \in 1 .. l + 1 : r[k] = s[i]
       /\ \E k \in 1 .. l + 1 : r[k] = n
  BY <1>6 DEF WithInserted, l, s
<1>12. ASSUME NEW i \in DOMAIN applied  PROVE \A k \in 1 .. l + 1 : Before(new, applied[i], r[k])
  <2>. SUFFICES ASSUME NEW k \in 1 .. l + 1  PROVE Before(new, applied[i], r[k])
    OBVIOUS
  <2>1. /\ applied[i] \in 1 .. n - 1 /\ old[applied[i]].date <= now
        /\ \A j \in 1 .. l : Before(old, applied[i], s[j])
    BY <1>1 DEF ParamListInv, ParamsInOrder, DateOf, old, s
  <2>2. CASE r[k] = n
    <3>1. new[applied[i]].date <= date
      BY <1>1, <1>2, <1>4, <2>1
    <3>. QED  BY <1>9, <2>1, <2>2, <3>1
  <2>3. ASSUME NEW j \in 1 .. l, r[k] = s[j]  PROVE Before(new, applied[i], r[k])
    BY <1>1, <1>9, <2>1, <2>3
  <2>. QED  BY <1>11, <2>2, <2>3
<1>13. ParamsInOrder'
  <2>1. \A i, j \in DOMAIN applied : i < j => Before(new, applied[i], applied[j])
    BY <1>1, <1>9 DEF ParamListInv, ParamsInOrder, old
  <2>2. \A i \in DOMAIN applied : new[applied[i]].date <= now
    BY <1>1, <1>4 DEF ParamListInv, ParamsInOrder, DateOf, old
  <2>. QED  BY <1>2, <1>7, <1>10, <1>12, <2>1, <2>2 DEF ParamsInOrder, DateOf, new, r
<1>14. reference' \in {NoReference} \union 1 .. n
  BY <1>1, <1>2 DEF ParamListInv, old
<1>15. ReferenceIsFirst'
  <2>. SUFFICES ASSUME reference # NoReference
                PROVE  /\ \E i \in 1 .. l + 1 : r[i] = reference
                       /\ \A i \in 1 .. l + 1 : new[r[i]].date = new[reference].date => reference <= r[i]
    BY <1>2, <1>7 DEF ReferenceIsFirst, DateOf, new, r
  <2>1. /\ reference \in 1 .. n - 1 /\ \E i \in 1 .. l : s[i] = reference
        /\ \A i \in 1 .. l : old[s[i]].date = old[reference].date => reference <= s[i]
    BY <1>1 DEF ParamListInv, ReferenceIsFirst, DateOf, old, s
  <2>2. \E i \in 1 .. l + 1 : r[i] = reference
    BY <1>11, <2>1
  <2>3. ASSUME NEW i \in 1 .. l + 1, new[r[i]].date = new[reference].date  PROVE reference <= r[i]
    <3>1. CASE r[i] = n
      BY <1>1, <2>1, <3>1
    <3>2. ASSUME NEW j \in 1 .. l, r[i] = s[j]  PROVE reference <= r[i]
      BY <1>1, <1>4, <2>1, <2>3, <3>2
    <3>. QED  BY <1>11, <3>1, <3>2
  <2>. QED  BY <2>2, <2>3
<1>16. ParamWaits'
  BY <1>2 DEF ParamWaits
<1>17. NoParamLate'
  <2>. SUFFICES ASSUME NEW k \in 1 .. l + 1  PROVE new[r[k]].date >= now
    BY <1>2, <1>7 DEF NoParamLate, DateOf, new, r
  <2>1. CASE r[k] = n
    BY <1>2, <1>4, <2>1
  <2>2. ASSUME NEW j \in 1 .. l, r[k] = s[j]  PROVE new[r[k]].date >= now
    <3>1. old[s[j]].date >= now
      BY <1>1 DEF ParamListInv, NoParamLate, DateOf, old, s
    <3>. QED  BY <1>1, <1>4, <2>2, <3>1
  <2>. QED  BY <1>11, <2>1, <2>2
<1>18. EachAccounted'
  <2>. SUFFICES ASSUME NEW a \in 1 .. n
                PROVE  (\E i \in DOMAIN applied : applied[i] = a) <=> ~(\E k \in 1 .. l + 1 : r[k] = a)
    <3>1. applied' = applied /\ DOMAIN appointments' = 1 .. n /\ DOMAIN paramSchedule' = 1 .. l + 1
      BY <1>2, <1>4, <1>7 DEF new, r
    <3>. QED  BY <3>1, Zenon DEF EachAccounted, r
  <2>1. CASE a = n
    <3>1. \A i \in DOMAIN applied : applied[i] # n
      BY <1>1
    <3>. QED  BY <1>11, <2>1, <3>1
  <2>2. CASE a # n
    <3>1. a \in 1 .. n - 1
      BY <1>1, <2>2
    <3>2. (\E i \in DOMAIN applied : applied[i] = a) <=> ~(\E j \in 1 .. l : s[j] = a)
      BY <1>1, <3>1 DEF ParamListInv, EachAccounted, old, s
    <3>3. (\E j \in 1 .. l : s[j] = a) <=> (\E k \in 1 .. l + 1 : r[k] = a)
      BY <1>11, <2>2
    <3>. QED  BY <3>2, <3>3
  <2>. QED  BY <2>1, <2>2
<1>19. ParamTyped'
  <2>1. applied' \in Seq(1 .. n)
    BY <1>1, <1>2, <1>3
  <2>. QED  BY <1>4, <1>8, <2>1 DEF ParamTyped, new, r
<1>20. KernelTypeOK'
  BY <1>2 DEF ParamListInv, KernelTypeOK
<1>. QED  BY <1>4, <1>13, <1>14, <1>15, <1>16, <1>17, <1>18, <1>19, <1>20 DEF ParamListInv, new

\* The appointment whose date has come is the first of the schedule, so that the
\* one the thread applies is the one it erases.
LEMMA ReachedIsFirst ==
  ASSUME ParamListInv, reached
  PROVE  Len(paramSchedule) > 0 /\ reference = paramSchedule[1] /\ DateOf(reference) = now
<1>. DEFINE s == paramSchedule
            l == Len(paramSchedule)
<1>1. /\ l \in Nat /\ DOMAIN s = 1 .. l /\ now \in Int
      /\ \A i \in 1 .. l : s[i] \in DOMAIN appointments /\ s[i] \in Int /\ DateOf(s[i]) \in Int
  BY ParamTypes
<1>2. /\ DateOf(reference) = now /\ \E i \in DOMAIN s : s[i] = reference
      /\ \A i \in DOMAIN s : DateOf(s[i]) = DateOf(reference) => reference <= s[i]
  BY DEF reached, ParamListInv, ReferenceIsFirst
<1>3. PICK i \in 1 .. l : s[i] = reference
  BY <1>1, <1>2
<1>. HIDE DEF s, l
<1>4. 1 \in 1 .. l
  BY <1>1
<1>5. CASE i # 1
  <2>1. Before(appointments, s[1], s[i])
    BY <1>1, <1>4, <1>5 DEF ParamListInv, ParamsInOrder, s
  <2>2. DateOf(s[1]) >= now
    BY <1>1, <1>4 DEF ParamListInv, NoParamLate, s
  <2>3. DateOf(s[1]) < DateOf(s[i]) \/ (DateOf(s[1]) = DateOf(s[i]) /\ s[1] < s[i])
    BY <2>1 DEF Before, DateOf
  <2>4. DateOf(s[1]) = now /\ s[1] < reference
    BY <1>1, <1>2, <1>3, <1>4, <2>2, <2>3
  <2>5. reference <= s[1]
    BY <1>1, <1>2, <1>4, <2>4
  <2>. QED  BY <1>1, <1>3, <1>4, <2>4, <2>5
<1>. QED  BY <1>1, <1>2, <1>3, <1>4, <1>5 DEF s, l

\* One round of the thread of the scheduler.
LEMMA ScheduleKeeps ==
  ASSUME ParamListInv, schedule
  PROVE  ParamListInv'
<1>. DEFINE s == paramSchedule
            l == Len(paramSchedule)
            D == DOMAIN appointments
            left == IF reached THEN Tail(paramSchedule) ELSE paramSchedule
<1>1. /\ l \in Nat /\ DOMAIN s = 1 .. l /\ now \in Int /\ s \in Seq(D) /\ applied \in Seq(D)
      /\ \A i \in 1 .. l : s[i] \in D
      /\ \A a \in D : a \in Int /\ DateOf(a) \in Dates /\ DateOf(a) \in Int
      /\ DOMAIN applied = 1 .. Len(applied) /\ Len(applied) \in Nat
      /\ D = 1 .. Len(appointments) /\ Len(appointments) \in Nat
  BY ParamTypes DEF ParamListInv, ParamTyped
<1>2. /\ \A i, j \in 1 .. l : i < j => Before(appointments, s[i], s[j])
      /\ \A i, j \in DOMAIN applied : i < j => Before(appointments, applied[i], applied[j])
      /\ \A i \in DOMAIN applied : \A j \in 1 .. l : Before(appointments, applied[i], s[j])
      /\ \A i \in DOMAIN applied : DateOf(applied[i]) <= now
      /\ \A i \in 1 .. l : DateOf(s[i]) >= now
  BY <1>1 DEF ParamListInv, ParamsInOrder, NoParamLate
<1>3. \A a \in D : (\E i \in DOMAIN applied : applied[i] = a) <=> ~(\E i \in 1 .. l : s[i] = a)
  BY <1>1 DEF ParamListInv, EachAccounted
<1>4. /\ paramSchedule' = left
      /\ applied' = IF reached THEN Append(applied, reference) ELSE applied
      /\ IF left = <<>> THEN reference' = NoReference /\ WaitUntil(Never)
         ELSE reference' = Head(left) /\ WaitUntil(DateOf(Head(left)))
      /\ UNCHANGED <<now, notified, appointments>>
  BY DEF schedule
\* What is left of the schedule and what was applied.
<1>5. /\ left \in Seq(D) /\ applied' \in Seq(D)
      /\ \A i, j \in DOMAIN left : i < j => Before(appointments, left[i], left[j])
      /\ \A i, j \in DOMAIN applied' : i < j => Before(appointments, applied'[i], applied'[j])
      /\ \A i \in DOMAIN applied' : \A j \in DOMAIN left : Before(appointments, applied'[i], left[j])
      /\ \A i \in DOMAIN applied' : DateOf(applied'[i]) <= now
      /\ \A i \in DOMAIN left : DateOf(left[i]) >= now
      /\ \A a \in D : (\E i \in DOMAIN applied' : applied'[i] = a) <=> ~(\E i \in DOMAIN left : left[i] = a)
  <2>1. CASE ~reached
    <3>1. left = s /\ applied' = applied
      BY <1>4, <2>1
    <3>. HIDE DEF left
    <3>2. \A a \in D : (\E i \in DOMAIN applied' : applied'[i] = a)
                         <=> ~(\E i \in DOMAIN left : left[i] = a)
      BY <1>1, <1>3, <3>1, Zenon
    <3>. HIDE DEF s, l, D
    <3>. QED  BY <1>1, <1>2, <3>1, <3>2
  <2>2. CASE reached
    <3>. DEFINE k == Len(applied) + 1
                u == applied'
    <3>1. l > 0 /\ reference = s[1] /\ DateOf(s[1]) = now /\ s[1] \in D
      BY <1>1, <2>2, ReachedIsFirst
    <3>2. left = Tail(s) /\ u = Append(applied, s[1])
      BY <1>4, <2>2, <3>1
    <3>3. left \in Seq(D) /\ DOMAIN left = 1 .. l - 1 /\ \A i \in 1 .. l - 1 : left[i] = s[i + 1]
      <4>. HIDE DEF left, D
      <4>. QED  BY <1>1, <3>1, <3>2
    <3>4. /\ u \in Seq(D) /\ DOMAIN u = 1 .. k /\ u[k] = s[1]
          /\ \A i \in 1 .. k - 1 : u[i] = applied[i]
      <4>1. applied \in Seq(D) /\ s[1] \in D /\ u = Append(applied, s[1])
        BY <1>1, <3>1, <3>2
      <4>. HIDE DEF D, u, s
      <4>. QED  BY <4>1
    <3>. HIDE DEF left, s, l, D, u
    <3>5. \A i, j \in DOMAIN left : i < j => Before(appointments, left[i], left[j])
      BY <1>1, <1>2, <3>3
    <3>6. ASSUME NEW i \in 1 .. k, NEW j \in 1 .. k, i < j  PROVE Before(appointments, u[i], u[j])
      <4>1. i \in 1 .. k - 1 /\ u[i] = applied[i] /\ i \in DOMAIN applied
        BY <1>1, <3>4, <3>6
      <4>2. CASE j = k
        BY <1>1, <1>2, <3>1, <3>4, <4>1, <4>2
      <4>3. CASE j # k
        <5>1. u[j] = applied[j] /\ j \in DOMAIN applied
          BY <1>1, <3>4, <4>3
        <5>. QED  BY <1>2, <3>6, <4>1, <5>1
      <4>. QED  BY <4>2, <4>3
    <3>7. ASSUME NEW i \in 1 .. k, NEW j \in 1 .. l - 1  PROVE Before(appointments, u[i], left[j])
      <4>1. left[j] = s[j + 1] /\ j + 1 \in 1 .. l /\ 1 < j + 1 /\ 1 \in 1 .. l
        BY <1>1, <3>1, <3>3
      <4>2. CASE i = k
        BY <1>2, <3>4, <4>1, <4>2
      <4>3. CASE i # k
        <5>1. u[i] = applied[i] /\ i \in DOMAIN applied
          BY <1>1, <3>4, <4>3
        <5>. QED  BY <1>2, <4>1, <5>1
      <4>. QED  BY <4>2, <4>3
    <3>8. ASSUME NEW i \in 1 .. k  PROVE DateOf(u[i]) <= now
      <4>1. CASE i = k
        BY <1>1, <3>1, <3>4, <4>1
      <4>2. CASE i # k
        <5>1. u[i] = applied[i] /\ i \in DOMAIN applied
          BY <1>1, <3>4, <4>2
        <5>. QED  BY <1>2, <5>1
      <4>. QED  BY <4>1, <4>2
    <3>9. \A i \in DOMAIN left : DateOf(left[i]) >= now
      BY <1>1, <1>2, <3>3
    <3>10. ASSUME NEW a \in D
           PROVE  (\E i \in 1 .. k : u[i] = a) <=> ~(\E i \in 1 .. l - 1 : left[i] = a)
      <4>1. k \in 1 .. k /\ 1 \in 1 .. l
        BY <1>1, <3>1
      <4>2. CASE a = s[1]
        <5>1. ASSUME NEW i \in 1 .. l - 1  PROVE left[i] # a
          <6>1. left[i] = s[i + 1] /\ i + 1 \in 1 .. l /\ 1 < i + 1
            BY <1>1, <3>3
          <6>2. Before(appointments, s[1], s[i + 1]) /\ s[i + 1] \in D
            BY <1>1, <1>2, <4>1, <6>1
          <6>. QED  BY <1>1, <3>1, <4>2, <6>1, <6>2 DEF Before, DateOf
        <5>. QED  BY <3>4, <4>1, <4>2, <5>1
      <4>3. CASE a # s[1]
        <5>1. (\E i \in 1 .. k : u[i] = a) <=> (\E i \in DOMAIN applied : applied[i] = a)
          <6>1. ASSUME NEW i \in 1 .. k, u[i] = a  PROVE \E j \in DOMAIN applied : applied[j] = a
            <7>1. i # k
              BY <3>4, <4>3, <6>1
            <7>2. i \in 1 .. k - 1 /\ i \in DOMAIN applied
              BY <1>1, <7>1
            <7>. QED  BY <3>4, <6>1, <7>2
          <6>2. ASSUME NEW i \in DOMAIN applied, applied[i] = a  PROVE \E j \in 1 .. k : u[j] = a
            <7>1. i \in 1 .. k - 1 /\ i \in 1 .. k
              BY <1>1
            <7>. QED  BY <3>4, <6>2, <7>1
          <6>. QED  BY <6>1, <6>2
        <5>2. (\E i \in 1 .. l - 1 : left[i] = a) <=> (\E i \in 1 .. l : s[i] = a)
          <6>1. ASSUME NEW i \in 1 .. l - 1, left[i] = a  PROVE \E j \in 1 .. l : s[j] = a
            <7>1. i + 1 \in 1 .. l
              BY <1>1
            <7>. QED  BY <3>3, <6>1, <7>1
          <6>2. ASSUME NEW i \in 1 .. l, s[i] = a  PROVE \E j \in 1 .. l - 1 : left[j] = a
            <7>1. i # 1
              BY <4>3, <6>2
            <7>2. i - 1 \in 1 .. l - 1 /\ (i - 1) + 1 = i
              BY <1>1, <7>1
            <7>3. left[i - 1] = s[(i - 1) + 1]
              BY <3>3, <7>2
            <7>. QED  BY <6>2, <7>2, <7>3
          <6>. QED  BY <6>1, <6>2
        <5>. QED  BY <1>3, <5>1, <5>2
      <4>. QED  BY <4>2, <4>3
    <3>11. \A a \in D : (\E i \in DOMAIN u : u[i] = a) <=> ~(\E i \in DOMAIN left : left[i] = a)
      BY <3>3, <3>4, <3>10, Zenon
    <3>. QED  BY <3>3, <3>4, <3>5, <3>6, <3>7, <3>8, <3>9, <3>11 DEF u
  <2>. QED  BY <2>1, <2>2
<1>. HIDE DEF left, s, D
<1>6. /\ runnable' = FALSE
      /\ left = <<>> => reference' = NoReference /\ wakeAt' = Never
      /\ left # <<>> => /\ 1 \in DOMAIN left /\ reference' = left[1] /\ wakeAt' = DateOf(left[1])
                        /\ left[1] \in D
  BY <1>4, <1>5 DEF WaitUntil
<1>7. ParamTyped'
  BY <1>4, <1>5 DEF ParamListInv, ParamTyped, D
<1>8. ParamsInOrder' /\ NoParamLate'
  BY <1>4, <1>5 DEF ParamsInOrder, NoParamLate, DateOf
<1>9. EachAccounted'
  <2>1. paramSchedule' = left /\ appointments' = appointments
    BY <1>4
  <2>. QED  BY <1>5, <2>1, Zenon DEF EachAccounted, D
<1>10. reference' \in {NoReference} \union D
  BY <1>6
<1>11. ReferenceIsFirst'
  <2>. SUFFICES ASSUME left # <<>>
                PROVE  /\ \E i \in DOMAIN left : left[i] = left[1]
                       /\ \A i \in DOMAIN left : DateOf(left[i]) = DateOf(left[1]) => left[1] <= left[i]
    BY <1>4, <1>6 DEF ReferenceIsFirst, DateOf
  <2>1. ASSUME NEW i \in DOMAIN left, DateOf(left[i]) = DateOf(left[1])  PROVE left[1] <= left[i]
    <3>1. left[i] \in Int /\ left[1] \in Int /\ DateOf(left[1]) \in Int
      BY <1>1, <1>5, <1>6
    <3>2. CASE i = 1
      BY <3>1, <3>2
    <3>3. CASE i # 1
      <4>1. 1 < i
        BY <1>5, <3>3
      <4>2. Before(appointments, left[1], left[i])
        BY <1>5, <1>6, <4>1
      <4>. QED  BY <2>1, <3>1, <4>2 DEF Before, DateOf
    <3>. QED  BY <3>2, <3>3
  <2>. QED  BY <1>6, <2>1
<1>12. ParamWaits'
  BY <1>4, <1>6 DEF ParamWaits, DateOf
<1>13. KernelTypeOK'
  <2>1. wakeAt' \in Dates \union {Never}
    BY <1>1, <1>6
  <2>. QED  BY <1>4, <1>6, <2>1 DEF ParamListInv, KernelTypeOK
<1>. QED  BY <1>4, <1>7, <1>8, <1>9, <1>10, <1>11, <1>12, <1>13 DEF ParamListInv, D

\* The kernel: its own types, and what it does to the dates of a schedule whose
\* first date is first.
LEMMA KernelKeeps ==
  ASSUME KernelTypeOK, Kernel
  PROVE  KernelTypeOK' /\ now' >= now /\ now \in Int /\ notified' \in BOOLEAN
<1>1. MaxTime \in Nat /\ now \in 0 .. MaxTime /\ now \in Int
  BY MaxTimeAssumption DEF KernelTypeOK, Dates
<1>2. CASE NextDelta
  <2>1. runnable' = TRUE /\ notified' = FALSE /\ wakeAt' = Never /\ now' = now
    BY <1>2 DEF NextDelta
  <2>2. runnable' \in BOOLEAN /\ notified' \in BOOLEAN
    BY <2>1, Zenon
  <2>3. now' \in Dates /\ now' >= now /\ wakeAt' \in Dates \union {Never}
    BY <1>1, <2>1 DEF KernelTypeOK
  <2>. QED  BY <1>1, <2>2, <2>3 DEF KernelTypeOK
<1>3. CASE NextDate
  <2>1. now' = now + 1 /\ now < MaxTime /\ notified' = notified /\ runnable' = (wakeAt = now')
    BY <1>3 DEF NextDate
  <2>2. wakeAt' \in Dates \union {Never}
    BY <1>3 DEF NextDate, KernelTypeOK
  <2>3. now' \in Dates /\ now' >= now
    BY <1>1, <2>1 DEF Dates
  <2>4. runnable' \in BOOLEAN
    BY <2>1
  <2>. QED  BY <1>1, <2>1, <2>2, <2>3, <2>4 DEF KernelTypeOK
<1>. QED  BY <1>2, <1>3 DEF Kernel

LEMMA ParamKernelKeeps ==
  ASSUME ParamListInv, ParamKernel
  PROVE  ParamListInv'
<1>. DEFINE s == paramSchedule
            l == Len(paramSchedule)
<1>1. /\ UNCHANGED <<paramSchedule, reference, appointments, applied>> /\ Kernel
      /\ KernelTypeOK
  BY DEF ParamKernel, ParamListInv
<1>2. KernelTypeOK' /\ now' >= now /\ now \in Int /\ now' \in Int
  BY <1>1, KernelKeeps, MaxTimeAssumption DEF KernelTypeOK, Dates
<1>3. /\ l \in Nat /\ DOMAIN s = 1 .. l
      /\ \A i \in 1 .. l : DateOf(s[i]) \in Int
      /\ \A i \in DOMAIN applied : DateOf(applied[i]) \in Int
  BY ParamTypes
<1>4. ParamTyped' /\ ReferenceIsFirst' /\ reference' \in {NoReference} \union DOMAIN appointments'
  BY <1>1 DEF ParamListInv, ParamTyped, ReferenceIsFirst, DateOf
<1>5. EachAccounted'
  BY <1>1 DEF ParamListInv, EachAccounted
<1>6. ParamsInOrder'
  <2>1. \A i \in DOMAIN applied : DateOf(applied[i]) <= now'
    BY <1>2, <1>3 DEF ParamListInv, ParamsInOrder
  <2>. QED  BY <1>1, <2>1 DEF ParamListInv, ParamsInOrder, DateOf
<1>7. NoParamLate' /\ ParamWaits'
  <2>1. CASE NextDelta
    BY <1>1, <2>1 DEF NextDelta, ParamListInv, NoParamLate, ParamWaits, DateOf
  <2>2. CASE NextDate
    <3>1. ~runnable /\ ~notified /\ wakeAt # now /\ now' = now + 1
      BY <2>2 DEF NextDate
    <3>2. ASSUME NEW i \in 1 .. l  PROVE DateOf(s[i]) >= now'
      <4>1. 1 \in 1 .. l /\ s # <<>>
        BY <1>3
      <4>2. wakeAt = DateOf(s[1]) /\ DateOf(s[1]) >= now
        BY <1>3, <3>1, <4>1 DEF ParamListInv, ParamWaits, NoParamLate
      <4>3. DateOf(s[1]) <= DateOf(s[i])
        <5>1. CASE i = 1
          BY <1>3, <5>1
        <5>2. CASE i # 1
          <6>1. 1 < i
            BY <5>2
          <6>2. Before(appointments, s[1], s[i])
            BY <1>3, <4>1, <6>1 DEF ParamListInv, ParamsInOrder
          <6>. QED  BY <1>3, <4>1, <6>2 DEF Before, DateOf
        <5>. QED  BY <5>1, <5>2
      <4>. QED  BY <1>2, <1>3, <3>1, <4>1, <4>2, <4>3
    <3>3. NoParamLate'
      BY <1>1, <1>3, <3>2 DEF NoParamLate, DateOf
    <3>4. wakeAt' = wakeAt \/ runnable'
      BY <2>2 DEF NextDate
    <3>5. ParamWaits'
      BY <1>1, <3>1, <3>4 DEF ParamListInv, ParamWaits, DateOf
    <3>. QED  BY <3>3, <3>5
  <2>. QED  BY <1>1, <2>1, <2>2 DEF Kernel
<1>. QED  BY <1>2, <1>4, <1>5, <1>6, <1>7 DEF ParamListInv

\* Steps that are not about appointments.
LEMMA ParamListSame ==
  ASSUME ParamListInv, UNCHANGED <<kernelVars, paramSchedule, reference, appointments, applied>>
  PROVE  ParamListInv'
<1>1. UNCHANGED <<now, runnable, notified, wakeAt, paramSchedule, reference, appointments, applied>>
  BY DEF kernelVars
<1>2. EachAccounted'
  BY <1>1 DEF ParamListInv, EachAccounted
<1>. QED  BY <1>1, <1>2 DEF ParamListInv, KernelTypeOK, ParamTyped, ParamsInOrder, ReferenceIsFirst,
                             ParamWaits, NoParamLate, DateOf

LEMMA ParamInitInv == ParamInit => ParamInv
<1>. SUFFICES ASSUME ParamInit  PROVE ParamInv
  OBVIOUS
<1>1. /\ now = 0 /\ runnable = TRUE /\ notified = FALSE /\ wakeAt = Never
      /\ paramSchedule = <<>> /\ appointments = <<>> /\ applied = <<>> /\ reference = NoReference
      /\ mVpsimModules = {} /\ thrown = FALSE /\ registrations = 0
  BY DEF ParamInit, KernelInit
<1>2. KernelTypeOK
  <2>1. runnable \in BOOLEAN /\ notified \in BOOLEAN
    BY <1>1, Zenon
  <2>2. now \in Dates /\ wakeAt \in Dates \union {Never}
    BY <1>1, MaxTimeAssumption DEF Dates
  <2>. QED  BY <2>1, <2>2 DEF KernelTypeOK
<1>3. ParamTyped /\ ParamsInOrder /\ NoParamLate /\ EachAccounted
  BY <1>1 DEF ParamTyped, ParamsInOrder, NoParamLate, EachAccounted
<1>4. ReferenceIsFirst /\ ParamWaits
  BY <1>1 DEF ReferenceIsFirst, ParamWaits
<1>5. thrown \in BOOLEAN
  BY <1>1, Zenon
<1>6. registrations \in 0 .. MaxRegistrations /\ mVpsimModules \subseteq ParamModules
  BY <1>1, ParamSchedulerAssumption
<1>7. ParamListInv
  BY <1>1, <1>2, <1>3, <1>4 DEF ParamListInv
<1>. QED  BY <1>5, <1>6, <1>7 DEF ParamInv

LEMMA ParamStep == ParamInv /\ [ParamNext]_paramVars => ParamInv'
<1>. SUFFICES ASSUME ParamInv, [ParamNext]_paramVars  PROVE ParamInv'
  OBVIOUS
<1>0. /\ ParamListInv /\ mVpsimModules \subseteq ParamModules /\ thrown \in BOOLEAN
      /\ registrations \in 0 .. MaxRegistrations /\ MaxRegistrations \in Nat
  BY ParamSchedulerAssumption DEF ParamInv
<1>1. CASE UNCHANGED paramVars
  <2>1. ParamListInv'
    BY <1>0, <1>1, ParamListSame DEF paramVars
  <2>. QED  BY <1>0, <1>1, <2>1 DEF ParamInv, paramVars
<1>2. ASSUME NEW m \in ParamModules, registerModule(m)  PROVE ParamInv'
  <2>1. ParamListInv'
    BY <1>0, <1>2, ParamListSame DEF registerModule
  <2>. QED  BY <1>0, <1>2, <2>1 DEF ParamInv, registerModule
<1>3. ASSUME NEW m \in ParamModules, unregisterModule(m)  PROVE ParamInv'
  <2>1. ParamListInv'
    BY <1>0, <1>3, ParamListSame DEF unregisterModule
  <2>. QED  BY <1>0, <1>3, <2>1 DEF ParamInv, unregisterModule
<1>4. ASSUME NEW m \in ParamModules, NEW date \in Dates, addParamAppointment(m, date)
      PROVE  ParamInv'
  <2>1. ParamListInv'
    BY <1>0, <1>4, AddKeeps
  <2>. QED  BY <1>0, <1>4, <2>1 DEF ParamInv, addParamAppointment
<1>5. CASE paramThrows
  <2>1. ParamListInv'
    BY <1>0, <1>5, ParamListSame DEF paramThrows
  <2>. QED  BY <1>0, <1>5, <2>1 DEF ParamInv, paramThrows
<1>6. CASE schedule
  <2>1. ParamListInv'
    BY <1>0, <1>6, ScheduleKeeps
  <2>. QED  BY <1>0, <1>6, <2>1 DEF ParamInv, schedule
<1>7. CASE ParamKernel
  <2>1. ParamListInv'
    BY <1>0, <1>7, ParamKernelKeeps
  <2>. QED  BY <1>0, <1>7, <2>1 DEF ParamInv, ParamKernel
<1>. QED  BY <1>1, <1>2, <1>3, <1>4, <1>5, <1>6, <1>7 DEF ParamNext

\* The inductive invariant of the scheduler of parameters.
THEOREM ParamInvariance == ParamSpec => []ParamInv
<1>. QED  BY ParamInitInv, ParamStep, PTL DEF ParamSpec

\* ParamScheduler::schedule: whatever appointments come while the thread waits,
\* also for the date it waits for and for the current one, and whatever modules
\* leave, every appointment is applied once, in the order of the dates and of
\* making, and on its date.
THEOREM ParamsAlwaysOnDate == ParamSpec => []ParamsOnDate
<1>1. ParamInv => ParamsOnDate
  <2>. SUFFICES ASSUME ParamInv  PROVE ParamsOnDate
    OBVIOUS
  <2>1. /\ ParamListInv
        /\ KernelTypeOK /\ ParamTyped /\ reference \in {NoReference} \union DOMAIN appointments
        /\ ParamsInOrder /\ NoParamLate /\ EachAccounted
    BY DEF ParamInv, ParamListInv
  <2>2. /\ \A a \in DOMAIN appointments : a \in Int /\ DateOf(a) \in Int
        /\ \A i \in DOMAIN paramSchedule : paramSchedule[i] \in DOMAIN appointments
        /\ \A i \in DOMAIN applied : applied[i] \in DOMAIN appointments
        /\ DOMAIN applied = 1 .. Len(applied) /\ Len(applied) \in Nat
    BY <2>1, ParamTypes
  <2>3. ParamTypeOK
    BY <2>1, <2>2 DEF ParamInv, ParamTypeOK, Range
  <2>4. \A i, j \in DOMAIN applied : i < j =>
          \/ DateOf(applied[i]) < DateOf(applied[j])
          \/ DateOf(applied[i]) = DateOf(applied[j]) /\ applied[i] < applied[j]
    BY <2>1 DEF ParamsInOrder, Before, DateOf
  <2>5. IsInjective(applied)
    <3>. SUFFICES ASSUME NEW i \in DOMAIN applied, NEW j \in DOMAIN applied, i < j
                  PROVE  applied[i] # applied[j]
      BY <2>2 DEF IsInjective
    <3>. QED  BY <2>2, <2>4
  <2>6. Range(applied) = DOMAIN appointments \ Range(paramSchedule)
    BY <2>1, <2>2 DEF Range, EachAccounted
  <2>. QED  BY <2>1, <2>3, <2>4, <2>5, <2>6 DEF ParamsOnDate, AppliedInOrder
<1>. QED  BY <1>1, ParamInvariance, PTL

-----------------------------------------------------------------------------
(***************************************************************************)
(* The scheduler of debug levels.                                          *)
(***************************************************************************)

\* The appointments for a date that are no longer in the list.
LeftFor(list, queue, date) ==
  {a \in DOMAIN list : list[a].date = date /\ ~(\E i \in DOMAIN queue : queue[i] = a)}

\* The types the steps below use.
LEMMA LogTypes ==
  ASSUME ListInv
  PROVE  /\ MaxTime \in Nat /\ Dates = 0 .. MaxTime /\ now \in Int /\ now \in Dates
         /\ Len(made) \in Nat /\ DOMAIN made = 1 .. Len(made)
         /\ Len(mSchedule) \in Nat /\ DOMAIN mSchedule = 1 .. Len(mSchedule)
         /\ times \in Seq(Nat) /\ DOMAIN times = 1 .. Len(made)
         /\ \A a \in DOMAIN made : a \in Int /\ made[a].date \in Dates /\ made[a].date \in Int
         /\ \A i \in DOMAIN mSchedule : mSchedule[i] \in DOMAIN made
<1>1. /\ made \in Seq([logger : Loggers, date : Dates, lvl : DebugLvls])
      /\ mSchedule \in Seq(DOMAIN made) /\ times \in Seq(Nat) /\ Len(times) = Len(made)
  BY DEF ListInv, LogTyped
<1>2. MaxTime \in Nat /\ Dates = 0 .. MaxTime /\ now \in Int /\ now \in Dates
  BY MaxTimeAssumption DEF ListInv, KernelTypeOK, Dates
<1>3. /\ Len(made) \in Nat /\ DOMAIN made = 1 .. Len(made)
      /\ times \in Seq(Nat) /\ DOMAIN times = 1 .. Len(made)
  BY <1>1
<1>4. \A a \in DOMAIN made : made[a].date \in Dates
  <2>. SUFFICES ASSUME NEW a \in DOMAIN made  PROVE made[a].date \in Dates
    OBVIOUS
  <2>1. made[a] \in [logger : Loggers, date : Dates, lvl : DebugLvls]
    BY <1>1, ElementOf, Zenon
  <2>. QED  BY <2>1
<1>. QED  BY <1>1, <1>2, <1>3, <1>4

\* The same set as AppliedOnce and AppliedAsManyAsLeft have it.
LEMMA LeftIs ==
  ASSUME NEW list, NEW queue, NEW date
  PROVE  LeftFor(list, queue, date) = {a \in DOMAIN list \ Range(queue) : list[a].date = date}
BY DEF LeftFor, Range

\* addAppointment: the place in the list is before the appointments of the date.
LEMMA PositionOf ==
  ASSUME ListInv, NEW date \in Dates
  PROVE  /\ Position(date) \in 1 .. Len(mSchedule) + 1
         /\ \A i \in DOMAIN mSchedule : i < Position(date) => made[mSchedule[i]].date < date
         /\ \A i \in DOMAIN mSchedule : i >= Position(date) => made[mSchedule[i]].date >= date
<1>. DEFINE n == Len(mSchedule)
            late == {i \in DOMAIN mSchedule : made[mSchedule[i]].date >= date}
            S == late \union {n + 1}
            p == Position(date)
<1>1. /\ n \in Nat /\ DOMAIN mSchedule = 1 .. n /\ date \in Int
      /\ \A i \in 1 .. n : made[mSchedule[i]].date \in Int
  BY LogTypes
<1>2. S \subseteq Nat /\ S # {}
  BY <1>1
<1>3. p = Min(S)
  BY DEF Position, Date
<1>4. p \in S /\ \A y \in S : p <= y
  <2>. HIDE DEF S, p
  <2>. QED  BY <1>2, <1>3, MinOf
<1>. HIDE DEF p
<1>5. p \in 1 .. n + 1
  BY <1>1, <1>4
<1>6. ASSUME NEW i \in 1 .. n, i < p  PROVE made[mSchedule[i]].date < date
  BY <1>1, <1>4, <1>5, <1>6
<1>7. ASSUME NEW i \in 1 .. n, i >= p  PROVE made[mSchedule[i]].date >= date
  <2>1. p \in 1 .. n /\ made[mSchedule[p]].date >= date
    BY <1>1, <1>4, <1>5, <1>7
  <2>2. CASE i = p
    BY <2>1, <2>2
  <2>3. CASE i # p
    <3>1. made[mSchedule[p]].date <= made[mSchedule[i]].date
      BY <1>1, <1>7, <2>1, <2>3 DEF ListInv, NoAppointmentLate, Date
    <3>. QED  BY <1>1, <2>1, <3>1
  <2>. QED  BY <2>2, <2>3
<1>. QED  BY <1>1, <1>5, <1>6, <1>7 DEF p

\* The names of the loggers and the loggers registered under them.
LEMMA RegisteredAre ==
  ASSUME CoreInv, NEW n \in LoggerNames, mLoggers[n] # NoLogger
  PROVE  mLoggers[n] \in Loggers
BY DEF CoreInv

\* addAppointment: the new appointment goes to its place.
LEMMA AddLogKeeps ==
  ASSUME ListInv, CoreInv, NEW nm \in LoggerNames, NEW date \in Dates, NEW lvl \in DebugLvls,
         addLoggerAppointment(nm, date, lvl)
  PROVE  ListInv'
<1>. DEFINE n == Len(made) + 1
            l == Len(mSchedule)
            p == Position(date)
            old == made
            new == made'
            s == mSchedule
            r == mSchedule'
            entry == [logger |-> mLoggers[nm], date |-> date, lvl |-> lvl]
<1>1. /\ now \in Int /\ date \in Int /\ now \in Dates
      /\ n \in Nat /\ n > 0 /\ DOMAIN old = 1 .. n - 1
      /\ l \in Nat /\ DOMAIN s = 1 .. l
      /\ times \in Seq(Nat) /\ DOMAIN times = 1 .. n - 1 /\ Len(times) = n - 1
      /\ \A a \in 1 .. n - 1 : old[a].date \in Dates /\ old[a].date \in Int
      /\ \A i \in 1 .. l : s[i] \in 1 .. n - 1
  BY LogTypes
<1>2. /\ mLoggers[nm] # NoLogger /\ date >= now /\ new = Append(old, entry)
      /\ times' = Append(times, 0)
      /\ r = InsertAt(s, p, n) /\ notified' = TRUE
      /\ crowded' = IF date = now THEN crowded \union {date} ELSE crowded
      /\ UNCHANGED <<now, runnable, wakeAt, nextAppointment, done>>
  BY DEF addLoggerAppointment
<1>3. /\ old \in Seq([logger : Loggers, date : Dates, lvl : DebugLvls]) /\ s \in Seq(1 .. n - 1)
      /\ \A i, j \in 1 .. l : s[i] = s[j] => i = j
      /\ done \in [Dates -> Nat] /\ crowded \subseteq Dates
  BY <1>1 DEF ListInv, LogTyped
<1>4. /\ new \in Seq([logger : Loggers, date : Dates, lvl : DebugLvls]) /\ DOMAIN new = 1 .. n
      /\ \A a \in 1 .. n - 1 : new[a] = old[a]
      /\ new[n].date = date
  <2>1. entry \in [logger : Loggers, date : Dates, lvl : DebugLvls] /\ entry.date = date
    BY <1>2, RegisteredAre
  <2>. HIDE DEF entry
  <2>. QED  BY <1>1, <1>2, <1>3, <2>1
<1>5. /\ p \in 1 .. l + 1
      /\ \A i \in 1 .. l : i < p => old[s[i]].date < date
      /\ \A i \in 1 .. l : i >= p => old[s[i]].date >= date
  BY <1>1, PositionOf
<1>. HIDE DEF p, entry
<1>6. r \in Seq((1 .. n - 1) \union {n}) /\ WithInserted(r, s, p, n)
  <2>1. /\ mSchedule \in Seq(1 .. n - 1) /\ p \in 1 .. Len(mSchedule) + 1
        /\ mSchedule' = InsertAt(mSchedule, p, n)
    BY <1>2, <1>3, <1>5
  <2>. HIDE DEF n
  <2>. QED  BY <2>1, InsertedElements
<1>7. /\ DOMAIN r = 1 .. l + 1
      /\ \A k \in 1 .. l + 1 : /\ k < p => k \in 1 .. l /\ r[k] = s[k] /\ r[k] \in 1 .. n - 1
                               /\ k = p => r[k] = n
                               /\ k > p => k - 1 \in 1 .. l /\ r[k] = s[k - 1] /\ r[k] \in 1 .. n - 1
  BY <1>1, <1>6 DEF WithInserted
<1>8. r \in Seq(1 .. n)
  <2>1. (1 .. n - 1) \union {n} = 1 .. n
    BY <1>1
  <2>. QED  BY <1>6, <2>1
<1>9. /\ \A k \in 1 .. l + 1 : r[k] = n \/ \E i \in 1 .. l : r[k] = s[i]
      /\ \A i \in 1 .. l : \E k \in 1 .. l + 1 : r[k] = s[i]
      /\ \E k \in 1 .. l + 1 : r[k] = n
  BY <1>6 DEF WithInserted, l, s
<1>10. /\ times' \in Seq(Nat) /\ Len(times') = n /\ times'[n] = 0
       /\ \A a \in 1 .. n - 1 : times'[a] = times[a]
  BY <1>1, <1>2
<1>11. crowded \subseteq crowded' /\ crowded' \subseteq Dates /\ (date = now => now \in crowded')
  BY <1>1, <1>2, <1>3
<1>12. Len(new) = n
  BY <1>1, <1>4
<1>. HIDE DEF n, l, old, new, s, r
<1>13. ASSUME NEW i \in 1 .. l + 1, NEW j \in 1 .. l + 1, i < j
       PROVE  new[r[i]].date <= new[r[j]].date /\ r[i] # r[j]
  <2>0. /\ \A x, y \in 1 .. l : x < y => old[s[x]].date <= old[s[y]].date /\ s[x] # s[y]
        /\ i \in Int /\ j \in Int /\ p \in Int
    <3>1. \A x, y \in 1 .. l : x < y => s[x] # s[y]
      BY <1>1, <1>3
    <3>2. \A x, y \in 1 .. l : x < y => old[s[x]].date <= old[s[y]].date
      BY <1>1 DEF ListInv, NoAppointmentLate, Date, s, old
    <3>3. i \in Int /\ j \in Int /\ p \in Int
      BY <1>1, <1>5
    <3>. QED  BY <3>1, <3>2, <3>3
  <2>1. CASE j < p
    <3>1. i < p
      BY <1>13, <2>0, <2>1
    <3>. QED  BY <1>4, <1>7, <1>13, <2>0, <2>1, <3>1
  <2>2. CASE j = p
    <3>1. /\ r[i] = s[i] /\ r[i] \in 1 .. n - 1 /\ old[s[i]].date < date /\ r[j] = n
          /\ old[s[i]].date \in Int
      BY <1>1, <1>5, <1>7, <1>13, <2>0, <2>2
    <3>. QED  BY <1>1, <1>4, <3>1
  <2>3. CASE i = p
    <3>1. r[j] = s[j - 1] /\ r[j] \in 1 .. n - 1 /\ j - 1 \in 1 .. l /\ j - 1 >= p /\ r[i] = n
      BY <1>7, <1>13, <2>0, <2>3
    <3>2. new[r[j]].date >= date /\ new[r[j]].date \in Int
      BY <1>1, <1>4, <1>5, <3>1
    <3>. QED  BY <1>1, <1>4, <3>1, <3>2
  <2>4. CASE i < p /\ j > p
    <3>1. r[i] = s[i] /\ i \in 1 .. l /\ r[i] \in 1 .. n - 1 /\ i < j - 1
          /\ r[j] = s[j - 1] /\ r[j] \in 1 .. n - 1 /\ j - 1 \in 1 .. l
      BY <1>7, <2>0, <2>4
    <3>. QED  BY <1>4, <2>0, <3>1
  <2>5. CASE i > p
    <3>1. r[i] = s[i - 1] /\ i - 1 \in 1 .. l /\ r[i] \in 1 .. n - 1 /\ i - 1 < j - 1
          /\ r[j] = s[j - 1] /\ r[j] \in 1 .. n - 1 /\ j - 1 \in 1 .. l
      BY <1>7, <1>13, <2>0, <2>5
    <3>. QED  BY <1>4, <2>0, <3>1
  <2>. QED  BY <1>13, <2>0, <2>1, <2>2, <2>3, <2>4, <2>5
<1>14. NoAppointmentLate'
  <2>1. ASSUME NEW k \in 1 .. l + 1  PROVE new[r[k]].date >= now
    <3>1. CASE r[k] = n
      BY <1>2, <1>4, <3>1
    <3>2. ASSUME NEW j \in 1 .. l, r[k] = s[j]  PROVE new[r[k]].date >= now
      <4>1. old[s[j]].date >= now
        BY <1>1 DEF ListInv, NoAppointmentLate, Date, old, s
      <4>. QED  BY <1>1, <1>4, <3>2, <4>1
    <3>. QED  BY <1>9, <3>1, <3>2
  <2>. QED  BY <1>2, <1>7, <1>13, <2>1 DEF NoAppointmentLate, Date, new, r
<1>15. LogTyped'
  <2>1. \A i, j \in 1 .. l + 1 : r[i] = r[j] => i = j
    <3>1. \A i, j \in 1 .. l + 1 : i < j \/ j < i \/ i = j
      BY <1>1
    <3>. QED  BY <1>13, <3>1
  <2>. QED  BY <1>2, <1>3, <1>4, <1>7, <1>8, <1>10, <1>11, <1>12, <2>1 DEF LogTyped, new, r
<1>16. \A d : LeftFor(new, r, d) = LeftFor(old, s, d)
  <2>. SUFFICES ASSUME NEW d  PROVE LeftFor(new, r, d) = LeftFor(old, s, d)
    OBVIOUS
  <2>. SUFFICES \A a : a \in LeftFor(new, r, d) <=> a \in LeftFor(old, s, d)
    OBVIOUS
  <2>. SUFFICES ASSUME NEW a  PROVE a \in LeftFor(new, r, d) <=> a \in LeftFor(old, s, d)
    OBVIOUS
  <2>1. CASE a \in 1 .. n - 1
    <3>1. a # n /\ a \in 1 .. n
      BY <1>1, <2>1
    <3>2. (\E k \in 1 .. l + 1 : r[k] = a) <=> (\E i \in 1 .. l : s[i] = a)
      BY <1>9, <3>1
    <3>. QED  BY <1>1, <1>4, <1>7, <2>1, <3>1, <3>2 DEF LeftFor
  <2>2. CASE a = n
    <3>1. n \notin 1 .. n - 1
      BY <1>1
    <3>. QED  BY <1>1, <1>7, <1>9, <2>2, <3>1 DEF LeftFor
  <2>3. CASE a \notin 1 .. n
    <3>1. a \notin 1 .. n - 1
      BY <1>1, <2>3
    <3>. QED  BY <1>1, <1>4, <2>3, <3>1 DEF LeftFor
  <2>4. a \in 1 .. n - 1 \/ a = n \/ a \notin 1 .. n
    BY <1>1
  <2>. QED  BY <2>1, <2>2, <2>3, <2>4
<1>17. AppliedAsManyAsLeft'
  <2>1. \A d \in Dates : done[d] = Cardinality(LeftFor(old, s, d))
    BY LeftIs DEF ListInv, AppliedAsManyAsLeft, Date, old, s
  <2>2. \A d \in Dates : done'[d] = Cardinality(LeftFor(new, r, d))
    BY <1>2, <1>16, <2>1
  <2>. QED  BY <2>2, LeftIs DEF AppliedAsManyAsLeft, Date, new, r
<1>18. AppliedOnce'
  <2>1. \A d : \A a \in LeftFor(old, s, d) : times[a] = 1 \/ old[a].date \in crowded
    BY LeftIs DEF ListInv, AppliedOnce, Date, old, s
  <2>3. \A d : \A a \in LeftFor(old, s, d) : a \in 1 .. n - 1
    BY <1>1 DEF LeftFor
  <2>4. ASSUME NEW d, NEW a \in LeftFor(new, r, d)  PROVE times'[a] = 1 \/ new[a].date \in crowded'
    BY <1>4, <1>10, <1>11, <1>16, <2>1, <2>3
  <2>. QED  BY <2>4, LeftIs DEF AppliedOnce, Date, new, r
<1>19. NotYetApplied'
  <2>. SUFFICES ASSUME NEW k \in 1 .. l + 1
                PROVE  times'[r[k]] = 0 \/ new[r[k]].date \in crowded'
    BY <1>7 DEF NotYetApplied, Date, new, r
  <2>1. CASE r[k] = n
    BY <1>10, <2>1
  <2>2. ASSUME NEW j \in 1 .. l, r[k] = s[j]  PROVE times'[r[k]] = 0 \/ new[r[k]].date \in crowded'
    <3>1. times[s[j]] = 0 \/ old[s[j]].date \in crowded
      BY <1>1 DEF ListInv, NotYetApplied, Date, old, s
    <3>. QED  BY <1>1, <1>4, <1>10, <1>11, <2>2, <3>1
  <2>. QED  BY <1>9, <2>1, <2>2
<1>20. CopyKept'
  <2>. SUFFICES ASSUME nextAppointment # NoAppointment
                PROVE  \E k \in 1 .. l + 1 : r[k] = nextAppointment
    BY <1>2, <1>7 DEF CopyKept, r
  <2>1. \E i \in 1 .. l : s[i] = nextAppointment
    BY <1>1 DEF ListInv, CopyKept, s
  <2>. QED  BY <1>9, <2>1
<1>21. CopyIsFirst'
  <2>. SUFFICES ASSUME nextAppointment # r[1], nextAppointment # NoAppointment
                PROVE  new[nextAppointment].date > now \/ now \in crowded'
    BY <1>2 DEF CopyIsFirst, Date, new, r
  <2>1. PICK i \in 1 .. l : s[i] = nextAppointment
    BY <1>1 DEF ListInv, CopyKept, s
  <2>2. new[nextAppointment] = old[nextAppointment] /\ old[nextAppointment].date \in Int
    BY <1>1, <1>4, <2>1
  <2>3. CASE p = 1
    <3>1. old[nextAppointment].date >= date
      BY <1>5, <2>1, <2>3
    <3>. QED  BY <1>1, <1>2, <1>11, <2>2, <3>1
  <2>4. CASE p # 1
    <3>1. 1 \in 1 .. l + 1 /\ 1 < p /\ 1 \in 1 .. l
      BY <1>1, <1>5, <2>1, <2>4
    <3>2. r[1] = s[1] /\ s # <<>>
      BY <1>1, <1>7, <3>1
    <3>3. old[nextAppointment].date > now \/ now \in crowded
      BY <3>2 DEF ListInv, CopyIsFirst, Date, old, s
    <3>. QED  BY <1>11, <2>2, <3>3
  <2>. QED  BY <2>3, <2>4
<1>22. LogWaits'
  BY <1>2 DEF LogWaits
<1>23. KernelTypeOK'
  BY <1>2 DEF ListInv, KernelTypeOK
<1>24. nextAppointment' \in {NoAppointment} \union 1 .. n
  BY <1>1, <1>2 DEF ListInv, old
<1>. QED  BY <1>4, <1>14, <1>15, <1>17, <1>18, <1>19, <1>20, <1>21, <1>22, <1>23, <1>24
          DEF ListInv, new

\* The first of the list when the copied appointment is due: of the same date.
LEMMA DueIsFirst ==
  ASSUME ListInv, isNow(nextAppointment)
  PROVE  /\ Len(mSchedule) > 0 /\ made[mSchedule[1]].date = now
         /\ made[nextAppointment].date = now
         /\ \E i \in DOMAIN mSchedule : mSchedule[i] = nextAppointment
         /\ nextAppointment # mSchedule[1] => now \in crowded
<1>. DEFINE s == mSchedule
            l == Len(mSchedule)
<1>1. /\ l \in Nat /\ DOMAIN s = 1 .. l /\ now \in Int
      /\ \A i \in 1 .. l : made[s[i]].date \in Int
  BY LogTypes
<1>2. /\ made[nextAppointment].date = now /\ nextAppointment # NoAppointment
      /\ \E i \in DOMAIN s : s[i] = nextAppointment
  BY DEF isNow, Date, ListInv, CopyKept
<1>3. PICK i \in 1 .. l : s[i] = nextAppointment
  BY <1>1, <1>2
<1>4. 1 \in 1 .. l /\ s # <<>>
  BY <1>1
<1>5. made[s[1]].date >= now /\ (1 < i => made[s[1]].date <= made[s[i]].date)
  BY <1>1, <1>4 DEF ListInv, NoAppointmentLate, Date
<1>6. made[s[1]].date = now
  <2>1. CASE i = 1
    BY <1>2, <1>3, <2>1
  <2>2. CASE i # 1
    BY <1>1, <1>2, <1>3, <1>4, <1>5, <2>2
  <2>. QED  BY <2>1, <2>2
<1>7. nextAppointment # s[1] => now \in crowded
  <2>1. nextAppointment # s[1] => made[nextAppointment].date > now \/ now \in crowded
    BY <1>2, <1>4 DEF ListInv, CopyIsFirst, Date
  <2>. QED  BY <1>1, <1>2, <2>1
<1>. QED  BY <1>1, <1>2, <1>4, <1>6, <1>7

\* One round of the thread of the scheduler.
LEMMA LogScheduleKeeps ==
  ASSUME ListInv, loggerSchedule
  PROVE  ListInv'
<1>. DEFINE s == mSchedule
            l == Len(mSchedule)
            D == DOMAIN made
            nx == nextAppointment
            left == IF isNow(nx) THEN Tail(mSchedule) ELSE mSchedule
<1>1. /\ l \in Nat /\ DOMAIN s = 1 .. l /\ now \in Int /\ now \in Dates /\ s \in Seq(D)
      /\ \A i \in 1 .. l : s[i] \in D
      /\ \A a \in D : a \in Int /\ made[a].date \in Dates /\ made[a].date \in Int
      /\ D = 1 .. Len(made) /\ Len(made) \in Nat
      /\ times \in Seq(Nat) /\ DOMAIN times = D /\ Len(times) = Len(made)
      /\ done \in [Dates -> Nat] /\ crowded \subseteq Dates
  BY LogTypes DEF ListInv, LogTyped
<1>2. /\ \A i, j \in 1 .. l : i < j => made[s[i]].date <= made[s[j]].date
      /\ \A i \in 1 .. l : made[s[i]].date >= now
      /\ \A i, j \in 1 .. l : s[i] = s[j] => i = j
      /\ \A i \in 1 .. l : times[s[i]] = 0 \/ made[s[i]].date \in crowded
  BY <1>1 DEF ListInv, LogTyped, NoAppointmentLate, NotYetApplied, Date
<1>3. /\ \A d : \A a \in LeftFor(made, s, d) : times[a] = 1 \/ made[a].date \in crowded
      /\ \A d \in Dates : done[d] = Cardinality(LeftFor(made, s, d))
  BY LeftIs DEF ListInv, AppliedOnce, AppliedAsManyAsLeft, Date
<1>4. /\ mSchedule' = left
      /\ isNow(nx) => /\ times' = [times EXCEPT ![nx] = @ + 1]
                      /\ done' = [done EXCEPT ![made[nx].date] = @ + 1]
      /\ ~isNow(nx) => times' = times /\ done' = done
      /\ IF left = <<>> THEN nextAppointment' = NoAppointment /\ WaitUntil(Never)
         ELSE nextAppointment' = Head(left) /\ WaitUntil(made[Head(left)].date)
      /\ UNCHANGED <<now, notified, made, crowded>>
  BY DEF loggerSchedule, applyAppointment, Date
\* What is left of the list and how often each appointment was applied.
<1>5. /\ left \in Seq(D) /\ times' \in Seq(Nat) /\ Len(times') = Len(made) /\ done' \in [Dates -> Nat]
      /\ \A i, j \in DOMAIN left : i < j => made[left[i]].date <= made[left[j]].date
      /\ \A i \in DOMAIN left : made[left[i]].date >= now
      /\ \A i, j \in DOMAIN left : left[i] = left[j] => i = j
      /\ \A i \in DOMAIN left : times'[left[i]] = 0 \/ made[left[i]].date \in crowded
      /\ \A d : \A a \in LeftFor(made, left, d) : times'[a] = 1 \/ made[a].date \in crowded
      /\ \A d \in Dates : done'[d] = Cardinality(LeftFor(made, left, d))
  <2>1. CASE ~isNow(nx)
    <3>1. left = s /\ times' = times /\ done' = done
      BY <1>4, <2>1
    <3>. HIDE DEF left, s, l, D
    <3>. QED  BY <1>1, <1>2, <1>3, <3>1
  <2>2. CASE isNow(nx)
    <3>1. /\ l > 0 /\ made[s[1]].date = now /\ made[nx].date = now /\ 1 \in 1 .. l /\ s[1] \in D
          /\ nx # s[1] => now \in crowded
      BY <1>1, <2>2, DueIsFirst
    <3>2. PICK x \in 1 .. l : s[x] = nx
      BY <1>1, <2>2, DueIsFirst
    <3>3. nx \in D /\ times[nx] \in Nat
      BY <1>1, <3>2
    <3>4. left = Tail(s) /\ times' = [times EXCEPT ![nx] = times[nx] + 1]
          /\ done' = [done EXCEPT ![now] = done[now] + 1]
      BY <1>4, <2>2, <3>1
    <3>5. left \in Seq(D) /\ DOMAIN left = 1 .. l - 1 /\ \A i \in 1 .. l - 1 : left[i] = s[i + 1]
      <4>. HIDE DEF left, D
      <4>. QED  BY <1>1, <3>1, <3>4
    <3>6. /\ times' \in Seq(Nat) /\ Len(times') = Len(made)
          /\ times'[nx] = times[nx] + 1 /\ \A a \in D : a # nx => times'[a] = times[a]
      <4>. DEFINE T == times'
                  n == Len(made)
      <4>1. /\ times \in [1 .. n -> Nat] /\ nx \in 1 .. n /\ times[nx] + 1 \in Nat /\ n \in Nat
            /\ T = [times EXCEPT ![nx] = times[nx] + 1] /\ D = 1 .. n
        <5>1. D = 1 .. n /\ n \in Nat /\ nx \in 1 .. n /\ times[nx] + 1 \in Nat
          BY <1>1, <3>3
        <5>2. times \in [1 .. n -> Nat]
          BY <1>1
        <5>3. T = [times EXCEPT ![nx] = times[nx] + 1]
          BY <3>4
        <5>. QED  BY <5>1, <5>2, <5>3
      <4>. HIDE DEF D, nx, T, n
      <4>2. /\ T \in [1 .. n -> Nat]
            /\ T[nx] = times[nx] + 1 /\ \A a \in 1 .. n : a # nx => T[a] = times[a]
        BY <4>1
      <4>3. T \in Seq(Nat) /\ Len(T) = n
        BY <4>1, <4>2
      <4>. QED  BY <4>1, <4>2, <4>3 DEF T, n
    <3>7. /\ done' \in [Dates -> Nat] /\ done'[now] = done[now] + 1
          /\ \A d \in Dates : d # now => done'[d] = done[d]
      <4>1. done[now] + 1 \in Nat /\ now \in Dates /\ done \in [Dates -> Nat]
        BY <1>1
      <4>. QED  BY <3>4, <4>1
    <3>. HIDE DEF left, s, l, D, nx
    <3>8. \A i \in 1 .. l - 1 : i + 1 \in 1 .. l /\ i + 1 # 1
      BY <1>1
    <3>9. /\ \A i, j \in DOMAIN left : i < j => made[left[i]].date <= made[left[j]].date
          /\ \A i \in DOMAIN left : made[left[i]].date >= now
          /\ \A i, j \in DOMAIN left : left[i] = left[j] => i = j
      <4>1. \A i, j \in 1 .. l - 1 : i < j => i + 1 < j + 1
        BY <1>1
      <4>2. \A i, j \in 1 .. l - 1 : i + 1 = j + 1 => i = j
        BY <1>1
      <4>. QED  BY <1>2, <3>5, <3>8, <4>1, <4>2
    <3>10. ASSUME NEW i \in 1 .. l - 1
           PROVE  times'[left[i]] = 0 \/ made[left[i]].date \in crowded
      <4>1. left[i] = s[i + 1] /\ i + 1 \in 1 .. l /\ s[i + 1] \in D /\ s[i + 1] # s[1]
        BY <1>1, <1>2, <3>1, <3>5, <3>8
      <4>2. CASE s[i + 1] = nx
        BY <3>1, <4>1, <4>2
      <4>3. CASE s[i + 1] # nx
        BY <1>2, <3>6, <4>1, <4>3
      <4>. QED  BY <4>2, <4>3
    \* The first of the list leaves it, and no other one.
    <3>11. /\ \A d : d # now => LeftFor(made, left, d) = LeftFor(made, s, d)
           /\ LeftFor(made, left, now) = LeftFor(made, s, now) \union {s[1]}
           /\ s[1] \notin LeftFor(made, s, now)
      <4>1. ASSUME NEW a \in D, a # s[1]
            PROVE  (\E i \in DOMAIN left : left[i] = a) <=> (\E i \in DOMAIN s : s[i] = a)
        <5>1. ASSUME NEW i \in 1 .. l - 1, left[i] = a  PROVE \E j \in 1 .. l : s[j] = a
          BY <3>5, <3>8, <5>1
        <5>2. ASSUME NEW i \in 1 .. l, s[i] = a  PROVE \E j \in 1 .. l - 1 : left[j] = a
          <6>1. i # 1
            BY <4>1, <5>2
          <6>2. i - 1 \in 1 .. l - 1 /\ (i - 1) + 1 = i
            BY <1>1, <6>1
          <6>3. left[i - 1] = s[(i - 1) + 1]
            BY <3>5, <6>2
          <6>. QED  BY <5>2, <6>2, <6>3
        <5>. QED  BY <1>1, <3>5, <5>1, <5>2
      <4>2. ~(\E i \in DOMAIN left : left[i] = s[1])
        BY <1>2, <3>1, <3>5, <3>8
      <4>3. ASSUME NEW d, NEW a
            PROVE  a \in LeftFor(made, left, d)
                     <=> a \in LeftFor(made, s, d) \/ (a = s[1] /\ d = now)
        <5>1. CASE a \notin D
          BY <3>1, <5>1 DEF LeftFor, D
        <5>2. CASE a \in D /\ a # s[1]
          BY <4>1, <5>2 DEF LeftFor, D
        <5>3. CASE a = s[1]
          <6>1. a \notin LeftFor(made, s, d)
            BY <1>1, <3>1, <5>3 DEF LeftFor
          <6>2. a \in LeftFor(made, left, d) <=> d = now
            BY <3>1, <4>2, <5>3 DEF LeftFor, D
          <6>. QED  BY <5>3, <6>1, <6>2
        <5>. QED  BY <5>1, <5>2, <5>3
      <4>4. \A d : d # now => LeftFor(made, left, d) = LeftFor(made, s, d)
        <5>. SUFFICES ASSUME NEW d, d # now  PROVE LeftFor(made, left, d) = LeftFor(made, s, d)
          OBVIOUS
        <5>. SUFFICES \A a : a \in LeftFor(made, left, d) <=> a \in LeftFor(made, s, d)
          OBVIOUS
        <5>. QED  BY <4>3
      <4>5. LeftFor(made, left, now) = LeftFor(made, s, now) \union {s[1]}
        <5>. SUFFICES \A a : a \in LeftFor(made, left, now)
                               <=> a \in LeftFor(made, s, now) \union {s[1]}
          OBVIOUS
        <5>. QED  BY <4>3
      <4>6. s[1] \notin LeftFor(made, s, now)
        BY <1>1, <3>1 DEF LeftFor
      <4>. QED  BY <4>4, <4>5, <4>6
    <3>12. ASSUME NEW d, NEW a \in LeftFor(made, left, d)
           PROVE  times'[a] = 1 \/ made[a].date \in crowded
      <4>1. CASE a \in LeftFor(made, s, d)
        <5>1. a \in D /\ a # nx
          BY <1>1, <3>2, <4>1 DEF LeftFor, D
        <5>. QED  BY <1>3, <3>6, <4>1, <5>1
      <4>2. CASE a = s[1]
        <5>1. CASE nx = s[1]
          <6>1. times[nx] = 0 \/ made[nx].date \in crowded
            BY <1>2, <3>1, <5>1
          <6>. QED  BY <3>6, <4>2, <5>1, <6>1
        <5>2. CASE nx # s[1]
          BY <3>1, <4>2, <5>2
        <5>. QED  BY <5>1, <5>2
      <4>3. a \in LeftFor(made, s, d) \/ a = s[1]
        BY <3>11
      <4>. QED  BY <4>1, <4>2, <4>3
    <3>13. ASSUME NEW d \in Dates  PROVE done'[d] = Cardinality(LeftFor(made, left, d))
      <4>1. CASE d # now
        BY <1>3, <3>7, <3>11, <4>1
      <4>2. CASE d = now
        <5>. DEFINE S == LeftFor(made, s, now)
        <5>1. IsFiniteSet(S)
          <6>1. S \subseteq 1 .. Len(made)
            BY <1>1 DEF LeftFor, D
          <6>2. 1 \in Int /\ Len(made) \in Int
            BY <1>1
          <6>3. IsFiniteSet(1 .. Len(made))
            BY <6>2, FS_Interval
          <6>. HIDE DEF S
          <6>. QED  BY <6>1, <6>3, FS_Subset
        <5>2. Cardinality(S \union {s[1]}) = Cardinality(S) + 1
          <6>1. s[1] \notin S
            BY <3>11
          <6>. HIDE DEF S
          <6>. QED  BY <5>1, <6>1, FS_AddElement
        <5>3. done[now] = Cardinality(S)
          BY <1>1, <1>3
        <5>. QED  BY <3>7, <3>11, <4>2, <5>2, <5>3
      <4>. QED  BY <4>1, <4>2
    <3>. QED  BY <3>5, <3>6, <3>7, <3>9, <3>10, <3>12, <3>13
  <2>. QED  BY <2>1, <2>2
<1>. HIDE DEF left, s, D
<1>6. /\ runnable' = FALSE
      /\ left = <<>> => nextAppointment' = NoAppointment /\ wakeAt' = Never
      /\ left # <<>> => /\ 1 \in DOMAIN left /\ nextAppointment' = left[1]
                        /\ wakeAt' = made[left[1]].date /\ left[1] \in D
  BY <1>4, <1>5 DEF WaitUntil
<1>7. LogTyped'
  BY <1>1, <1>4, <1>5 DEF ListInv, LogTyped, D
<1>8. NoAppointmentLate' /\ NotYetApplied'
  BY <1>4, <1>5 DEF NoAppointmentLate, NotYetApplied, Date
<1>9. AppliedOnce' /\ AppliedAsManyAsLeft'
  <2>1. mSchedule' = left /\ made' = made /\ crowded' = crowded
    BY <1>4
  <2>2. AppliedOnce'
    BY <1>5, <2>1, LeftIs DEF AppliedOnce, Date
  <2>3. AppliedAsManyAsLeft'
    BY <1>5, <2>1, LeftIs DEF AppliedAsManyAsLeft, Date
  <2>. QED  BY <2>2, <2>3
<1>10. nextAppointment' \in {NoAppointment} \union D
  BY <1>6
<1>11. CopyKept' /\ CopyIsFirst'
  BY <1>4, <1>6 DEF CopyKept, CopyIsFirst
<1>12. LogWaits'
  BY <1>4, <1>6 DEF LogWaits, Date
<1>13. KernelTypeOK'
  <2>1. wakeAt' \in Dates \union {Never}
    BY <1>1, <1>6
  <2>. QED  BY <1>4, <1>6, <2>1 DEF ListInv, KernelTypeOK
<1>. QED  BY <1>4, <1>7, <1>8, <1>9, <1>10, <1>11, <1>12, <1>13 DEF ListInv, D

LEMMA LogKernelKeeps ==
  ASSUME ListInv, LoggerKernel
  PROVE  ListInv'
<1>. DEFINE s == mSchedule
            l == Len(mSchedule)
<1>1. /\ UNCHANGED <<mSchedule, nextAppointment, made, times, done, crowded>> /\ Kernel
      /\ KernelTypeOK
  BY DEF LoggerKernel, ListInv
<1>2. KernelTypeOK' /\ now' >= now /\ now \in Int /\ now' \in Int
  BY <1>1, KernelKeeps, MaxTimeAssumption DEF KernelTypeOK, Dates
<1>3. /\ l \in Nat /\ DOMAIN s = 1 .. l
      /\ \A i \in 1 .. l : made[s[i]].date \in Int
  BY LogTypes
<1>4. /\ LogTyped' /\ AppliedOnce' /\ AppliedAsManyAsLeft' /\ NotYetApplied' /\ CopyKept'
      /\ nextAppointment' \in {NoAppointment} \union DOMAIN made'
  BY <1>1 DEF ListInv, LogTyped, AppliedOnce, AppliedAsManyAsLeft, NotYetApplied, CopyKept, Date
<1>5. NoAppointmentLate' /\ LogWaits' /\ CopyIsFirst'
  <2>1. CASE NextDelta
    BY <1>1, <2>1 DEF NextDelta, ListInv, NoAppointmentLate, LogWaits, CopyIsFirst, Date
  <2>2. CASE NextDate
    <3>1. ~runnable /\ ~notified /\ wakeAt # now /\ now' = now + 1
      BY <2>2 DEF NextDate
    <3>2. ASSUME NEW i \in 1 .. l  PROVE made[s[i]].date >= now'
      <4>1. 1 \in 1 .. l /\ s # <<>>
        BY <1>3
      <4>2. wakeAt = made[s[1]].date /\ made[s[1]].date >= now
        BY <1>3, <3>1, <4>1 DEF ListInv, LogWaits, NoAppointmentLate, Date
      <4>3. made[s[1]].date <= made[s[i]].date
        <5>1. CASE i = 1
          BY <1>3, <5>1
        <5>2. CASE i # 1
          <6>1. 1 < i
            BY <5>2
          <6>. QED  BY <1>3, <4>1, <6>1 DEF ListInv, NoAppointmentLate, Date
        <5>. QED  BY <5>1, <5>2
      <4>. QED  BY <1>2, <1>3, <3>1, <4>1, <4>2, <4>3
    <3>3. NoAppointmentLate'
      <4>1. \A i, j \in DOMAIN s : i < j => made[s[i]].date <= made[s[j]].date
        BY DEF ListInv, NoAppointmentLate, Date
      <4>. QED  BY <1>1, <1>3, <3>2, <4>1 DEF NoAppointmentLate, Date
    <3>4. wakeAt' = wakeAt \/ runnable'
      BY <2>2 DEF NextDate
    <3>5. LogWaits'
      BY <1>1, <3>1, <3>4 DEF ListInv, LogWaits, Date
    <3>6. CopyIsFirst'
      BY <1>1, <3>1 DEF ListInv, CopyIsFirst
    <3>. QED  BY <3>3, <3>5, <3>6
  <2>. QED  BY <1>1, <2>1, <2>2 DEF Kernel
<1>. QED  BY <1>2, <1>4, <1>5 DEF ListInv

\* Steps that are not about appointments.
LEMMA ListSame ==
  ASSUME ListInv, UNCHANGED <<kernelVars, mSchedule, nextAppointment, made, times, done, crowded>>
  PROVE  ListInv'
<1>1. UNCHANGED <<now, runnable, notified, wakeAt, mSchedule, nextAppointment, made, times, done, crowded>>
  BY DEF kernelVars
<1>2. AppliedOnce' /\ AppliedAsManyAsLeft'
  BY <1>1 DEF ListInv, AppliedOnce, AppliedAsManyAsLeft, Date
<1>. QED  BY <1>1, <1>2 DEF ListInv, KernelTypeOK, LogTyped, NoAppointmentLate, NotYetApplied,
                             CopyKept, CopyIsFirst, LogWaits, Date

-----------------------------------------------------------------------------
(***************************************************************************)
(* The core of the loggers.                                                *)
(***************************************************************************)

\* The types the steps below use.
LEMMA CoreTypes ==
  ASSUME CoreInv
  PROVE  /\ mLoggers \in [LoggerNames -> Loggers \union {NoLogger}]
         /\ mLoggingEnabled \in BOOLEAN /\ mGlobalDebugLvl \in DebugLvls
         /\ alive \subseteq Loggers /\ name \in [Loggers -> LoggerNames]
         /\ mEnabled \in [Loggers -> BOOLEAN] /\ mDebugLvl \in [Loggers -> DebugLvls]
         /\ \A n \in LoggerNames : mLoggers[n] # NoLogger =>
               mLoggers[n] \in alive /\ name[mLoggers[n]] = n
         /\ \A l \in Loggers : mEnabled[l] <=> (isRegistered(l) /\ mLoggingEnabled)
         /\ NoLogger \notin Loggers /\ 0 \in DebugLvls
BY LoggerAssumption DEF CoreInv

LEMMA ConstructKeeps ==
  ASSUME CoreInv, NEW l \in Loggers, NEW n \in LoggerNames, construct(l, n)
  PROVE  CoreInv'
<1>1. /\ l \notin alive /\ alive' = alive \union {l} /\ name' = [name EXCEPT ![l] = n]
      /\ mGlobalDebugLvl' = mGlobalDebugLvl /\ registerLogger(l, n)
  BY DEF construct
<1>2. /\ alive' \subseteq Loggers /\ name' \in [Loggers -> LoggerNames] /\ name'[l] = n
      /\ \A k \in Loggers : k # l => name'[k] = name[k]
  BY <1>1, CoreTypes
<1>3. ~isRegistered(l)
  BY <1>1, CoreTypes DEF isRegistered
<1>4. CASE mLoggers[n] # NoLogger
  <2>1. /\ mLoggingEnabled' = FALSE /\ mEnabled' = [k \in Loggers |-> FALSE]
        /\ mDebugLvl' = [mDebugLvl EXCEPT ![l] = 0] /\ mLoggers' = mLoggers
    BY <1>1, <1>4 DEF registerLogger
  <2>2. mLoggingEnabled' \in BOOLEAN /\ ~mLoggingEnabled' /\ mEnabled' \in [Loggers -> BOOLEAN]
        /\ \A k \in Loggers : ~mEnabled'[k]
    BY <2>1, Zenon
  <2>3. mDebugLvl' \in [Loggers -> DebugLvls]
    BY <2>1, CoreTypes
  <2>4. \A m \in LoggerNames : mLoggers'[m] # NoLogger =>
          mLoggers'[m] \in alive' /\ name'[mLoggers'[m]] = m
    BY <1>1, <1>2, <2>1, CoreTypes
  <2>5. \A k \in Loggers : mEnabled'[k] <=> (isRegistered(k)' /\ mLoggingEnabled')
    BY <2>2
  <2>. QED  BY <1>1, <1>2, <2>1, <2>2, <2>3, <2>4, <2>5, CoreTypes DEF CoreInv
<1>5. CASE mLoggers[n] = NoLogger
  <2>1. /\ mLoggers' = [mLoggers EXCEPT ![n] = l] /\ mLoggingEnabled' = mLoggingEnabled
        /\ mEnabled' = [mEnabled EXCEPT ![l] = mLoggingEnabled]
        /\ mDebugLvl' = [mDebugLvl EXCEPT ![l] = mGlobalDebugLvl]
    BY <1>1, <1>5 DEF registerLogger
  <2>2. /\ mLoggers' \in [LoggerNames -> Loggers \union {NoLogger}] /\ mLoggers'[n] = l
        /\ \A m \in LoggerNames : m # n => mLoggers'[m] = mLoggers[m]
    BY <2>1, CoreTypes
  <2>3. /\ mEnabled' \in [Loggers -> BOOLEAN] /\ mEnabled'[l] = mLoggingEnabled
        /\ \A k \in Loggers : k # l => mEnabled'[k] = mEnabled[k]
    BY <2>1, CoreTypes, Zenon
  <2>4. mDebugLvl' \in [Loggers -> DebugLvls]
    BY <2>1, CoreTypes
  <2>5. \A m \in LoggerNames : mLoggers'[m] # NoLogger =>
          mLoggers'[m] \in alive' /\ name'[mLoggers'[m]] = m
    BY <1>1, <1>2, <2>2, CoreTypes
  <2>6. isRegistered(l)' /\ \A k \in Loggers : k # l => (isRegistered(k)' <=> isRegistered(k))
    BY <1>5, <2>2, CoreTypes DEF isRegistered
  <2>7. ASSUME NEW k \in Loggers  PROVE mEnabled'[k] <=> (isRegistered(k)' /\ mLoggingEnabled')
    <3>1. CASE k = l
      BY <2>1, <2>3, <2>6, <3>1, Zenon
    <3>2. CASE k # l
      BY <2>1, <2>3, <2>6, <3>2, CoreTypes, Zenon
    <3>. QED  BY <3>1, <3>2
  <2>8. mLoggingEnabled' \in BOOLEAN
    BY <2>1, CoreTypes
  <2>. QED  BY <1>1, <1>2, <2>2, <2>3, <2>4, <2>5, <2>7, <2>8, CoreTypes DEF CoreInv
<1>. QED  BY <1>4, <1>5

LEMMA DestroyKeeps ==
  ASSUME CoreInv, NEW l \in Loggers, destroy(l)
  PROVE  CoreInv'
<1>1. /\ alive' = alive \ {l}
      /\ mLoggers' = IF isRegistered(l) THEN [mLoggers EXCEPT ![name[l]] = NoLogger] ELSE mLoggers
      /\ mEnabled' = [mEnabled EXCEPT ![l] = FALSE]
      /\ UNCHANGED <<mLoggingEnabled, mGlobalDebugLvl, name, mDebugLvl>>
  BY DEF destroy
<1>2. /\ mEnabled' \in [Loggers -> BOOLEAN] /\ ~mEnabled'[l]
      /\ \A k \in Loggers : k # l => mEnabled'[k] = mEnabled[k]
  BY <1>1, CoreTypes, Zenon
<1>3. /\ mLoggers' \in [LoggerNames -> Loggers \union {NoLogger}]
      /\ \A m \in LoggerNames : mLoggers[m] = l => mLoggers'[m] = NoLogger
      /\ \A m \in LoggerNames : mLoggers[m] # l => mLoggers'[m] = mLoggers[m]
  <2>1. CASE isRegistered(l)
    <3>1. PICK m \in LoggerNames : mLoggers[m] = l
      BY <2>1 DEF isRegistered
    <3>2. name[l] = m /\ \A o \in LoggerNames : mLoggers[o] = l => o = m
      BY <3>1, CoreTypes
    <3>3. mLoggers' = [mLoggers EXCEPT ![m] = NoLogger]
      BY <1>1, <2>1, <3>2
    <3>. QED  BY <3>1, <3>2, <3>3, CoreTypes
  <2>2. CASE ~isRegistered(l)
    <3>1. mLoggers' = mLoggers
      BY <1>1, <2>2
    <3>. QED  BY <2>2, <3>1, CoreTypes DEF isRegistered
  <2>. QED  BY <2>1, <2>2
<1>4. \A m \in LoggerNames : mLoggers'[m] # NoLogger =>
        mLoggers'[m] \in alive' /\ name'[mLoggers'[m]] = m
  BY <1>1, <1>3, CoreTypes
<1>5. ~isRegistered(l)' /\ \A k \in Loggers : k # l => (isRegistered(k)' <=> isRegistered(k))
  BY <1>3, CoreTypes DEF isRegistered
<1>6. ASSUME NEW k \in Loggers  PROVE mEnabled'[k] <=> (isRegistered(k)' /\ mLoggingEnabled')
  <2>1. CASE k = l
    BY <1>2, <1>5, <2>1
  <2>2. CASE k # l
    BY <1>1, <1>2, <1>5, <2>2, CoreTypes, Zenon
  <2>. QED  BY <2>1, <2>2
<1>. QED  BY <1>1, <1>2, <1>3, <1>4, <1>6, CoreTypes DEF CoreInv

LEMMA EnableKeeps ==
  ASSUME CoreInv, NEW enable \in BOOLEAN, enableLogging(enable)
  PROVE  CoreInv'
<1>1. /\ mLoggingEnabled' = enable
      /\ mEnabled' = [l \in Loggers |-> IF isRegistered(l) THEN enable ELSE mEnabled[l]]
      /\ UNCHANGED <<mLoggers, mGlobalDebugLvl, alive, name, mDebugLvl>>
  BY DEF enableLogging
<1>2. ASSUME NEW l \in Loggers
      PROVE  mEnabled'[l] \in BOOLEAN /\ (mEnabled'[l] <=> (isRegistered(l) /\ enable))
  <2>1. CASE isRegistered(l)
    <3>1. mEnabled'[l] = enable
      BY <1>1, <2>1
    <3>. QED  BY <2>1, <3>1, Zenon
  <2>2. CASE ~isRegistered(l)
    <3>1. mEnabled'[l] = mEnabled[l]
      BY <1>1, <2>2
    <3>2. mEnabled[l] \in BOOLEAN /\ ~mEnabled[l]
      BY <2>2, CoreTypes
    <3>. QED  BY <2>2, <3>1, <3>2, Zenon
  <2>. QED  BY <2>1, <2>2
<1>3. mEnabled' \in [Loggers -> BOOLEAN]
  <2>1. mEnabled' = [l \in Loggers |-> mEnabled'[l]]
    BY <1>1
  <2>. QED  BY <1>2, <2>1
<1>4. \A l \in Loggers : isRegistered(l)' <=> isRegistered(l)
  BY <1>1 DEF isRegistered
<1>5. \A l \in Loggers : mEnabled'[l] <=> (isRegistered(l)' /\ mLoggingEnabled')
  BY <1>1, <1>2, <1>4, Zenon
<1>6. mLoggingEnabled' \in BOOLEAN
  BY <1>1, Zenon
<1>. QED  BY <1>1, <1>3, <1>5, <1>6, CoreTypes DEF CoreInv

\* Steps that change levels only.
LEMMA LevelsKeep ==
  ASSUME CoreInv, mDebugLvl' \in [Loggers -> DebugLvls], mGlobalDebugLvl' \in DebugLvls,
         UNCHANGED <<mLoggers, mLoggingEnabled, alive, name, mEnabled>>
  PROVE  CoreInv'
<1>1. \A l \in Loggers : mEnabled'[l] <=> (isRegistered(l)' /\ mLoggingEnabled')
  BY CoreTypes DEF isRegistered
<1>. QED  BY <1>1, CoreTypes DEF CoreInv

\* An appointment of the thread, or none, changes levels only.
LEMMA AppointmentKeepsCore ==
  ASSUME ListInv, CoreInv, loggerSchedule
  PROVE  CoreInv'
<1>1. UNCHANGED <<mLoggers, mLoggingEnabled, mGlobalDebugLvl, alive, name, mEnabled>>
  BY DEF loggerSchedule
<1>2. mDebugLvl' \in [Loggers -> DebugLvls]
  <2>1. CASE isNow(nextAppointment)
    <3>. DEFINE a == nextAppointment
                at == mLoggers[name[made[a].logger]]
    <3>1. mDebugLvl' = IF isRegistered(made[a].logger)
                       THEN [mDebugLvl EXCEPT ![at] = made[a].lvl] ELSE mDebugLvl
      BY <2>1 DEF loggerSchedule, applyAppointment
    <3>2. a \in DOMAIN made
      BY <2>1 DEF ListInv, isNow
    <3>3. made[a] \in [logger : Loggers, date : Dates, lvl : DebugLvls]
      <4>1. made \in Seq([logger : Loggers, date : Dates, lvl : DebugLvls])
        BY DEF ListInv, LogTyped
      <4>. QED  BY <3>2, <4>1, ElementOf, Zenon
    <3>4. made[a].lvl \in DebugLvls
      BY <3>3
    <3>. HIDE DEF a, at
    <3>. QED  BY <3>1, <3>4, CoreTypes
  <2>2. CASE ~isNow(nextAppointment)
    BY <2>2, CoreTypes DEF loggerSchedule
  <2>. QED  BY <2>1, <2>2
<1>3. mGlobalDebugLvl' \in DebugLvls
  BY <1>1, CoreTypes
<1>. QED  BY <1>1, <1>2, <1>3, LevelsKeep

LEMMA LoggerInitInv == LoggerInit => LoggerInv
<1>. SUFFICES ASSUME LoggerInit  PROVE LoggerInv
  OBVIOUS
<1>1. /\ now = 0 /\ runnable = TRUE /\ notified = FALSE /\ wakeAt = Never
      /\ mLoggers = [n \in LoggerNames |-> NoLogger]
      /\ mLoggingEnabled = FALSE /\ mGlobalDebugLvl = 0 /\ alive = {}
      /\ mEnabled = [l \in Loggers |-> FALSE] /\ mDebugLvl = [l \in Loggers |-> 0]
      /\ mSchedule = <<>> /\ nextAppointment = NoAppointment
      /\ made = <<>> /\ times = <<>> /\ done = [date \in Dates |-> 0] /\ crowded = {}
  BY DEF LoggerInit, KernelInit
<1>2. KernelTypeOK
  <2>1. runnable \in BOOLEAN /\ notified \in BOOLEAN
    BY <1>1, Zenon
  <2>2. now \in Dates /\ wakeAt \in Dates \union {Never}
    BY <1>1, MaxTimeAssumption DEF Dates
  <2>. QED  BY <2>1, <2>2 DEF KernelTypeOK
<1>3. LogTyped /\ NoAppointmentLate /\ AppliedOnce /\ NotYetApplied /\ CopyKept
  BY <1>1 DEF LogTyped, NoAppointmentLate, AppliedOnce, NotYetApplied, CopyKept
<1>4. AppliedAsManyAsLeft
  <2>1. \A date \in Dates : {a \in DOMAIN made \ Range(mSchedule) : Date(a) = date} = {}
    BY <1>1
  <2>. QED  BY <1>1, <2>1, FS_EmptySet DEF AppliedAsManyAsLeft
<1>5. CopyIsFirst /\ LogWaits
  BY <1>1 DEF CopyIsFirst, LogWaits
<1>6. ListInv
  BY <1>1, <1>2, <1>3, <1>4, <1>5 DEF ListInv
<1>7. name \in [Loggers -> LoggerNames]
  <2>1. (CHOOSE n \in LoggerNames : TRUE) \in LoggerNames
    BY LoggerAssumption
  <2>. QED  BY <2>1 DEF LoggerInit
<1>8. mLoggingEnabled \in BOOLEAN /\ mEnabled \in [Loggers -> BOOLEAN]
      /\ \A l \in Loggers : ~mEnabled[l]
  BY <1>1, Zenon
<1>9. \A l \in Loggers : ~isRegistered(l)
  BY <1>1, LoggerAssumption DEF isRegistered
<1>10. CoreInv
  BY <1>1, <1>7, <1>8, <1>9, LoggerAssumption DEF CoreInv
<1>. QED  BY <1>6, <1>10 DEF LoggerInv

LEMMA LoggerStep == LoggerInv /\ [LoggerNext]_loggerVars => LoggerInv'
<1>. SUFFICES ASSUME LoggerInv, [LoggerNext]_loggerVars  PROVE LoggerInv'
  OBVIOUS
<1>0. ListInv /\ CoreInv
  BY DEF LoggerInv
<1>1. CASE UNCHANGED loggerVars
  <2>1. ListInv'
    BY <1>0, <1>1, ListSame DEF loggerVars
  <2>2. CoreInv'
    BY <1>0, <1>1, LevelsKeep, CoreTypes DEF loggerVars, coreVars
  <2>. QED  BY <2>1, <2>2 DEF LoggerInv
<1>2. ASSUME NEW l \in Loggers, NEW n \in LoggerNames, construct(l, n)  PROVE LoggerInv'
  <2>1. ListInv'
    BY <1>0, <1>2, ListSame DEF construct, Call
  <2>. QED  BY <1>0, <1>2, <2>1, ConstructKeeps DEF LoggerInv
<1>3. ASSUME NEW l \in Loggers, destroy(l)  PROVE LoggerInv'
  <2>1. ListInv'
    BY <1>0, <1>3, ListSame DEF destroy, Call
  <2>. QED  BY <1>0, <1>3, <2>1, DestroyKeeps DEF LoggerInv
<1>4. ASSUME NEW enable \in BOOLEAN, enableLogging(enable)  PROVE LoggerInv'
  <2>1. ListInv'
    BY <1>0, <1>4, ListSame DEF enableLogging, Call
  <2>. QED  BY <1>0, <1>4, <2>1, EnableKeeps DEF LoggerInv
<1>5. ASSUME NEW n \in LoggerNames, NEW lvl \in DebugLvls, setDebugLvl(n, lvl)  PROVE LoggerInv'
  <2>1. ListInv'
    BY <1>0, <1>5, ListSame DEF setDebugLvl, Call
  <2>2. mDebugLvl' \in [Loggers -> DebugLvls]
    BY <1>0, <1>5, CoreTypes DEF setDebugLvl
  <2>3. CoreInv'
    BY <1>0, <1>5, <2>2, LevelsKeep, CoreTypes DEF setDebugLvl
  <2>. QED  BY <2>1, <2>3 DEF LoggerInv
<1>6. ASSUME NEW n \in LoggerNames, NEW lvl \in DebugLvls, NEW date \in Dates,
             addLoggerAppointment(n, date, lvl)
      PROVE  LoggerInv'
  <2>1. ListInv'
    BY <1>0, <1>6, AddLogKeeps
  <2>2. CoreInv'
    BY <1>0, <1>6, LevelsKeep, CoreTypes DEF addLoggerAppointment, coreVars
  <2>. QED  BY <2>1, <2>2 DEF LoggerInv
<1>7. ASSUME NEW lvl \in DebugLvls, setGlobalDebugLvl(lvl)  PROVE LoggerInv'
  <2>1. ListInv'
    BY <1>0, <1>7, ListSame DEF setGlobalDebugLvl, Call
  <2>2. mDebugLvl' \in [Loggers -> DebugLvls] /\ mGlobalDebugLvl' \in DebugLvls
    BY <1>0, <1>7, CoreTypes DEF setGlobalDebugLvl
  <2>3. CoreInv'
    BY <1>0, <1>7, <2>2, LevelsKeep DEF setGlobalDebugLvl
  <2>. QED  BY <2>1, <2>3 DEF LoggerInv
<1>8. CASE loggerSchedule
  BY <1>0, <1>8, LogScheduleKeeps, AppointmentKeepsCore DEF LoggerInv
<1>9. CASE LoggerKernel
  <2>1. ListInv'
    BY <1>0, <1>9, LogKernelKeeps
  <2>2. CoreInv'
    BY <1>0, <1>9, LevelsKeep, CoreTypes DEF LoggerKernel, coreVars
  <2>. QED  BY <2>1, <2>2 DEF LoggerInv
<1>. QED  BY <1>1, <1>2, <1>3, <1>4, <1>5, <1>6, <1>7, <1>8, <1>9 DEF LoggerNext

\* The inductive invariant of the loggers and their scheduler.
THEOREM LoggerInvariance == LoggerSpec => []LoggerInv
<1>. QED  BY LoggerInitInv, LoggerStep, PTL DEF LoggerSpec

\* LoggerCore and LoggerScheduler: whatever loggers come and go and whatever
\* appointments are made while the thread waits, the core holds living loggers
\* under their names and enables exactly those, no appointment is late, each is
\* applied once unless its date is crowded, and as many are applied at a date as
\* leave the list.
THEOREM AppointmentsAlwaysKept == LoggerSpec => []AppointmentsKept
<1>1. LoggerInv => AppointmentsKept
  <2>. SUFFICES ASSUME LoggerInv  PROVE AppointmentsKept
    OBVIOUS
  <2>1. ListInv /\ CoreInv
    BY DEF LoggerInv
  <2>2. Range(mSchedule) \subseteq DOMAIN made
    BY <2>1, LogTypes DEF Range
  <2>3. LoggerTypeOK
    BY <2>1, <2>2, CoreTypes DEF LoggerTypeOK, ListInv
  <2>4. \A l \in Loggers : canLogDebug(l, 0) <=> (isRegistered(l) /\ mLoggingEnabled)
    <3>1. \A l \in Loggers : 0 <= mDebugLvl[l]
      <4>1. mDebugLvl \in [Loggers -> DebugLvls] /\ DebugLvls \subseteq Nat
        BY <2>1, CoreTypes, LoggerAssumption
      <4>2. \A l \in Loggers : mDebugLvl[l] \in Nat
        BY <4>1
      <4>. QED  BY <4>2
    <3>. QED  BY <2>1, <3>1, CoreTypes DEF canLogDebug
  <2>5. RegisteredFollowCore
    BY <2>1, <2>4, CoreTypes DEF RegisteredFollowCore
  <2>. QED  BY <2>1, <2>3, <2>5 DEF AppointmentsKept, ListInv
<1>. QED  BY <1>1, LoggerInvariance, PTL

=============================================================================
