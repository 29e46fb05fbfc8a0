-------------------------- MODULE InitiatorProofs ---------------------------
(***************************************************************************)
(* Proofs about the two sides of an initiator: IssWrapper, its clock, for  *)
(* any number of processors and timers, any quantum, any instruction       *)
(* counts and deadlines and any horizon; TlmBus, the path of its accesses, *)
(* for any initiators and accesses and any memory map without overlaps.    *)
(***************************************************************************)
EXTENDS IssWrapper, TlmBus, FiniteSetTheorems, WellFoundedInduction, TLAPS

-----------------------------------------------------------------------------
(***************************************************************************)
(* The clocks of the processors: the inductive invariant.                  *)
(***************************************************************************)

\* The types of the state.
IssTyped ==
    /\ issNow \in 0 .. IssHorizon /\ current \in Cpus \union {NoCpu}
    /\ state \in [Cpus -> {"boot", "sync", "forced", "wfe", "idle", "running", "done", "never"}]
    /\ wake \in [Cpus -> Nat] /\ local_time \in [Cpus -> Nat]
    /\ next_sync_point \in [Cpus -> Nat] /\ waitStart \in [Cpus -> Nat]
    /\ owedAt \in [Cpus -> Nat]
    /\ atomic_flag \in [Cpus -> BOOLEAN] /\ overdue \in [Cpus -> BOOLEAN]
    /\ mWasInterrupted \in [Cpus -> BOOLEAN]
    /\ timeout_event \in [Cpus -> [Timers -> Nat]] /\ asked \in [Cpus -> [Timers -> Nat]]

\* The sync point is at most a quantum away, a processor that boots or idles has
\* no time of its own, and one that runs is before its sync point.
AheadInv ==
    \A c \in Cpus :
        /\ next_sync_point[c] <= issNow + Quantum
        /\ state[c] \in {"boot", "idle"} => local_time[c] = 0
        /\ Running(c) /\ ~overdue[c] =>
             local_time[c] = 0 \/ issNow + local_time[c] < next_sync_point[c]

\* An interrupt that was not seen is recorded, and came after the wait began.
OwedInv ==
    \A c \in Cpus :
        /\ waitStart[c] <= issNow
        /\ owedAt[c] # NoDate => mWasInterrupted[c]
        /\ state[c] = "wfe" /\ owedAt[c] # NoDate => owedAt[c] >= waitStart[c]

\* The inductive invariant.
IssInv == IssTyped /\ AheadInv /\ OwedInv /\ TimeoutNotLate

-----------------------------------------------------------------------------
(***************************************************************************)
(* Arithmetic.                                                             *)
(***************************************************************************)

\* The next multiple of the quantum is later, by a quantum at most.
LEMMA NextMultipleFacts ==
    ASSUME NEW t \in Nat
    PROVE  /\ NextMultiple(t) \in Nat
           /\ NextMultiple(t) > t /\ NextMultiple(t) <= t + Quantum
<1>. DEFINE q == t \div Quantum  r == t % Quantum
<1>1. q \in Nat /\ r \in 0 .. Quantum - 1 /\ t = Quantum * q + r
  BY IssAssumption
<1>2. NextMultiple(t) = Quantum * q + Quantum
  <2>1. NextMultiple(t) = (q + 1) * Quantum
    BY DEF NextMultiple
  <2>. HIDE DEF q
  <2>. QED  BY <1>1, <2>1, IssAssumption
<1>. HIDE DEF q, r
<1>3. Quantum * q \in Nat
  BY <1>1, IssAssumption
<1>. QED  BY <1>1, <1>2, <1>3, IssAssumption

\* The smaller of two dates.
LEMMA MinOfTwo ==
    ASSUME NEW a \in Nat, NEW b \in Nat
    PROVE  /\ Min({a, b}) \in {a, b}
           /\ Min({a, b}) <= a /\ Min({a, b}) <= b
<1>1. \E x \in {a, b} : \A y \in {a, b} : x <= y
  OBVIOUS
<1>. QED  BY <1>1 DEF Min

-----------------------------------------------------------------------------
(***************************************************************************)
(* The calls of the simulator and the steps of the kernel.                 *)
(***************************************************************************)

\* The invariant holds when the processors are to boot.
LEMMA InitIss == IssInit => IssInv
<1>. SUFFICES ASSUME IssInit PROVE IssInv
  OBVIOUS
<1>0. NoDate \in Nat
  BY IssAssumption DEF NoDate
<1>1. IssTyped
  BY <1>0, IssAssumption DEF IssInit, IssTyped
<1>2. AheadInv /\ OwedInv /\ TimeoutNotLate
  BY <1>0, IssAssumption DEF IssInit, AheadInv, OwedInv, TimeoutNotLate, Running
<1>. QED  BY <1>1, <1>2 DEF IssInv

\* A wait keeps what the invariant says of time, if it is not one for an
\* interrupt that has come.
LEMMA WaitKeeps ==
    ASSUME IssInv, NEW c \in Cpus, NEW kind \in {"sync", "forced", "wfe"},
           NEW local \in Nat, WaitAs(c, kind, local), kind = "wfe" => ~mWasInterrupted[c],
           UNCHANGED <<issNow, atomic_flag, irqVars, timerVars>>
    PROVE  IssInv'
<1>. USE DEF irqVars, timerVars
<1>1. IssTyped'
  BY IssAssumption DEF IssInv, IssTyped, WaitAs
<1>2. AheadInv'
  BY IssAssumption DEF IssInv, IssTyped, WaitAs, AheadInv, Running
<1>3. OwedInv'
  BY DEF IssInv, IssTyped, WaitAs, OwedInv
<1>4. TimeoutNotLate'
  BY DEF IssInv, TimeoutNotLate
<1>. QED  BY <1>1, <1>2, <1>3, <1>4 DEF IssInv

\* Instructions and accesses.
LEMMA FetchKeeps ==
    ASSUME IssInv, NEW c \in Cpus, NEW n \in Nat, iss_fetch_sync(c, n)
    PROVE  IssInv'
<1>. DEFINE local == local_time[c] + n
<1>0. local \in Nat /\ Running(c) /\ UNCHANGED <<issNow, atomic_flag, irqVars, timerVars>>
  BY DEF IssInv, IssTyped, iss_fetch_sync
<1>1. CASE ~atomic_flag[c] /\ need_sync(c, local)
  <2>1. WaitAs(c, "sync", local)
    BY <1>1 DEF iss_fetch_sync, sync
  <2>. QED  BY <1>0, <2>1, WaitKeeps
<1>2. CASE atomic_flag[c] \/ ~need_sync(c, local)
  <2>1. /\ local_time' = [local_time EXCEPT ![c] = local]
        /\ \/ overdue' = [overdue EXCEPT ![c] = TRUE]
           \/ overdue' = overdue /\ issNow + local < next_sync_point[c]
        /\ UNCHANGED <<state, wake, current, next_sync_point, waitStart>>
    BY <1>0, <1>2 DEF iss_fetch_sync, sync, need_sync, IssInv, IssTyped
  <2>. HIDE DEF local
  <2>2. IssTyped'
    BY <1>0, <2>1 DEF IssInv, IssTyped, irqVars, timerVars
  <2>3. AheadInv'
    BY <1>0, <2>1, IssAssumption DEF IssInv, IssTyped, AheadInv, Running
  <2>4. OwedInv' /\ TimeoutNotLate'
    BY <1>0, <2>1 DEF IssInv, OwedInv, TimeoutNotLate, irqVars, timerVars
  <2>. QED  BY <2>2, <2>3, <2>4 DEF IssInv
<1>. QED  BY <1>1, <1>2

\* The processor gives its time back, or idles.
LEMMA ForceKeeps ==
    ASSUME IssInv, NEW c \in Cpus, NEW n \in Nat, iss_force_sync(c, n)
    PROVE  IssInv'
<1>. DEFINE local == local_time[c] + n
<1>0. /\ local \in Nat /\ Running(c) /\ UNCHANGED <<issNow, atomic_flag, irqVars, timerVars>>
      /\ local_time[c] \in Nat
  BY DEF IssInv, IssTyped, iss_force_sync
<1>1. CASE local # 0
  <2>1. WaitAs(c, "forced", local)
    BY <1>1 DEF iss_force_sync
  <2>. QED  BY <1>0, <2>1, WaitKeeps
<1>2. CASE local = 0
  <2>0. local_time[c] = 0
    BY <1>0, <1>2
  <2>1. /\ state' = [state EXCEPT ![c] = "idle"]
        /\ wake' = [wake EXCEPT ![c] = issNow + Quantum]
        /\ waitStart' = [waitStart EXCEPT ![c] = issNow]
        /\ current' = NoCpu
        /\ UNCHANGED <<local_time, next_sync_point, overdue>>
    BY <1>2 DEF iss_force_sync
  <2>. HIDE DEF local
  <2>2. IssTyped'
    BY <1>0, <2>1, IssAssumption DEF IssInv, IssTyped, irqVars, timerVars
  <2>3. AheadInv'
    BY <1>0, <2>0, <2>1, IssAssumption DEF IssInv, IssTyped, AheadInv, Running
  <2>4. OwedInv' /\ TimeoutNotLate'
    BY <1>0, <2>1 DEF IssInv, IssTyped, OwedInv, TimeoutNotLate, irqVars, timerVars
  <2>. QED  BY <2>2, <2>3, <2>4 DEF IssInv
<1>. QED  BY <1>1, <1>2

\* What waitForEvent waits for is not less than the time the processor is ahead,
\* unless an atomic section is not synchronised.
LEMMA WfeLength ==
    ASSUME IssInv, NEW c \in Cpus, Running(c), WaitForEvent(c, local_time[c])
    PROVE  \E wait \in Nat : /\ WaitAs(c, "wfe", wait)
                             /\ overdue[c] \/ wait >= local_time[c]
<1>. DEFINE left == next_sync_point[c] - issNow
            never == NoDate - issNow
<1>1. /\ left \in Int /\ never \in Nat /\ Quantum \in Nat
      /\ local_time[c] \in Nat
      /\ overdue[c] \/ local_time[c] = 0 \/ left > local_time[c]
  BY IssAssumption DEF IssInv, IssTyped, AheadInv, NoDate
<1>2. \/ local_time[c] = 0 /\ WaitAs(c, "wfe", Quantum)
      \/ left >= 0 /\ WaitAs(c, "wfe", left)
      \/ left < 0 /\ WaitAs(c, "wfe", 0) /\ local_time[c] # 0
      \/ left < 0 /\ WaitAs(c, "wfe", never) /\ local_time[c] # 0
  BY <1>1 DEF WaitForEvent
<1>. HIDE DEF left, never
<1>3. CASE local_time[c] = 0 /\ WaitAs(c, "wfe", Quantum)
  BY <1>1, <1>3
<1>4. CASE left >= 0 /\ WaitAs(c, "wfe", left)
  <2>1. left \in Nat /\ (overdue[c] \/ left >= local_time[c])
    BY <1>1, <1>4
  <2>. QED  BY <1>4, <2>1
<1>5. CASE left < 0 /\ local_time[c] # 0 /\ (WaitAs(c, "wfe", 0) \/ WaitAs(c, "wfe", never))
  <2>1. overdue[c]
    BY <1>1, <1>5
  <2>. QED  BY <1>1, <1>5, <2>1
<1>. QED  BY <1>2, <1>3, <1>4, <1>5

\* A wait for an interrupt.
LEMMA WfeKeeps ==
    ASSUME IssInv, NEW c \in Cpus, waitForEvent(c)
    PROVE  IssInv'
<1>0. Running(c) /\ UNCHANGED <<issNow, atomic_flag, mWaitForInterrupt, timerVars>>
  BY DEF waitForEvent
<1>1. CASE mWasInterrupted[c]
  <2>1. /\ mWasInterrupted' = [mWasInterrupted EXCEPT ![c] = FALSE]
        /\ owedAt' = [owedAt EXCEPT ![c] = NoDate]
        /\ UNCHANGED <<current, state, wake, local_time, next_sync_point, overdue, waitStart>>
    BY <1>1 DEF waitForEvent
  <2>2. IssTyped'
    BY <1>0, <2>1, IssAssumption DEF IssInv, IssTyped, timerVars, NoDate
  <2>3. AheadInv' /\ TimeoutNotLate'
    BY <1>0, <2>1 DEF IssInv, AheadInv, TimeoutNotLate, Running, timerVars
  <2>4. OwedInv'
    BY <1>0, <2>1 DEF IssInv, IssTyped, OwedInv
  <2>. QED  BY <2>2, <2>3, <2>4 DEF IssInv
<1>2. CASE ~mWasInterrupted[c]
  <2>1. PICK local \in Nat : WaitAs(c, "wfe", local)
    <3>1. WaitForEvent(c, local_time[c])
      BY <1>2 DEF waitForEvent
    <3>. QED  BY <1>0, <3>1, WfeLength
  <2>2. UNCHANGED irqVars
    BY <1>2 DEF waitForEvent, irqVars
  <2>. QED  BY <1>0, <1>2, <2>1, <2>2, WaitKeeps
<1>. QED  BY <1>1, <1>2

\* A timer that is asked for again keeps the earlier date, past dates included.
LEMMA RequestKeeps ==
    ASSUME IssInv, NEW c \in Cpus, NEW i \in Timers, NEW d \in Nat, iss_request_timeout(c, i, d)
    PROVE  IssInv'
<1>. DEFINE timely == d >= issNow + local_time[c]
            given == IF timely THEN d ELSE asked[c][i]
<1>0. PICK date \in TimeoutDates(c, d) :
        timeout_event' = [timeout_event EXCEPT ![c][i] = Min({timeout_event[c][i], date})]
  BY DEF iss_request_timeout, IssInv, IssTyped
<1>. DEFINE m == Min({timeout_event[c][i], date})
<1>1. /\ timeout_event' = [timeout_event EXCEPT ![c][i] = m]
      /\ asked' = [asked EXCEPT ![c][i] = given]
      /\ UNCHANGED <<issNow, current, state, wake, local_time, next_sync_point, atomic_flag,
                     irqVars, overdue, waitStart>>
  <2>1. asked = [asked EXCEPT ![c][i] = asked[c][i]]
    BY DEF IssInv, IssTyped
  <2>. QED  BY <1>0, <2>1 DEF iss_request_timeout
<1>2. /\ date \in Nat /\ (timely => date <= d)
      /\ timeout_event[c][i] \in Nat /\ asked[c][i] \in Nat /\ given \in Nat
  BY IssAssumption DEF IssInv, IssTyped, TimeoutDates, NoDate
<1>3. m \in Nat /\ (given # NoDate => m <= given)
  <2>1. asked[c][i] # NoDate => timeout_event[c][i] <= asked[c][i]
    BY DEF IssInv, TimeoutNotLate
  <2>. HIDE DEF timely
  <2>2. m \in {timeout_event[c][i], date} /\ m <= date /\ m <= timeout_event[c][i]
    BY <1>2, MinOfTwo
  <2>. QED  BY <1>2, <2>1, <2>2
<1>. HIDE DEF m, given
<1>4. IssTyped'
  BY <1>1, <1>2, <1>3 DEF IssInv, IssTyped, irqVars
<1>5. AheadInv' /\ OwedInv'
  BY <1>1 DEF IssInv, AheadInv, OwedInv, Running, irqVars
<1>6. TimeoutNotLate'
  <2>. SUFFICES ASSUME NEW e \in Cpus, NEW j \in Timers, asked'[e][j] # NoDate
                PROVE  timeout_event'[e][j] <= asked'[e][j]
    BY DEF TimeoutNotLate
  <2>1. CASE e = c /\ j = i
    BY <1>1, <1>3, <2>1 DEF IssInv, IssTyped
  <2>2. CASE e # c \/ j # i
    <3>1. timeout_event'[e][j] = timeout_event[e][j] /\ asked'[e][j] = asked[e][j]
      BY <1>1, <2>2 DEF IssInv, IssTyped
    <3>. QED  BY <3>1 DEF IssInv, TimeoutNotLate
  <2>. QED  BY <2>1, <2>2
<1>. QED  BY <1>4, <1>5, <1>6 DEF IssInv

\* A timeout comes.
LEMMA TimeoutKeeps ==
    ASSUME IssInv, NEW c \in Cpus, NEW i \in Timers, onTimeout(c, i)
    PROVE  IssInv'
<1>0. NoDate \in Nat
  BY IssAssumption DEF NoDate
<1>1. /\ timeout_event' = [timeout_event EXCEPT ![c][i] = NoDate]
      /\ asked' = [asked EXCEPT ![c][i] = NoDate]
      /\ UNCHANGED <<issNow, current, state, wake, local_time, next_sync_point, atomic_flag,
                     irqVars, overdue, waitStart>>
  BY DEF onTimeout
<1>4. IssTyped'
  BY <1>0, <1>1 DEF IssInv, IssTyped, irqVars
<1>5. AheadInv' /\ OwedInv'
  BY <1>1 DEF IssInv, AheadInv, OwedInv, Running, irqVars
<1>6. TimeoutNotLate'
  <2>. SUFFICES ASSUME NEW e \in Cpus, NEW j \in Timers, asked'[e][j] # NoDate
                PROVE  timeout_event'[e][j] <= asked'[e][j]
    BY DEF TimeoutNotLate
  <2>1. e # c \/ j # i
    BY <1>1 DEF IssInv, IssTyped
  <2>2. timeout_event'[e][j] = timeout_event[e][j] /\ asked'[e][j] = asked[e][j]
    BY <1>1, <2>1 DEF IssInv, IssTyped
  <2>. QED  BY <2>2 DEF IssInv, TimeoutNotLate
<1>. QED  BY <1>4, <1>5, <1>6 DEF IssInv

\* An interrupt is recorded with the date of the first that is not seen.
LEMMA IrqKeepsIss ==
    ASSUME IssInv, NEW c \in Cpus, iss_update_irq(c)
    PROVE  IssInv'
<1>. DEFINE m == Min({owedAt[c], issNow})
<1>1. /\ mWasInterrupted' = [mWasInterrupted EXCEPT ![c] = TRUE]
      /\ owedAt' = [owedAt EXCEPT ![c] = m]
      /\ UNCHANGED <<issNow, current, state, wake, local_time, next_sync_point, atomic_flag,
                     timerVars, overdue, waitStart>>
  BY DEF iss_update_irq
<1>2. m \in {owedAt[c], issNow} /\ m <= issNow /\ issNow \in Nat /\ owedAt[c] \in Nat
      /\ m \in Nat
  <2>1. issNow \in Nat /\ owedAt[c] \in Nat
    BY IssAssumption DEF IssInv, IssTyped
  <2>2. m \in {owedAt[c], issNow} /\ m <= issNow
    BY <2>1, MinOfTwo
  <2>. QED  BY <2>1, <2>2
<1>3. issNow < NoDate
  BY IssAssumption DEF IssInv, IssTyped, NoDate
<1>. HIDE DEF m
<1>4. IssTyped'
  BY <1>1, <1>2 DEF IssInv, IssTyped, timerVars
<1>5. AheadInv' /\ TimeoutNotLate'
  BY <1>1 DEF IssInv, AheadInv, TimeoutNotLate, Running, timerVars
<1>6. OwedInv'
  <2>. SUFFICES ASSUME NEW e \in Cpus
                PROVE  /\ waitStart[e] <= issNow
                       /\ owedAt'[e] # NoDate => mWasInterrupted'[e]
                       /\ state[e] = "wfe" /\ owedAt'[e] # NoDate => owedAt'[e] >= waitStart[e]
    BY <1>1 DEF OwedInv
  <2>1. CASE e = c
    <3>1. owedAt'[c] = m /\ mWasInterrupted'[c]
      BY <1>1 DEF IssInv, IssTyped
    <3>2. CASE m = issNow
      BY <2>1, <3>1, <3>2 DEF IssInv, OwedInv
    <3>3. CASE m = owedAt[c]
      <4>1. owedAt[c] # NoDate
        BY <1>2, <1>3, <3>3, IssAssumption DEF NoDate
      <4>. QED  BY <2>1, <3>1, <3>3, <4>1 DEF IssInv, OwedInv
    <3>. QED  BY <1>2, <3>2, <3>3
  <2>2. CASE e # c
    <3>1. owedAt'[e] = owedAt[e] /\ mWasInterrupted'[e] = mWasInterrupted[e]
      BY <1>1, <2>2 DEF IssInv, IssTyped
    <3>. QED  BY <3>1 DEF IssInv, OwedInv
  <2>. QED  BY <2>1, <2>2
<1>. QED  BY <1>4, <1>5, <1>6 DEF IssInv

\* A wait ends.
LEMMA ResumeKeeps ==
    ASSUME IssInv, NEW c \in Cpus, Resume(c)
    PROVE  IssInv'
<1>. DEFINE next == NextMultiple(issNow)
<1>0. /\ UNCHANGED <<issNow, atomic_flag, mWaitForInterrupt, timerVars, overdue>>
      /\ state[c] \in {"boot", "sync", "forced", "wfe", "idle"} /\ issNow \in Nat
      /\ next \in Nat /\ next > issNow /\ next <= issNow + Quantum
  BY NextMultipleFacts, IssAssumption DEF Resume, IssInv, IssTyped
<1>. HIDE DEF next
<1>t. TimeoutNotLate'
  BY <1>0 DEF IssInv, TimeoutNotLate, timerVars
<1>1. CASE state[c] = "boot" /\ c \in WaitsForInterrupt
  <2>1. /\ state' = [state EXCEPT ![c] = "never"]
        /\ UNCHANGED <<current, wake, local_time, next_sync_point, mWasInterrupted, owedAt,
                       waitStart>>
    BY <1>1 DEF Resume
  <2>2. IssTyped'
    BY <1>0, <2>1 DEF IssInv, IssTyped, timerVars
  <2>3. AheadInv' /\ OwedInv'
    BY <1>0, <2>1 DEF IssInv, IssTyped, AheadInv, OwedInv, Running
  <2>. QED  BY <1>t, <2>2, <2>3 DEF IssInv
<1>2. CASE state[c] = "wfe" /\ ~mWasInterrupted[c]
  <2>1. /\ wake' = [wake EXCEPT ![c] = issNow + Quantum]
        /\ waitStart' = [waitStart EXCEPT ![c] = issNow]
        /\ local_time' = [local_time EXCEPT ![c] = Quantum]
        /\ next_sync_point' = [next_sync_point EXCEPT ![c] = next]
        /\ UNCHANGED <<current, state, mWasInterrupted, owedAt>>
    BY <1>2 DEF Resume, next
  <2>2. IssTyped'
    BY <1>0, <2>1, IssAssumption DEF IssInv, IssTyped, timerVars
  <2>3. AheadInv'
    BY <1>0, <1>2, <2>1, IssAssumption DEF IssInv, IssTyped, AheadInv, Running
  <2>4. OwedInv'
    BY <1>0, <1>2, <2>1 DEF IssInv, IssTyped, OwedInv
  <2>. QED  BY <1>t, <2>2, <2>3, <2>4 DEF IssInv
<1>3. CASE /\ ~(state[c] = "boot" /\ c \in WaitsForInterrupt)
           /\ ~(state[c] = "wfe" /\ ~mWasInterrupted[c])
  <2>1. /\ state' = [state EXCEPT ![c] = "running"] /\ current' = c
        /\ UNCHANGED <<wake, waitStart>>
        /\ \/ UNCHANGED <<local_time, next_sync_point>> /\ state[c] \in {"boot", "idle"}
           \/ /\ local_time' = [local_time EXCEPT ![c] = 0]
              /\ next_sync_point' = [next_sync_point EXCEPT ![c] = next]
        /\ \/ /\ mWasInterrupted' = [mWasInterrupted EXCEPT ![c] = FALSE]
              /\ owedAt' = [owedAt EXCEPT ![c] = NoDate]
           \/ UNCHANGED <<mWasInterrupted, owedAt>>
    BY <1>3 DEF Resume, reset, next
  <2>2. IssTyped'
    <3>0. NoDate \in Nat
      BY IssAssumption DEF NoDate
    <3>1. local_time' \in [Cpus -> Nat] /\ next_sync_point' \in [Cpus -> Nat]
      <4>1. CASE UNCHANGED <<local_time, next_sync_point>>
        BY <4>1 DEF IssInv, IssTyped
      <4>2. CASE /\ local_time' = [local_time EXCEPT ![c] = 0]
                 /\ next_sync_point' = [next_sync_point EXCEPT ![c] = next]
        BY <1>0, <4>2 DEF IssInv, IssTyped
      <4>. QED  BY <2>1, <4>1, <4>2
    <3>2. owedAt' \in [Cpus -> Nat]
      BY <2>1, <3>0 DEF IssInv, IssTyped
    <3>3. mWasInterrupted' \in [Cpus -> BOOLEAN]
      BY <2>1 DEF IssInv, IssTyped
    <3>. QED  BY <1>0, <2>1, <3>1, <3>2, <3>3 DEF IssInv, IssTyped, timerVars
  <2>3. AheadInv'
    BY <1>0, <2>1, IssAssumption DEF IssInv, IssTyped, AheadInv, Running
  <2>4. OwedInv'
    BY <1>0, <2>1 DEF IssInv, IssTyped, OwedInv
  <2>. QED  BY <1>t, <2>2, <2>3, <2>4 DEF IssInv
<1>. QED  BY <1>1, <1>2, <1>3

\* Every step keeps the invariant.
LEMMA StepIss == IssInv /\ [IssNext]_issVars => IssInv'
<1>. SUFFICES ASSUME IssInv, [IssNext]_issVars PROVE IssInv'
  OBVIOUS
<1>. USE DEF irqVars, timerVars
<1>1. CASE UNCHANGED issVars
  BY <1>1 DEF issVars, IssInv, IssTyped, AheadInv, OwedInv, TimeoutNotLate, Running
<1>2. ASSUME NEW c \in Cpus, NEW n \in InstrCounts,
             iss_fetch_sync(c, n) \/ iss_rw_sync(c, n) \/ iss_force_sync(c, n)
      PROVE  IssInv'
  <2>1. n \in Nat
    BY IssAssumption
  <2>. QED  BY <1>2, <2>1, FetchKeeps, ForceKeeps DEF iss_rw_sync
<1>3. ASSUME NEW c \in Cpus, NEW val \in BOOLEAN, iss_update_atomic_flag(c, val) PROVE IssInv'
  BY <1>3 DEF iss_update_atomic_flag, IssInv, IssTyped, AheadInv, OwedInv, TimeoutNotLate, Running
<1>4. ASSUME NEW c \in Cpus, core_function_end(c) PROVE IssInv'
  BY <1>4, IssAssumption
     DEF core_function_end, IssInv, IssTyped, AheadInv, OwedInv, TimeoutNotLate, Running
<1>5. ASSUME NEW c \in Cpus, NEW i \in Timers, NEW d \in Deadlines, iss_request_timeout(c, i, d)
      PROVE  IssInv'
  <2>1. d \in Nat
    BY IssAssumption
  <2>. QED  BY <1>5, <2>1, RequestKeeps
<1>6. ASSUME NextIssDelta PROVE IssInv'
  BY <1>6, IssAssumption
     DEF NextIssDelta, IssInv, IssTyped, AheadInv, OwedInv, TimeoutNotLate, Running
<1>7. ASSUME Advance PROVE IssInv'
  <2>1. /\ issNow' = issNow + 1 /\ issNow < IssHorizon /\ issNow \in Nat /\ current = NoCpu
        /\ UNCHANGED <<current, state, wake, local_time, next_sync_point, atomic_flag, irqVars,
                       timerVars, overdue, waitStart>>
    BY <1>7 DEF Advance, IssInv, IssTyped
  <2>2. IssTyped'
    BY <2>1, IssAssumption DEF IssInv, IssTyped
  <2>3. AheadInv'
    <3>1. \A c \in Cpus : ~Running(c)'
      BY <2>1, IssAssumption DEF Running
    <3>2. \A c \in Cpus : next_sync_point[c] \in Nat
      BY DEF IssInv, IssTyped
    <3>. QED  BY <2>1, <3>1, <3>2, IssAssumption DEF IssInv, AheadInv
  <2>4. OwedInv'
    <3>1. \A c \in Cpus : waitStart[c] \in Nat
      BY DEF IssInv, IssTyped
    <3>. QED  BY <2>1, <3>1 DEF IssInv, OwedInv
  <2>5. TimeoutNotLate'
    BY <2>1 DEF IssInv, TimeoutNotLate
  <2>. QED  BY <2>2, <2>3, <2>4, <2>5 DEF IssInv
<1>. QED  BY <1>1, <1>2, <1>3, <1>4, <1>5, <1>6, <1>7, WfeKeeps, IrqKeepsIss, ResumeKeeps, TimeoutKeeps
          DEF IssNext

-----------------------------------------------------------------------------
(***************************************************************************)
(* The theorems.                                                           *)
(***************************************************************************)

\* The invariant holds in every reachable state.
THEOREM IssInvariance == IssSpec => []IssInv
BY InitIss, StepIss, PTL DEF IssSpec

\* A processor that runs ahead stays within its quantum and misses neither an
\* interrupt nor a timeout it asked for in time, for every number of processors,
\* every quantum and every sequence of calls, requests for past dates and waits in
\* unsynchronised atomic sections included (issWrapper.hpp, quantum.cpp).
THEOREM TimeIsKept == IssSpec => []TimeKept
<1>1. IssInv => TimeKept
  BY IssAssumption
     DEF IssInv, IssTyped, AheadInv, OwedInv, TimeKept, IssTypeOK, AheadLessThanQuantum,
         NeverSleepsOnInterrupt, Running
<1>. QED  BY <1>1, IssInvariance, PTL

\* What every step keeps of the time of each processor.
Forward == \A c \in Cpus : ClockOf(c)' >= ClockOf(c) \/ WaitsUnsynchronised(c)

\* Of the processors only c moves: the others wait, and their time with them.
LEMMA OneMoves ==
    ASSUME IssInv, NEW c \in Cpus, issNow' = issNow,
           \A e \in Cpus \ {c} : /\ state'[e] = state[e] /\ wake'[e] = wake[e]
                                 /\ local_time'[e] = local_time[e],
           ClockOf(c)' >= ClockOf(c) \/ WaitsUnsynchronised(c)
    PROVE  Forward
<1>1. \A e \in Cpus : ClockOf(e) \in Int
  BY IssAssumption DEF ClockOf, IssInv, IssTyped
<1>2. ASSUME NEW e \in Cpus \ {c} PROVE ClockOf(e)' = ClockOf(e)
  BY <1>2 DEF ClockOf
<1>3. ASSUME NEW e \in Cpus PROVE ClockOf(e)' >= ClockOf(e) \/ WaitsUnsynchronised(e)
  BY <1>1, <1>2
<1>. QED  BY <1>3 DEF Forward

\* A wait of c that is not shorter than its time, or is for an event with an
\* atomic section that is not synchronised.
LEMMA WaitForward ==
    ASSUME IssInv, NEW c \in Cpus, NEW kind \in {"sync", "forced", "wfe"}, Running(c),
           NEW local \in Nat, WaitAs(c, kind, local), issNow' = issNow,
           local >= local_time[c] \/ (overdue[c] /\ kind = "wfe")
    PROVE  Forward
<1>1. \A e \in Cpus \ {c} : /\ state'[e] = state[e] /\ wake'[e] = wake[e]
                            /\ local_time'[e] = local_time[e]
  BY DEF WaitAs, IssInv, IssTyped
<1>2. ClockOf(c) = issNow + local_time[c] /\ ClockOf(c)' = issNow + local
  BY DEF WaitAs, IssInv, IssTyped, ClockOf, Running
<1>3. CASE local >= local_time[c]
  <2>1. ClockOf(c)' >= ClockOf(c)
    BY <1>2, <1>3, IssAssumption DEF IssInv, IssTyped
  <2>. QED  BY <1>1, <2>1, OneMoves
<1>4. CASE overdue[c] /\ kind = "wfe"
  <2>1. WaitsUnsynchronised(c)
    BY <1>4 DEF WaitAs, WaitsUnsynchronised, IssInv, IssTyped
  <2>. QED  BY <1>1, <2>1, OneMoves
<1>. QED  BY <1>3, <1>4

\* No step of any processor, of a device or of the kernel takes the time of a
\* processor back, but its own wait for an event after an atomic section it did not
\* synchronise (quantum.cpp, sync and reset; issWrapper.hpp, waitForEvent).
THEOREM ClockNeverBack == IssSpec => ClockNotBack
<1>1. ASSUME IssInv, IssNext PROVE Forward
  <2>. USE DEF irqVars, timerVars
  <2>0. issNow \in Nat /\ \A c \in Cpus : local_time[c] \in Nat /\ wake[c] \in Nat
    BY <1>1, IssAssumption DEF IssInv, IssTyped
  <2>1. CASE UNCHANGED <<issNow, state, wake, local_time>>
    BY <2>0, <2>1 DEF Forward, ClockOf
  <2>2. ASSUME NEW c \in Cpus, NEW n \in Nat, iss_fetch_sync(c, n) PROVE Forward
    <3>1. CASE WaitAs(c, "sync", local_time[c] + n)
      BY <1>1, <2>0, <2>2, <3>1, WaitForward DEF iss_fetch_sync
    <3>2. CASE local_time' = [local_time EXCEPT ![c] = local_time[c] + n]
               /\ UNCHANGED <<issNow, state, wake>>
      <4>1. ClockOf(c) = issNow + local_time[c] /\ ClockOf(c)' = issNow + (local_time[c] + n)
        BY <1>1, <2>2, <3>2 DEF iss_fetch_sync, Running, ClockOf, IssInv, IssTyped
      <4>2. ClockOf(c)' >= ClockOf(c)
        BY <2>0, <4>1
      <4>. QED  BY <1>1, <3>2, <4>2, OneMoves DEF IssInv, IssTyped
    <3>. QED  BY <2>2, <3>1, <3>2 DEF iss_fetch_sync, sync
  <2>3. ASSUME NEW c \in Cpus, NEW n \in Nat, iss_force_sync(c, n) PROVE Forward
    <3>1. CASE WaitAs(c, "forced", local_time[c] + n)
      BY <1>1, <2>0, <2>3, <3>1, WaitForward DEF iss_force_sync
    <3>2. CASE /\ state' = [state EXCEPT ![c] = "idle"]
               /\ wake' = [wake EXCEPT ![c] = issNow + Quantum]
               /\ UNCHANGED <<issNow, local_time>>
      <4>1. ClockOf(c) = issNow + local_time[c] /\ ClockOf(c)' = issNow + local_time[c]
        BY <1>1, <2>3, <3>2 DEF iss_force_sync, Running, ClockOf, IssInv, IssTyped
      <4>2. ClockOf(c)' >= ClockOf(c)
        BY <2>0, <4>1
      <4>. QED  BY <1>1, <3>2, <4>2, OneMoves DEF IssInv, IssTyped
    <3>. QED  BY <2>3, <3>1, <3>2 DEF iss_force_sync
  <2>4. ASSUME NEW c \in Cpus, waitForEvent(c) PROVE Forward
    <3>0. Running(c) /\ issNow' = issNow
      BY <2>4 DEF waitForEvent
    <3>1. CASE WaitForEvent(c, local_time[c])
      <4>1. PICK wait \in Nat : WaitAs(c, "wfe", wait) /\ (overdue[c] \/ wait >= local_time[c])
        BY <1>1, <3>0, <3>1, WfeLength
      <4>. QED  BY <1>1, <3>0, <4>1, WaitForward
    <3>. QED  BY <2>1, <2>4, <3>1 DEF waitForEvent
  <2>5. ASSUME NEW c \in Cpus, core_function_end(c) PROVE Forward
    <3>1. ClockOf(c) = issNow + local_time[c] /\ ClockOf(c)' = issNow + local_time[c]
      BY <1>1, <2>5 DEF core_function_end, Running, ClockOf, IssInv, IssTyped
    <3>2. ClockOf(c)' >= ClockOf(c)
      BY <2>0, <3>1
    <3>. QED  BY <1>1, <2>5, <3>2, OneMoves DEF core_function_end, IssInv, IssTyped
  <2>6. ASSUME NEW c \in Cpus, Resume(c) PROVE Forward
    <3>0. /\ issNow' = issNow /\ wake[c] = issNow
          /\ state[c] \in {"boot", "sync", "forced", "wfe", "idle"}
          /\ state[c] \in {"boot", "idle"} => local_time[c] = 0
          /\ ClockOf(c) = issNow
      BY <1>1, <2>0, <2>6 DEF Resume, IssInv, AheadInv, ClockOf
    <3>1. \A e \in Cpus \ {c} : /\ state'[e] = state[e] /\ wake'[e] = wake[e]
                                /\ local_time'[e] = local_time[e]
      BY <1>1, <2>6 DEF Resume, reset, IssInv, IssTyped
    <3>2. \/ state'[c] = "wfe" /\ wake'[c] = issNow + Quantum
          \/ state'[c] \in {"never", "running"} /\ local_time'[c] = 0
      BY <1>1, <2>6, <3>0 DEF Resume, reset, IssInv, IssTyped
    <3>3. ClockOf(c)' >= ClockOf(c)
      BY <2>0, <3>0, <3>2, IssAssumption DEF ClockOf
    <3>. QED  BY <1>1, <3>0, <3>1, <3>3, OneMoves
  <2>7. ASSUME NextIssDelta PROVE Forward
    <3>1. ASSUME NEW e \in Cpus PROVE ClockOf(e)' = ClockOf(e)
      BY <2>7 DEF NextIssDelta, ClockOf
    <3>2. \A e \in Cpus : ClockOf(e) \in Nat
      BY <2>0 DEF ClockOf
    <3>. QED  BY <3>1, <3>2 DEF Forward
  <2>8. ASSUME Advance PROVE Forward
    BY <2>0, <2>8 DEF Advance, Forward, ClockOf
  <2>9. InstrCounts \subseteq Nat
    BY IssAssumption
  <2>10. ASSUME NEW c \in Cpus, iss_update_irq(c) PROVE Forward
    BY <2>1, <2>10 DEF iss_update_irq
  <2>11. ASSUME NEW c \in Cpus, NEW val \in BOOLEAN, iss_update_atomic_flag(c, val) PROVE Forward
    BY <2>1, <2>11 DEF iss_update_atomic_flag
  <2>12. ASSUME NEW c \in Cpus, NEW i \in Timers,
                onTimeout(c, i) \/ \E d \in Deadlines : iss_request_timeout(c, i, d)
         PROVE  Forward
    BY <2>1, <2>12 DEF onTimeout, iss_request_timeout
  <2>. QED  BY <1>1, <2>2, <2>3, <2>4, <2>5, <2>6, <2>7, <2>8, <2>9, <2>10, <2>11, <2>12
            DEF IssNext, iss_rw_sync
<1>2. IssInv /\ [IssNext]_issVars => [Forward]_issVars
  BY <1>1
<1>. QED  BY <1>2, IssInvariance, PTL DEF IssSpec, ClockNotBack, Forward

-----------------------------------------------------------------------------
(***************************************************************************)
(* The path of a memory access: the inductive invariant.                   *)
(***************************************************************************)

\* The memory map gives each address to one memory at most.
MapDisjoint ==
    \A s, t \in BusPorts : \A x \in Memories[s].base .. EndAddress(s) :
        x \in Memories[t].base .. EndAddress(t) => s = t

\* The region a target answers with.
RegionOf(t) == [start |-> Memories[t].base, end |-> EndAddress(t), target |-> t]
BusRegions == {RegionOf(t) : t \in BusPorts}

\* The types of the state.
BusTyped ==
    /\ DOMAIN mLocalMem = BusPorts
    /\ \A t \in BusPorts : mLocalMem[t] \in [0 .. Memories[t].size - 1 -> BusValues]
    /\ mDmiData \in [BusInitiators -> Seq(BusRegions)]
    /\ DOMAIN blockingTLM = BusInitiators /\ DOMAIN written = MemoryAddr

\* The counters of the bus and of the targets.
CountersTyped ==
    /\ read_count_out \in [BusPorts -> Nat] /\ write_count_out \in [BusPorts -> Nat]
    /\ mReadCount \in [BusPorts -> Nat] /\ mWriteCount \in [BusPorts -> Nat]
    /\ refused \in [BusPorts -> Nat]

\* Every memory holds what was written last at its addresses.
MemoriesHold ==
    \A t \in BusPorts : \A x \in Memories[t].base .. EndAddress(t) :
        mLocalMem[t][x - Memories[t].base] = written[x]

\* The inductive invariant.
BusInv ==
    /\ BusTyped /\ MemoriesHold /\ RegionsOnce /\ BlockingLeavesNoRegion
    /\ CountersTyped /\ CountersAgree /\ ReadsSeeWrites /\ MappedAccessAnswered

-----------------------------------------------------------------------------
(***************************************************************************)
(* Memories and regions.                                                   *)
(***************************************************************************)

\* The elements of a sequence.
LEMMA ElementOfSeq ==
    ASSUME NEW T, NEW s \in Seq(T), NEW i \in DOMAIN s
    PROVE  s[i] \in T
  OBVIOUS

\* A function on the first n numbers is a sequence.
LEMMA SeqOfFunction ==
    ASSUME NEW T, NEW n \in Nat, NEW f \in [1 .. n -> T]
    PROVE  f \in Seq(T)
  OBVIOUS

\* Where a memory lies.
LEMMA PortFacts ==
    ASSUME NEW t \in BusPorts
    PROVE  /\ Memories[t].base \in Nat /\ Memories[t].size \in Nat /\ Memories[t].size > 0
           /\ EndAddress(t) \in Nat /\ EndAddress(t) = Memories[t].base + Memories[t].size - 1
           /\ Memories[t].base <= EndAddress(t)
           /\ Memories[t].base .. EndAddress(t) \subseteq MemoryAddr
<1>1. Memories[t] \in [base : Nat, size : Nat \ {0}, dmi : BOOLEAN]
  <2>. DEFINE M == [base : Nat, size : Nat \ {0}, dmi : BOOLEAN]
  <2>1. Memories \in Seq(M) /\ t \in DOMAIN Memories
    BY TlmBusAssumption DEF BusPorts
  <2>. HIDE DEF M
  <2>2. Memories[t] \in M
    BY <2>1, ElementOfSeq
  <2>. QED  BY <2>2 DEF M
<1>2. Memories[t].base \in Nat /\ Memories[t].size \in Nat \ {0}
  BY <1>1
<1>3. /\ EndAddress(t) \in Nat /\ EndAddress(t) = Memories[t].base + Memories[t].size - 1
      /\ Memories[t].base <= EndAddress(t)
  BY <1>2 DEF EndAddress
<1>4. Memories[t].base .. EndAddress(t) \subseteq MemoryAddr
  BY DEF MemoryAddr
<1>. QED  BY <1>2, <1>3, <1>4

\* A region is that of its target.
LEMMA RegionFacts ==
    ASSUME NEW r \in BusRegions
    PROVE  r.target \in BusPorts /\ r = RegionOf(r.target)
           /\ r.start = Memories[r.target].base /\ r.end = EndAddress(r.target)
  BY DEF BusRegions, RegionOf

\* The smallest number of a set of natural numbers is one of them.
LEMMA SmallestOf ==
    ASSUME NEW S \in SUBSET Nat, S # {}
    PROVE  Min(S) \in S
<1>1. PICK x \in S : \A y \in S : ~(<<y, x>> \in OpToRel(<, Nat))
  BY NatLessThanWellFounded, WFMin, Zenon
<1>2. \A y \in S : x <= y
  <2>. SUFFICES ASSUME NEW y \in S, y < x  PROVE FALSE
    OBVIOUS
  <2>1. <<y, x>> \in OpToRel(<, Nat)
    BY DEF OpToRel
  <2>. QED  BY <1>1, <2>1
<1>. QED  BY <1>2 DEF Min

\* Nth lists a finite set of numbers, each once.
LEMMA NthFacts ==
    ASSUME NEW S \in SUBSET Nat, IsFiniteSet(S)
    PROVE  /\ Cardinality(S) \in Nat
           /\ \A n \in 1 .. Cardinality(S) : Nth(S, n) \in S
           /\ \A m, n \in 1 .. Cardinality(S) : Nth(S, m) = Nth(S, n) => m = n
<1>. DEFINE N == Cardinality(S)
            Below(i) == {j \in S : j < i}
            rank == [i \in S |-> Cardinality(Below(i))]
<1>1. N \in Nat
  BY FS_CardinalityType
<1>2. \A i \in S : IsFiniteSet(Below(i)) /\ rank[i] \in Nat
  BY FS_Subset, FS_CardinalityType
<1>3. ASSUME NEW i \in S  PROVE rank[i] < N
  <2>1. Below(i) \in SUBSET S /\ Below(i) # S
    OBVIOUS
  <2>2. Cardinality(Below(i)) <= N /\ Cardinality(Below(i)) # N
    BY <2>1, FS_Subset
  <2>. QED  BY <1>1, <1>2, <2>2
<1>4. ASSUME NEW i \in S, NEW k \in S, i < k  PROVE rank[i] < rank[k]
  <2>1. Below(i) \in SUBSET Below(k) /\ Below(i) # Below(k)
    <3>1. i \in Below(k) /\ i \notin Below(i)
      BY <1>4
    <3>2. \A j \in S : j < i => j < k
      BY <1>4
    <3>. QED  BY <3>1, <3>2
  <2>2. Cardinality(Below(i)) <= Cardinality(Below(k))
        /\ Cardinality(Below(i)) # Cardinality(Below(k))
    BY <1>2, <2>1, FS_Subset
  <2>. QED  BY <1>2, <2>2
<1>5. rank \in [S -> 0 .. N - 1]
  BY <1>1, <1>2, <1>3
<1>6. \A i, k \in S : rank[i] = rank[k] => i = k
  <2>1. \A i, k \in S : i = k \/ i < k \/ k < i
    OBVIOUS
  <2>2. \A i \in S : rank[i] \in Nat
    BY <1>2
  <2>3. \A i, k \in S : i < k => rank[i] < rank[k]
    BY <1>4
  <2>. HIDE DEF rank
  <2>. QED  BY <2>1, <2>2, <2>3
<1>7. IsFiniteSet(0 .. N - 1) /\ Cardinality(0 .. N - 1) = N
  <2>1. 0 \in Int /\ N - 1 \in Int /\ (0 > N - 1 => N = 0) /\ (~(0 > N - 1) => N = N - 1 - 0 + 1)
    BY <1>1
  <2>. HIDE DEF N
  <2>2. /\ IsFiniteSet(0 .. N - 1)
        /\ Cardinality(0 .. N - 1) = IF 0 > N - 1 THEN 0 ELSE N - 1 - 0 + 1
    BY <2>1, FS_Interval
  <2>. QED  BY <2>1, <2>2
<1>8. rank \in Surjection(S, 0 .. N - 1)
  <2>1. rank \in Injection(S, 0 .. N - 1)
    <3>. HIDE DEF rank
    <3>. QED  BY <1>5, <1>6 DEF Injection, IsInjective
  <2>. HIDE DEF rank
  <2>. QED  BY <1>7, <2>1, FS_Injection
<1>9. \A n \in 1 .. N : \E i \in S : Cardinality(Below(i)) = n - 1
  <2>1. \A m \in 0 .. N - 1 : \E i \in S : rank[i] = m
    BY <1>8 DEF Surjection
  <2>2. \A n \in 1 .. N : n - 1 \in 0 .. N - 1
    BY <1>1
  <2>. QED  BY <2>1, <2>2
<1>10. \A n \in 1 .. N : Nth(S, n) \in S /\ Cardinality(Below(Nth(S, n))) = n - 1
  BY <1>9 DEF Nth
<1>. HIDE DEF Below
<1>11. \A m, n \in 1 .. N : Nth(S, m) = Nth(S, n) => m = n
  BY <1>1, <1>10
<1>. QED  BY <1>1, <1>10, <1>11

\* An access that is answered well is one that its target holds.
LEMMA AnsweredFacts ==
    ASSUME NEW t \in BusPorts, NEW a \in BusAccesses, TargetStatus(t, a) = "OK"
    PROVE  /\ a.addr \in Nat /\ a.len \in Nat /\ a.len > 0
           /\ a.cmd \in {"READ", "WRITE"} /\ a.addr \in Touched(a)
           /\ Touched(a) \subseteq Memories[t].base .. EndAddress(t)
<1>1. a.addr \in Nat /\ a.len \in Nat
  BY TlmBusAssumption
<1>2. /\ ~(a.addr < Memories[t].base)
      /\ ~(a.addr + a.len > Memories[t].base + Memories[t].size)
      /\ a.len # 0 /\ a.cmd \in {"READ", "WRITE"}
  BY DEF TargetStatus
<1>. QED  BY <1>1, <1>2, PortFacts DEF Touched

\* An access that a memory holds reaches that memory or another that holds it.
LEMMA PortOf ==
    ASSUME NEW a \in BusAccesses, a.len > 0, ~a.byteEnable, a.cmd \in {"READ", "WRITE"},
           NEW s \in BusPorts, Touched(a) \subseteq Memories[s].base .. EndAddress(s)
    PROVE  /\ get_port(a.addr, a.len) \in BusPorts
           /\ TargetStatus(get_port(a.addr, a.len), a) = "OK"
<1>. DEFINE holds(t) == Memories[t].base <= a.addr /\ a.addr + a.len - 1 <= EndAddress(t)
            hits == {t \in BusPorts : holds(t)}
<1>1. a.addr \in Nat /\ a.len \in Nat
  BY TlmBusAssumption
<1>2. a.addr \in Touched(a) /\ a.addr + a.len - 1 \in Touched(a)
  BY <1>1 DEF Touched
<1>3. s \in hits
  BY <1>1, <1>2, PortFacts
<1>4. hits \in SUBSET Nat
  BY TlmBusAssumption DEF BusPorts
<1>5. Min(hits) \in hits
  BY <1>3, <1>4, SmallestOf
<1>6. Len(Memories) = 1 => s = 1
  BY TlmBusAssumption DEF BusPorts
<1>7. get_port(a.addr, a.len) \in hits
  BY <1>3, <1>5, <1>6 DEF get_port
<1>8. ASSUME NEW t \in hits  PROVE TargetStatus(t, a) = "OK"
  BY <1>1, PortFacts DEF TargetStatus
<1>. QED  BY <1>7, <1>8

\* A region that serves an access holds it.
LEMMA ServedFacts ==
    ASSUME BusTyped, NEW i \in BusInitiators, NEW a \in BusAccesses, DmiRegions(i, a) # {}
    PROVE  \E t \in BusPorts :
             /\ mDmiData[i][Min(DmiRegions(i, a))] = RegionOf(t)
             /\ Touched(a) \subseteq Memories[t].base .. EndAddress(t)
<1>1. DmiRegions(i, a) \subseteq DOMAIN mDmiData[i]
  BY DEF DmiRegions
<1>2. DOMAIN mDmiData[i] \subseteq Nat /\ mDmiData[i] \in Seq(BusRegions)
  BY DEF BusTyped
<1>3. PICK k \in DmiRegions(i, a) : k = Min(DmiRegions(i, a))
  BY <1>1, <1>2, SmallestOf
<1>4. mDmiData[i][k] \in BusRegions
  BY <1>1, <1>2
<1>5. PICK t \in BusPorts : mDmiData[i][k] = RegionOf(t)
  BY <1>4 DEF BusRegions
<1>6. mDmiData[i][k].start <= a.addr /\ a.addr + a.len - 1 <= mDmiData[i][k].end
  BY <1>3 DEF DmiRegions
<1>7. a.addr \in Nat /\ a.len \in Nat
  BY TlmBusAssumption
<1>8. Touched(a) \subseteq Memories[t].base .. EndAddress(t)
  BY <1>5, <1>6, <1>7, PortFacts DEF RegionOf, Touched
<1>. QED  BY <1>3, <1>5, <1>8

-----------------------------------------------------------------------------
(***************************************************************************)
(* The steps of the path of a memory access.                               *)
(***************************************************************************)

\* The bytes of a memory after an access, by their addresses.
LEMMA CopyFacts ==
    ASSUME NEW a, NEW v \in BusValues, NEW t \in BusPorts,
           NEW mem \in [0 .. Memories[t].size - 1 -> BusValues],
           Touched(a) \subseteq Memories[t].base .. EndAddress(t)
    PROVE  /\ Copy(a, v, Memories[t].base, mem) \in [0 .. Memories[t].size - 1 -> BusValues]
           /\ \A x \in Memories[t].base .. EndAddress(t) :
                Copy(a, v, Memories[t].base, mem)[x - Memories[t].base]
                  = IF a.cmd = "WRITE" /\ a.ptr /\ x \in Touched(a) THEN v
                    ELSE mem[x - Memories[t].base]
<1>. DEFINE origin == Memories[t].base
            writes == a.cmd = "WRITE" /\ a.ptr
            offsets == IF writes THEN {y - origin : y \in Touched(a)} ELSE {}
<1>1. offsets \subseteq 0 .. Memories[t].size - 1
  BY PortFacts
<1>2. \A x \in Memories[t].base .. EndAddress(t) :
        /\ x - origin \in 0 .. Memories[t].size - 1
        /\ x - origin \in offsets <=> writes /\ x \in Touched(a)
  BY PortFacts
<1>3. Copy(a, v, origin, mem)
        = [x \in 0 .. Memories[t].size - 1 |-> IF x \in offsets THEN v ELSE mem[x]]
  <2>1. DOMAIN mem \union offsets = 0 .. Memories[t].size - 1
    BY <1>1
  <2>2. Copy(a, v, origin, mem)
          = [x \in DOMAIN mem \union offsets |-> IF x \in offsets THEN v ELSE mem[x]]
    BY DEF Copy
  <2>. QED  BY <2>1, <2>2
<1>. HIDE DEF offsets
<1>4. Copy(a, v, origin, mem) \in [0 .. Memories[t].size - 1 -> BusValues]
  BY <1>3
<1>5. ASSUME NEW x \in Memories[t].base .. EndAddress(t)
      PROVE  Copy(a, v, origin, mem)[x - origin]
               = IF writes /\ x \in Touched(a) THEN v ELSE mem[x - origin]
  BY <1>2, <1>3
<1>. QED  BY <1>4, <1>5

\* An access that a memory serves, over the bus or through a region.
LEMMA ServedKeeps ==
    ASSUME MapDisjoint, BusInv, NEW a \in BusAccesses, NEW v \in BusValues, NEW t \in BusPorts,
           Touched(a) \subseteq Memories[t].base .. EndAddress(t),
           mLocalMem' = [mLocalMem EXCEPT ![t] = Copy(a, v, Memories[t].base, @)],
           Record(a, v, "OK")
    PROVE  /\ DOMAIN mLocalMem' = BusPorts /\ DOMAIN written' = MemoryAddr
           /\ \A s \in BusPorts : mLocalMem'[s] \in [0 .. Memories[s].size - 1 -> BusValues]
           /\ MemoriesHold'
           /\ a.cmd = "READ" /\ a.ptr =>
                ReadBytes(a, Memories[t].base, mLocalMem[t]) = [x \in Touched(a) |-> written'[x]]
<1>. DEFINE copied == Copy(a, v, Memories[t].base, mLocalMem[t])
            writes == a.cmd = "WRITE" /\ a.ptr
<1>1. /\ DOMAIN mLocalMem = BusPorts
      /\ \A s \in BusPorts : mLocalMem[s] \in [0 .. Memories[s].size - 1 -> BusValues]
  BY DEF BusInv, BusTyped
<1>2. /\ copied \in [0 .. Memories[t].size - 1 -> BusValues]
      /\ \A x \in Memories[t].base .. EndAddress(t) :
           copied[x - Memories[t].base]
             = IF writes /\ x \in Touched(a) THEN v ELSE mLocalMem[t][x - Memories[t].base]
  BY <1>1, CopyFacts
<1>3. /\ DOMAIN written' = MemoryAddr
      /\ \A x \in MemoryAddr : written'[x] = IF writes /\ x \in Touched(a) THEN v ELSE written[x]
  BY DEF Record
<1>4. /\ DOMAIN mLocalMem' = BusPorts
      /\ \A s \in BusPorts : mLocalMem'[s] = IF s = t THEN copied ELSE mLocalMem[s]
  BY <1>1
<1>. HIDE DEF copied
<1>5. \A s \in BusPorts : mLocalMem'[s] \in [0 .. Memories[s].size - 1 -> BusValues]
  BY <1>1, <1>2, <1>4
<1>6. ASSUME NEW s \in BusPorts, NEW x \in Memories[s].base .. EndAddress(s)
      PROVE  mLocalMem'[s][x - Memories[s].base] = written'[x]
  <2>1. x \in MemoryAddr /\ mLocalMem[s][x - Memories[s].base] = written[x]
    BY PortFacts DEF BusInv, MemoriesHold
  <2>2. CASE s = t
    BY <1>2, <1>3, <1>4, <2>1, <2>2
  <2>3. CASE s # t
    <3>1. x \notin Touched(a)
      BY <2>3 DEF MapDisjoint
    <3>. QED  BY <1>3, <1>4, <2>1, <2>3, <3>1
  <2>. QED  BY <2>2, <2>3
<1>7. MemoriesHold'
  BY <1>6 DEF MemoriesHold
<1>8. ASSUME a.cmd = "READ", a.ptr
      PROVE  ReadBytes(a, Memories[t].base, mLocalMem[t]) = [x \in Touched(a) |-> written'[x]]
  <2>1. \A x \in Touched(a) : /\ x \in MemoryAddr
                              /\ mLocalMem[t][x - Memories[t].base] = written[x]
    BY PortFacts DEF BusInv, MemoriesHold
  <2>2. \A x \in Touched(a) : written'[x] = mLocalMem[t][x - Memories[t].base]
    BY <1>3, <1>8, <2>1
  <2>. QED  BY <1>8, <2>2 DEF ReadBytes
<1>. QED  BY <1>3, <1>4, <1>5, <1>7, <1>8

\* The invariant holds at the start.
LEMMA InitBus == TlmInit => BusInv
<1>. SUFFICES ASSUME TlmInit PROVE BusInv
  OBVIOUS
<1>1. InitialValue \in BusValues
  BY TlmBusAssumption DEF InitialValue
<1>2. BusTyped
  BY <1>1 DEF TlmInit, BusTyped
<1>3. MemoriesHold
  <2>. SUFFICES ASSUME NEW t \in BusPorts, NEW x \in Memories[t].base .. EndAddress(t)
                PROVE  mLocalMem[t][x - Memories[t].base] = written[x]
    BY DEF MemoriesHold
  <2>1. x - Memories[t].base \in 0 .. Memories[t].size - 1 /\ x \in MemoryAddr
    BY PortFacts
  <2>. QED  BY <2>1 DEF TlmInit
<1>4. RegionsOnce /\ BlockingLeavesNoRegion
  <2>1. \A i \in BusInitiators : mDmiData[i] = <<>>
    BY DEF TlmInit
  <2>. QED  BY <2>1 DEF RegionsOnce, BlockingLeavesNoRegion, Range
<1>5. CountersTyped /\ CountersAgree
  BY DEF TlmInit, CountersTyped, CountersAgree
<1>6. ReadsSeeWrites /\ MappedAccessAnswered
  BY DEF TlmInit, ReadsSeeWrites, MappedAccessAnswered
<1>. QED  BY <1>2, <1>3, <1>4, <1>5, <1>6 DEF BusInv

\* What is said of the answer to an access a, where now is what was written last.
AnswerInv(a, status, bytes, now) ==
    /\ status = "OK" /\ a.cmd = "READ" /\ a.ptr =>
         bytes = [x \in Touched(a) |-> now[x]]
    /\ a.len > 0 /\ ~a.byteEnable /\ a.cmd \in {"READ", "WRITE"}
       /\ (\E t \in BusPorts : Touched(a) \subseteq Memories[t].base .. EndAddress(t))
         => status = "OK"

LEMMA ReplyKeeps ==
    ASSUME NEW i, NEW a, NEW status, NEW bytes, NEW delay, Reply(i, a, status, bytes, delay),
           AnswerInv(a, status, bytes, written')
    PROVE  ReadsSeeWrites' /\ MappedAccessAnswered'
<1>1. answer'.access = a /\ answer'.status = status /\ answer'.bytes = bytes
  BY DEF Reply
<1>. QED  BY <1>1 DEF AnswerInv, ReadsSeeWrites, MappedAccessAnswered, Touched

\* The regions are those that were.
LEMMA RegionsKept ==
    ASSUME BusInv, UNCHANGED <<mDmiData, blockingTLM>>
    PROVE  /\ mDmiData' \in [BusInitiators -> Seq(BusRegions)]
           /\ DOMAIN blockingTLM' = BusInitiators
           /\ RegionsOnce' /\ BlockingLeavesNoRegion'
  BY DEF BusInv, BusTyped, RegionsOnce, BlockingLeavesNoRegion

\* An access through a region.
LEMMA DmiKeeps ==
    ASSUME MapDisjoint, BusInv, NEW i \in BusInitiators, NEW a \in BusAccesses,
           NEW v \in BusValues, dmi_access(i, a, v)
    PROVE  BusInv'
<1>. DEFINE region == mDmiData[i][Min(DmiRegions(i, a))]
            bytes == ReadBytes(a, region.start, mLocalMem[region.target])
<1>1. PICK t \in BusPorts : /\ region = RegionOf(t)
                            /\ Touched(a) \subseteq Memories[t].base .. EndAddress(t)
  BY ServedFacts DEF dmi_access, BusInv
<1>2. region.start = Memories[t].base /\ region.target = t
  BY <1>1 DEF RegionOf
<1>3. /\ mLocalMem' = [mLocalMem EXCEPT ![region.target] = Copy(a, v, region.start, @)]
      /\ Reply(i, a, "OK", bytes, 0) /\ Record(a, v, "OK")
      /\ UNCHANGED <<mDmiData, blockingTLM, read_count_out, write_count_out, mReadCount,
                     mWriteCount, refused>>
  BY DEF dmi_access
<1>. HIDE DEF region
<1>4. mLocalMem' = [mLocalMem EXCEPT ![t] = Copy(a, v, Memories[t].base, @)]
  BY <1>2, <1>3
<1>5. /\ DOMAIN mLocalMem' = BusPorts /\ DOMAIN written' = MemoryAddr
      /\ \A s \in BusPorts : mLocalMem'[s] \in [0 .. Memories[s].size - 1 -> BusValues]
      /\ MemoriesHold'
      /\ a.cmd = "READ" /\ a.ptr => bytes = [x \in Touched(a) |-> written'[x]]
  <2>1. bytes = ReadBytes(a, Memories[t].base, mLocalMem[t])
    BY <1>2
  <2>2. Record(a, v, "OK") /\ Touched(a) \subseteq Memories[t].base .. EndAddress(t)
    BY <1>1, <1>3
  <2>. HIDE DEF bytes
  <2>. QED  BY <2>1, <2>2, <1>4, ServedKeeps
<1>6. BusTyped' /\ RegionsOnce' /\ BlockingLeavesNoRegion'
  BY <1>3, <1>5, RegionsKept DEF BusTyped
<1>7. CountersTyped' /\ CountersAgree'
  BY <1>3 DEF BusInv, CountersTyped, CountersAgree
<1>. HIDE DEF bytes
<1>8. AnswerInv(a, "OK", bytes, written')
  BY <1>5 DEF AnswerInv, Touched
<1>9. ReadsSeeWrites' /\ MappedAccessAnswered'
  BY <1>3, <1>8, ReplyKeeps
<1>. QED  BY <1>5, <1>6, <1>7, <1>9 DEF BusInv

\* A region that the bus brings: the socket did not have it, and it is not all
\* blocking.
LEMMA GrantedKeeps ==
    ASSUME BusInv, NEW i \in BusInitiators, NEW a \in BusAccesses, NEW t \in BusPorts,
           DmiRegions(i, a) = {}, TargetStatus(t, a) = "OK", a.addr \notin blockingTLM[i],
           mDmiData' = [mDmiData EXCEPT ![i] = @ \o GrantedRegion(i, t, a)],
           UNCHANGED blockingTLM
    PROVE  /\ mDmiData' \in [BusInitiators -> Seq(BusRegions)]
           /\ DOMAIN blockingTLM' = BusInitiators
           /\ RegionsOnce' /\ BlockingLeavesNoRegion'
<1>. DEFINE old == mDmiData[i]
            new == mDmiData'[i]
<1>1. /\ mDmiData \in [BusInitiators -> Seq(BusRegions)] /\ DOMAIN blockingTLM = BusInitiators
      /\ old \in Seq(BusRegions)
  BY DEF BusInv, BusTyped
<1>2. CASE GrantedRegion(i, t, a) = <<>>
  <2>1. old \o GrantedRegion(i, t, a) = old
    BY <1>1, <1>2
  <2>2. mDmiData' = mDmiData
    BY <1>1, <2>1
  <2>. QED  BY <2>2, RegionsKept
<1>3. CASE GrantedRegion(i, t, a) # <<>>
  <2>1. /\ GrantedRegion(i, t, a) = <<RegionOf(t)>>
        /\ Touched(a) \intersect blockingTLM[i] = {}
    BY <1>3 DEF GrantedRegion, RegionOf
  <2>2. /\ a.addr \in Nat /\ a.len \in Nat /\ a.cmd \in {"READ", "WRITE"} /\ a.addr \in Touched(a)
        /\ Touched(a) \subseteq Memories[t].base .. EndAddress(t)
        /\ a.addr + a.len - 1 \in Touched(a)
    BY AnsweredFacts DEF Touched
  <2>3. RegionOf(t) \in BusRegions
    BY DEF BusRegions
  <2>4. new = Append(old, RegionOf(t)) /\ \A j \in BusInitiators \ {i} : mDmiData'[j] = mDmiData[j]
    BY <1>1, <2>1, <2>3
  <2>. HIDE DEF new
  <2>5. /\ new \in Seq(BusRegions) /\ DOMAIN new = 1 .. Len(old) + 1 /\ Len(old) \in Nat
        /\ DOMAIN old = 1 .. Len(old)
        /\ \A k \in DOMAIN old : new[k] = old[k]
        /\ new[Len(old) + 1] = RegionOf(t)
    BY <1>1, <2>3, <2>4
  <2>6. mDmiData' \in [BusInitiators -> Seq(BusRegions)]
    BY <1>1, <2>4, <2>5 DEF new
  <2>7. \A k \in DOMAIN old : old[k].target # t
    <3>. SUFFICES ASSUME NEW k \in DOMAIN old, old[k].target = t PROVE FALSE
      OBVIOUS
    <3>1. old[k].start = Memories[t].base /\ old[k].end = EndAddress(t)
      BY <1>1, ElementOfSeq, RegionFacts
    <3>2. old[k].start <= a.addr /\ a.addr + a.len - 1 <= old[k].end
      BY <2>2, <3>1, PortFacts
    <3>. QED  BY <2>2, <3>2 DEF DmiRegions
  <2>8. RegionsOnce'
    <3>. SUFFICES ASSUME NEW h \in BusInitiators, NEW j \in DOMAIN mDmiData'[h],
                         NEW k \in DOMAIN mDmiData'[h],
                         mDmiData'[h][j].target = mDmiData'[h][k].target
                  PROVE  j = k
      BY DEF RegionsOnce
    <3>1. CASE h # i
      BY <2>4, <3>1 DEF BusInv, RegionsOnce
    <3>2. CASE h = i
      <4>1. /\ j \in DOMAIN new /\ k \in DOMAIN new /\ new[j].target = new[k].target
            /\ RegionOf(t).target = t
        BY <3>2 DEF new, RegionOf
      <4>2. \A m, n \in DOMAIN old : old[m].target = old[n].target => m = n
        BY DEF BusInv, RegionsOnce
      <4>. HIDE DEF old
      <4>. QED  BY <4>1, <4>2, <2>5, <2>7
    <3>. QED  BY <3>1, <3>2
  <2>9. BlockingLeavesNoRegion'
    <3>. SUFFICES ASSUME NEW h \in BusInitiators, NEW k \in DOMAIN mDmiData'[h]
                  PROVE  ~(mDmiData'[h][k].start .. mDmiData'[h][k].end \subseteq blockingTLM[h])
      BY DEF BlockingLeavesNoRegion, Range
    <3>0. \A m \in DOMAIN mDmiData[h] :
            ~(mDmiData[h][m].start .. mDmiData[h][m].end \subseteq blockingTLM[h])
      BY DEF BusInv, BlockingLeavesNoRegion, Range
    <3>1. CASE h # i
      BY <2>4, <3>0, <3>1
    <3>2. CASE h = i /\ k \in DOMAIN old
      BY <2>5, <3>0, <3>2 DEF new
    <3>3. CASE h = i /\ k \notin DOMAIN old
      <4>1. mDmiData'[h][k] = RegionOf(t)
        BY <2>5, <3>3 DEF new
      <4>2. a.addr \in RegionOf(t).start .. RegionOf(t).end
        BY <2>2 DEF RegionOf
      <4>. QED  BY <3>3, <4>1, <4>2
    <3>. QED  BY <3>1, <3>2, <3>3
  <2>. QED  BY <1>1, <2>6, <2>8, <2>9
<1>. QED  BY <1>2, <1>3

\* The bus sends an access to one of its ports, or to none.
LEMMA PortRange ==
    ASSUME NEW addr, NEW len
    PROVE  get_port(addr, len) \in BusPorts \union {0}
<1>. DEFINE hits == {t \in BusPorts : Memories[t].base <= addr /\ addr + len - 1 <= EndAddress(t)}
<1>1. BusPorts = 1 .. Len(Memories) /\ Len(Memories) \in Nat /\ BusPorts \subseteq Nat
  BY TlmBusAssumption DEF BusPorts
<1>2. hits \in SUBSET Nat /\ hits \subseteq BusPorts
  BY <1>1
<1>3. hits # {} => Min(hits) \in BusPorts
  BY <1>2, SmallestOf
<1>4. mDefaultRoute \in BusPorts \union {0}
  BY <1>1, TlmBusAssumption
<1>5. Len(Memories) = 1 => 1 \in BusPorts
  BY <1>1
<1>. QED  BY <1>3, <1>4, <1>5 DEF get_port

\* An access over the bus.
LEMMA TransportKeeps ==
    ASSUME MapDisjoint, BusInv, NEW i \in BusInitiators, NEW a \in BusAccesses,
           NEW v \in BusValues, target_mem_access(i, a, v)
    PROVE  BusInv'
<1>. DEFINE t == get_port(a.addr, a.len)
            status == TargetStatus(t, a)
            bytes == IF status = "OK" THEN ReadBytes(a, Memories[t].base, mLocalMem[t]) ELSE <<>>
            delay == AccessLatency + (IF status = "OK" THEN a.len * WordLatency ELSE 0)
<1>1. CASE t = 0
  <2>1. UNCHANGED <<mLocalMem, mDmiData, blockingTLM, read_count_out, write_count_out, mReadCount,
                    mWriteCount, answer, written, refused>>
    BY <1>1 DEF target_mem_access
  <2>. QED  BY <2>1 DEF BusInv, BusTyped, CountersTyped, MemoriesHold, RegionsOnce,
                        BlockingLeavesNoRegion, CountersAgree, ReadsSeeWrites, MappedAccessAnswered
<1>2. CASE t # 0
  <2>1. t \in BusPorts
    BY <1>2, PortRange
  <2>2. /\ mLocalMem' = [mLocalMem EXCEPT ![t] =
                           IF status = "OK" THEN Copy(a, v, Memories[t].base, @) ELSE @]
        /\ Reply(i, a, status, bytes, delay)
        /\ Record(a, v, status)
        /\ mDmiData' = IF status = "OK" /\ a.addr \notin blockingTLM[i]
                       THEN [mDmiData EXCEPT ![i] = @ \o GrantedRegion(i, t, a)]
                       ELSE mDmiData
        /\ blockingTLM' = blockingTLM /\ DmiRegions(i, a) = {}
    BY <1>2 DEF target_mem_access
  <2>3. /\ IF a.cmd = "WRITE"
           THEN /\ write_count_out' = [write_count_out EXCEPT ![t] = @ + a.len]
                /\ UNCHANGED read_count_out
           ELSE /\ read_count_out' = [read_count_out EXCEPT ![t] = @ + a.len]
                /\ UNCHANGED write_count_out
        /\ mWriteCount' = [mWriteCount EXCEPT ![t] =
                             IF status = "OK" /\ a.cmd = "WRITE" THEN @ + a.len ELSE @]
        /\ mReadCount' = [mReadCount EXCEPT ![t] =
                             IF status = "OK" /\ a.cmd = "READ" THEN @ + a.len ELSE @]
        /\ refused' = [refused EXCEPT ![t] = IF status = "OK" THEN @ ELSE @ + a.len]
    BY <1>2 DEF target_mem_access
  <2>4. status = "OK" => a.cmd \in {"READ", "WRITE"}
    BY <2>1, AnsweredFacts
  <2>5. a.len > 0 /\ ~a.byteEnable /\ a.cmd \in {"READ", "WRITE"}
        /\ (\E s \in BusPorts : Touched(a) \subseteq Memories[s].base .. EndAddress(s))
          => status = "OK"
    BY PortOf
  <2>6. a.len \in Nat
    BY TlmBusAssumption
  <2>7. CountersTyped' /\ CountersAgree'
    <3>. HIDE DEF t, status
    <3>1. CountersTyped'
      BY <2>1, <2>3, <2>6 DEF BusInv, CountersTyped
    <3>2. ASSUME NEW s \in BusPorts
          PROVE  read_count_out'[s] + write_count_out'[s]
                   = mReadCount'[s] + mWriteCount'[s] + refused'[s]
      <4>1. /\ read_count_out[s] \in Nat /\ write_count_out[s] \in Nat /\ mReadCount[s] \in Nat
            /\ mWriteCount[s] \in Nat /\ refused[s] \in Nat
            /\ read_count_out[s] + write_count_out[s]
                 = mReadCount[s] + mWriteCount[s] + refused[s]
        BY DEF BusInv, CountersTyped, CountersAgree
      <4>2. CASE s # t
        BY <2>1, <2>3, <4>1, <4>2 DEF BusInv, CountersTyped
      <4>3. CASE s = t
        BY <2>1, <2>3, <2>4, <2>6, <4>1, <4>3 DEF BusInv, CountersTyped
      <4>. QED  BY <4>2, <4>3
    <3>. QED  BY <3>1, <3>2 DEF CountersAgree
  <2>8. CASE status = "OK"
    <3>1. Touched(a) \subseteq Memories[t].base .. EndAddress(t)
      BY <2>1, <2>8, AnsweredFacts
    <3>2. /\ mLocalMem' = [mLocalMem EXCEPT ![t] = Copy(a, v, Memories[t].base, @)]
          /\ Record(a, v, "OK") /\ bytes = ReadBytes(a, Memories[t].base, mLocalMem[t])
      BY <2>2, <2>8
    <3>. HIDE DEF t, bytes, delay
    <3>3. /\ DOMAIN mLocalMem' = BusPorts /\ DOMAIN written' = MemoryAddr
          /\ \A s \in BusPorts : mLocalMem'[s] \in [0 .. Memories[s].size - 1 -> BusValues]
          /\ MemoriesHold'
          /\ a.cmd = "READ" /\ a.ptr => bytes = [x \in Touched(a) |-> written'[x]]
      BY <2>1, <3>1, <3>2, ServedKeeps
    <3>4. /\ mDmiData' \in [BusInitiators -> Seq(BusRegions)]
          /\ DOMAIN blockingTLM' = BusInitiators
          /\ RegionsOnce' /\ BlockingLeavesNoRegion'
      BY <2>1, <2>2, <2>8, GrantedKeeps, RegionsKept
    <3>5. BusTyped'
      BY <3>3, <3>4 DEF BusTyped
    <3>. HIDE DEF status
    <3>6. AnswerInv(a, status, bytes, written')
      BY <2>5, <3>3 DEF AnswerInv
    <3>7. ReadsSeeWrites' /\ MappedAccessAnswered'
      BY <2>2, <3>6, ReplyKeeps
    <3>. QED  BY <2>7, <3>3, <3>4, <3>5, <3>7 DEF BusInv
  <2>9. CASE status # "OK"
    <3>1. /\ DOMAIN mLocalMem' = BusPorts /\ \A s \in BusPorts : mLocalMem'[s] = mLocalMem[s]
          /\ mDmiData' = mDmiData
      <4>. HIDE DEF t, status
      <4>. QED  BY <2>1, <2>2, <2>9 DEF BusInv, BusTyped
    <3>2. DOMAIN written' = MemoryAddr /\ \A x \in MemoryAddr : written'[x] = written[x]
      BY <2>2, <2>9 DEF Record
    <3>3. /\ mDmiData' \in [BusInitiators -> Seq(BusRegions)]
          /\ DOMAIN blockingTLM' = BusInitiators
          /\ RegionsOnce' /\ BlockingLeavesNoRegion'
      BY <2>2, <3>1, RegionsKept
    <3>4. BusTyped' /\ MemoriesHold'
      BY <3>1, <3>2, <3>3, PortFacts DEF BusInv, BusTyped, MemoriesHold
    <3>. HIDE DEF t, status, bytes, delay
    <3>5. AnswerInv(a, status, bytes, written')
      BY <2>5, <2>9 DEF AnswerInv
    <3>6. ReadsSeeWrites' /\ MappedAccessAnswered'
      BY <2>2, <3>5, ReplyKeeps
    <3>. QED  BY <2>7, <3>3, <3>4, <3>6 DEF BusInv
  <2>. QED  BY <2>8, <2>9
<1>. QED  BY <1>1, <1>2

\* A change of the blocking addresses.
LEMMA BlockingKeeps ==
    ASSUME BusInv, NEW i \in BusInitiators, NEW s \in BlockingRanges, setBlocking(i, s)
    PROVE  BusInv'
<1>. DEFINE old == mDmiData[i]
            kept == {k \in DOMAIN old : (old[k].start .. old[k].end) \intersect s = {}}
            new == [n \in 1 .. Cardinality(kept) |-> old[Nth(kept, n)]]
<1>1. /\ mDmiData \in [BusInitiators -> Seq(BusRegions)] /\ DOMAIN blockingTLM = BusInitiators
      /\ old \in Seq(BusRegions) /\ DOMAIN old = 1 .. Len(old) /\ Len(old) \in Nat
  BY DEF BusInv, BusTyped
<1>2. mDmiData' = [mDmiData EXCEPT ![i] = new] /\ blockingTLM' = [blockingTLM EXCEPT ![i] = s]
  BY DEF setBlocking, updateHook
<1>3. /\ answer' = <<>>
      /\ UNCHANGED <<mLocalMem, read_count_out, write_count_out, mReadCount, mWriteCount,
                     written, refused>>
  BY DEF setBlocking
<1>4. kept \in SUBSET Nat /\ IsFiniteSet(kept)
  <2>1. IsFiniteSet(1 .. Len(old))
    BY <1>1, FS_Interval
  <2>. QED  BY <1>1, <2>1, FS_Subset
<1>5. /\ Cardinality(kept) \in Nat
      /\ \A n \in 1 .. Cardinality(kept) : Nth(kept, n) \in kept
      /\ \A m, n \in 1 .. Cardinality(kept) : Nth(kept, m) = Nth(kept, n) => m = n
  BY <1>4, NthFacts
<1>6. \A k \in kept : /\ k \in DOMAIN old /\ old[k] \in BusRegions
                      /\ (old[k].start .. old[k].end) \intersect s = {}
  BY <1>1, ElementOfSeq
<1>7. /\ new \in Seq(BusRegions) /\ DOMAIN new = 1 .. Cardinality(kept)
      /\ \A n \in DOMAIN new : new[n] = old[Nth(kept, n)]
  <2>1. \A n \in 1 .. Cardinality(kept) : old[Nth(kept, n)] \in BusRegions
    BY <1>5, <1>6
  <2>. HIDE DEF kept, old
  <2>2. DOMAIN new = 1 .. Cardinality(kept) /\ \A n \in DOMAIN new : new[n] = old[Nth(kept, n)]
    OBVIOUS
  <2>3. new \in [1 .. Cardinality(kept) -> BusRegions]
    BY <2>1
  <2>. HIDE DEF new
  <2>4. new \in Seq(BusRegions)
    BY <1>5, <2>3, SeqOfFunction
  <2>. QED  BY <2>2, <2>4
<1>8. DOMAIN mDmiData' = BusInitiators
      /\ \A h \in BusInitiators : /\ mDmiData'[h] = IF h = i THEN new ELSE mDmiData[h]
                                  /\ blockingTLM'[h] = IF h = i THEN s ELSE blockingTLM[h]
  BY <1>1, <1>2
<1>. HIDE DEF kept, new
<1>9. mDmiData' \in [BusInitiators -> Seq(BusRegions)] /\ DOMAIN blockingTLM' = BusInitiators
  BY <1>1, <1>2, <1>7
<1>10. RegionsOnce'
  <2>. SUFFICES ASSUME NEW h \in BusInitiators, NEW j \in DOMAIN mDmiData'[h],
                       NEW k \in DOMAIN mDmiData'[h],
                       mDmiData'[h][j].target = mDmiData'[h][k].target
                PROVE  j = k
    BY DEF RegionsOnce
  <2>0. \A m, n \in DOMAIN mDmiData[h] : mDmiData[h][m].target = mDmiData[h][n].target => m = n
    BY DEF BusInv, RegionsOnce
  <2>1. CASE h # i
    BY <1>8, <2>0, <2>1
  <2>2. CASE h = i
    <3>1. /\ j \in 1 .. Cardinality(kept) /\ k \in 1 .. Cardinality(kept)
          /\ old[Nth(kept, j)].target = old[Nth(kept, k)].target
      BY <1>7, <1>8, <2>2
    <3>2. Nth(kept, j) = Nth(kept, k)
      BY <1>5, <1>6, <2>0, <2>2, <3>1
    <3>. QED  BY <1>5, <3>1, <3>2
  <2>. QED  BY <2>1, <2>2
<1>11. BlockingLeavesNoRegion'
  <2>. SUFFICES ASSUME NEW h \in BusInitiators, NEW k \in DOMAIN mDmiData'[h]
                PROVE  ~(mDmiData'[h][k].start .. mDmiData'[h][k].end \subseteq blockingTLM'[h])
    BY DEF BlockingLeavesNoRegion, Range
  <2>1. CASE h # i
    BY <1>8, <2>1 DEF BusInv, BlockingLeavesNoRegion, Range
  <2>2. CASE h = i
    <3>. DEFINE r == new[k]
    <3>1. r \in BusRegions /\ (r.start .. r.end) \intersect s = {}
      BY <1>5, <1>6, <1>7, <1>8, <2>2
    <3>2. r.start \in r.start .. r.end
      BY <3>1, RegionFacts, PortFacts
    <3>. QED  BY <1>8, <2>2, <3>1, <3>2
  <2>. QED  BY <2>1, <2>2
<1>12. BusTyped' /\ MemoriesHold' /\ CountersTyped' /\ CountersAgree'
  BY <1>3, <1>9 DEF BusInv, BusTyped, MemoriesHold, CountersTyped, CountersAgree
<1>13. ReadsSeeWrites' /\ MappedAccessAnswered'
  BY <1>3 DEF ReadsSeeWrites, MappedAccessAnswered
<1>. QED  BY <1>10, <1>11, <1>12, <1>13 DEF BusInv

\* Every step keeps the invariant.
LEMMA BusStep == MapDisjoint /\ BusInv /\ [TlmNext]_tlmVars => BusInv'
<1>. SUFFICES ASSUME MapDisjoint, BusInv, [TlmNext]_tlmVars PROVE BusInv'
  OBVIOUS
<1>1. CASE UNCHANGED tlmVars
  BY <1>1 DEF tlmVars, BusInv, BusTyped, CountersTyped, MemoriesHold, RegionsOnce,
              BlockingLeavesNoRegion, CountersAgree, ReadsSeeWrites, MappedAccessAnswered
<1>. QED  BY <1>1, DmiKeeps, TransportKeeps, BlockingKeeps DEF TlmNext

\* Every memory holds what was written last, and the sockets' regions are those of
\* memories they do not have to ask about, for any memory map without overlaps.
THEOREM BusInvariance ==
  ASSUME MapDisjoint
  PROVE  TlmSpec => []BusInv
BY InitBus, BusStep, PTL DEF TlmSpec

\* Accesses through the direct regions of ForwardSimpleSocket and over the bus see one
\* memory, under any change of the blocking addresses, and every byte is counted, for
\* any initiators, any accesses and any memory map without overlaps.
THEOREM OneMemory ==
  ASSUME MapDisjoint
  PROVE  TlmSpec => []BusSeesOneMemory
<1>1. BusInv => BusSeesOneMemory
  <2>. SUFFICES ASSUME BusInv PROVE TlmTypeOK
    BY DEF BusInv, BusSeesOneMemory
  <2>1. \A i \in BusInitiators : \A r \in Range(mDmiData[i]) : r \in BusRegions
    BY ElementOfSeq DEF BusInv, BusTyped, Range
  <2>. QED  BY <2>1, RegionFacts DEF BusInv, BusTyped, TlmTypeOK
<1>. QED  BY <1>1, BusInvariance, PTL
=============================================================================
