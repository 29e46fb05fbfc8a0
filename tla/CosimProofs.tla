---------------------------- MODULE CosimProofs ----------------------------
(***************************************************************************)
(* Proofs about the two ways VPSim runs with another simulator:            *)
(* MainMemCosim, whose accesses are replayed by a thread, and RemoteLink,  *)
(* the pair that sends them to another process.                            *)
(***************************************************************************)
EXTENDS MainMemCosim, RemoteLink, SequenceTheorems, TLAPS

-----------------------------------------------------------------------------
(***************************************************************************)
(* The inductive invariant, without the benchmark commands.                *)
(***************************************************************************)

\* Run works on the epoch it announced, has a request in hand exactly between
\* popping and playing it, and the ISS side is stopped when Stop was called.
ControlInv ==
  /\ Stopped <=> isspc \in {"join", "end"}
  /\ runpc \in {"wait", "pop", "lock", "play", "next", "unlock", "bump"} =>
       tmpMemEpoch = MemEpoch
  /\ runpc \in {"lock", "play"} => k \in Req /\ k.epoch = tmpMemEpoch
  /\ runpc \notin {"lock", "play"} => k = None
  /\ ~focusOnROI => notifying

\* No request is of an epoch before the one of Run, or after the one of the ISS
\* side; an epoch Run has finished has no request left.
EpochInv ==
  /\ ~Stopped => MemEpoch <= CpuEpoch
  /\ ~Stopped /\ runpc \in {"pop", "lock", "play", "next", "unlock", "leave", "bump"} =>
       tmpMemEpoch < CpuEpoch
  /\ \A r \in PQ : r.epoch <= CpuEpoch /\ r.epoch >= MemEpoch
  /\ runpc \in {"unlock", "bump"} => \A r \in PQ : r.epoch > MemEpoch
  /\ FillWorks => MemEpoch + EPOCHS > CpuEpoch
  /\ ~focusOnROI => CpuEpoch <= MemEpoch + EPOCHS
  /\ ~focusOnROI /\ isspc \in {"run", "time"} => CpuEpoch < MemEpoch + EPOCHS

\* A slot holds requests that were played and fall in it; without ROI what is
\* older than the ring is long, FillBiases has collected.
SlotInv ==
  \A s \in 0 .. EPOCHS - 1 : \A r \in mTimes[s] :
    /\ Slot(r.epoch) = s
    /\ ~Stopped => r.epoch < CpuEpoch
    /\ ~focusOnROI => r.epoch + EPOCHS >= CpuEpoch
    /\ ~focusOnROI /\ isspc \in {"run", "time"} => r.epoch + EPOCHS > CpuEpoch

\* Nothing that is still to be played belongs before what was played last or is
\* being played.
OrderInv ==
  /\ \A r \in Pending : ~Before(r, last)
  /\ ~Stopped /\ last # None => last.epoch < CpuEpoch
  /\ k # None => \A r \in PQ : ~Before(r, k)

IInv == TypeOK /\ ControlInv /\ EpochInv /\ SlotInv /\ OrderInv

-----------------------------------------------------------------------------
(***************************************************************************)
(* The inductive invariant of the benchmark commands.                      *)
(***************************************************************************)

\* The accesses a capture in ROI mode must count.
Counted == {"CPU", "DEVICE"}

\* At most one benchmark is on its way: its start before its end, and both are
\* gone when it is captured.
BenchInv ==
  /\ ~delayedCaptureRunning =>
       /\ ~capturing /\ ~mInBenchmark
       /\ \A r \in Pending : r.type \notin {"START", "END"}
  /\ mInBenchmark => \A r \in Pending : r.type # "END"
  /\ \A r, s \in Pending : r.type = "END" /\ s.type = "END" => r = s
  /\ k.type = "END" => \A r \in PQ : r.type # "END"
  /\ \A r, s \in Pending : r.type = "START" /\ s.type = "END" => Before(r, s)
  /\ \A r \in Pending : r.type = "START" =>
       \/ r.epoch < CpuEpoch
       \/ isspc \in {"run", "join", "end"} /\ r.time_stamp < scTime

\* In ROI mode what is counted lies between the start and the end of its
\* benchmark.
RoiInv ==
  focusOnROI =>
    /\ notifying = mInBenchmark
    /\ delayedCaptureRunning => capturing \/ \E s \in Pending : s.type = "START"
    /\ \A r \in Pending : r.type \in Counted =>
         /\ delayedCaptureRunning
         /\ \A s \in Pending : /\ s.type = "START" => Before(s, r)
                               /\ s.type = "END" => Before(r, s)
         /\ \/ r.epoch < CpuEpoch
            \/ isspc \in {"run", "join", "end"} /\ r.time_stamp <= scTime + MAX_QUANTUM

\* The time stays below what a time stamp holds: step bounds the time of a
\* quantum.
TimeInv(step) ==
  /\ scTime <= step * CpuEpoch
  /\ isspc \in {"wait", "lock", "fill", "time"} => scTime + step <= step * CpuEpoch
  /\ CpuEpoch <= MaxEpoch

-----------------------------------------------------------------------------
(***************************************************************************)
(* Arithmetic of the ring.                                                 *)
(***************************************************************************)

\* Two epochs less than a ring apart have different slots.
LEMMA SlotsApart ==
  ASSUME NEW a \in Nat, NEW b \in Nat, a < b, b < a + EPOCHS
  PROVE  Slot(a) # Slot(b)
<1>. DEFINE qa == a \div EPOCHS  qb == b \div EPOCHS
<1>1. /\ qa \in Nat /\ qb \in Nat
      /\ a = EPOCHS * qa + (a % EPOCHS) /\ b = EPOCHS * qb + (b % EPOCHS)
  BY EpochsAssumption
<1>2. ASSUME a % EPOCHS = b % EPOCHS PROVE FALSE
  <2>1. b - a = EPOCHS * (qb - qa)
    BY <1>1, <1>2, EpochsAssumption
  <2>2. CASE qb - qa <= 0
    BY <2>1, <2>2, <1>1, EpochsAssumption
  <2>3. CASE qb - qa >= 1
    BY <2>1, <2>3, <1>1, EpochsAssumption
  <2>. QED  BY <2>2, <2>3, <1>1
<1>. QED  BY <1>2 DEF Slot

\* Two epochs a ring apart have the same slot.
LEMMA SlotsAgree ==
  ASSUME NEW a \in Nat
  PROVE  Slot(a + EPOCHS) = Slot(a)
<1>. DEFINE b == a + EPOCHS  qa == a \div EPOCHS  qb == b \div EPOCHS
            ra == a % EPOCHS  rb == b % EPOCHS  d == qb - qa - 1
<1>1. /\ qa \in Nat /\ qb \in Nat /\ ra \in 0 .. EPOCHS - 1 /\ rb \in 0 .. EPOCHS - 1
      /\ a = EPOCHS * qa + ra /\ b = EPOCHS * qb + rb
  BY EpochsAssumption
<1>. HIDE DEF qa, qb, ra, rb
<1>2. EPOCHS * d = ra - rb
  BY <1>1, EpochsAssumption
<1>3. CASE d >= 1
  BY <1>1, <1>2, <1>3, EpochsAssumption
<1>4. CASE d < 0
  BY <1>1, <1>2, <1>4, EpochsAssumption
<1>5. CASE d = 0
  <2>1. ra = rb
    BY <1>1, <1>2, <1>5, EpochsAssumption
  <2>. QED  BY <2>1 DEF Slot, ra, rb
<1>. QED  BY <1>1, <1>3, <1>4, <1>5

\* A slot is one of the ring.
LEMMA SlotInRing ==
  ASSUME NEW e \in Nat
  PROVE  Slot(e) \in 0 .. EPOCHS - 1
BY EpochsAssumption DEF Slot

\* The invariant holds when both threads start.
LEMMA InitIInv == Init => IInv
<1>. SUFFICES ASSUME Init PROVE IInv
  OBVIOUS
<1>. USE DEF Init
<1>b. ~focusOnROI => notifying
  BY Zenon
<1>c. notifying \in BOOLEAN
  BY Zenon
<1>1. TypeOK
  <2>1. {focusOnROI, notifying, Stopped, mInBenchmark, delayedCaptureRunning,
      capturing} \subseteq BOOLEAN
    BY <1>c
  <2>. QED BY <2>1, TimesAssumption DEF TypeOK, Req
<1>2. ControlInv
  BY <1>b DEF ControlInv
<1>5. EpochInv
  BY EpochsAssumption DEF ControlInv, EpochInv, FillWorks
<1>3. SlotInv
  BY DEF SlotInv
<1>4. OrderInv
  BY DEF OrderInv, Pending
<1>. QED  BY <1>1, <1>2, <1>3, <1>4, <1>5 DEF IInv

\* A push adds one request of the epoch of the ISS side.
LEMMA PushFacts ==
  ASSUME TypeOK, NEW type \in Types, NEW t \in Nat, Push(type, t)
  PROVE  \E r \in Req : /\ PQ' = PQ \cup {r} /\ issued' \in 0 .. MaxReqs
                        /\ r.type = type /\ r.epoch = CpuEpoch
                        /\ r.time_stamp = t % TIMES
<1>1. t % TIMES \in Nat /\ issued' \in Nat
  BY TimesAssumption DEF Push, TypeOK
<1>. DEFINE r == [type |-> type, epoch |-> CpuEpoch, time_stamp |-> t % TIMES, n |-> issued']
<1>2. r \in Req
  BY <1>1 DEF TypeOK, Req
<1>3. PQ' = PQ \cup {r}
  BY DEF Push
<1>4. r.type = type /\ r.epoch = CpuEpoch /\ r.time_stamp = t % TIMES
  OBVIOUS
<1>5. issued' \in 0 .. MaxReqs
  BY TimesAssumption DEF Push, TypeOK
<1>. QED  BY <1>2, <1>3, <1>4, <1>5

\* Every step keeps the types.
LEMMA TypeStep == TypeOK /\ [Next]_vars => TypeOK'
<1>. SUFFICES ASSUME TypeOK, [Next]_vars PROVE TypeOK'
  OBVIOUS
<1>. USE TimesAssumption, EpochsAssumption DEF TypeOK, epochs, issvars, runvars
<1>1. ASSUME NEW exec \in Offsets, Notify(exec) PROVE TypeOK'
  BY <1>1 DEF Notify, Push, Req, Types
<1>2. ASSUME NEW exec \in Offsets, NotifyIO(exec) PROVE TypeOK'
  BY <1>2 DEF NotifyIO, Push, Req, Types
<1>3. ASSUME NotifyFetchMiss PROVE TypeOK'
  BY <1>3 DEF NotifyFetchMiss, Push, Req, Types
<1>4. ASSUME GetDelay PROVE TypeOK'
  BY <1>4 DEF GetDelay
<1>5. ASSUME StartBenchmark PROVE TypeOK'
  BY <1>5 DEF StartBenchmark, Push, Req, Types
<1>6. ASSUME EndBenchmark PROVE TypeOK'
  <2>1. notifying' \in BOOLEAN
    BY <1>6, Zenon DEF EndBenchmark
  <2>2. PQ' \subseteq Req /\ issued' \in 0 .. MaxReqs
    BY <1>6, PushFacts DEF EndBenchmark, Types
  <2>. QED  BY <1>6, <2>1, <2>2 DEF EndBenchmark
<1>7. ASSUME FillBiases PROVE TypeOK'
  BY <1>7 DEF FillBiases
<1>8. ASSUME Stop PROVE TypeOK'
  BY <1>8 DEF Stop
<1>9. ASSUME FillWait PROVE TypeOK'
  BY <1>9 DEF FillWait
<1>10. ASSUME FillLock PROVE TypeOK'
  BY <1>10 DEF FillLock
<1>11. ASSUME FillCollect PROVE TypeOK'
  BY <1>11 DEF FillCollect
<1>12. ASSUME FillReturn PROVE TypeOK'
  BY <1>12 DEF FillReturn
<1>13. ASSUME Join PROVE TypeOK'
  BY <1>13 DEF Join
<1>14. ASSUME RunTop PROVE TypeOK'
  BY <1>14 DEF RunTop, issUnchanged
<1>15. ASSUME RunWait PROVE TypeOK'
  BY <1>15 DEF RunWait, issUnchanged
<1>16. ASSUME RunPop PROVE TypeOK'
  <2>1. CASE PQ = {} /\ MemEpoch' = MemEpoch + 1 /\ runpc' = "top" /\ UNCHANGED <<PQ, k>>
    BY <1>16, <2>1 DEF RunPop, issUnchanged
  <2>2. ASSUME NEW r \in Firsts, MemEpoch' \in {MemEpoch, r.epoch}, PQ' \subseteq PQ,
               k' \in {k, r}, runpc' \in {"top", "lock"}
        PROVE  TypeOK'
    BY <1>16, <2>2 DEF RunPop, issUnchanged, Firsts, Req
  <2>. QED  BY <1>16, <2>1, <2>2 DEF RunPop
<1>17. ASSUME RunLock PROVE TypeOK'
  BY <1>17 DEF RunLock, issUnchanged
<1>18. ASSUME RunPlay PROVE TypeOK'
  <2>1. capturing' \in BOOLEAN /\ delayedCaptureRunning' \in BOOLEAN
    BY <1>18, Zenon DEF RunPlay
  <2>2. mTimes' \in [0 .. EPOCHS - 1 -> SUBSET Req]
    <3>1. k.type \in {"CPU", "FETCH"} => k \in Req
      BY DEF None
    <3>2. Slot(MemEpoch) \in 0 .. EPOCHS - 1
      BY SlotInRing
    <3>. QED  BY <1>18, <3>1, <3>2 DEF RunPlay
  <2>3. accomplished' \in 0 .. QSize
    BY <1>18 DEF RunPlay
  <2>. QED  BY <1>18, <2>1, <2>2, <2>3 DEF RunPlay, issUnchanged
<1>19. ASSUME RunNext PROVE TypeOK'
  <2>1. CASE PQ = {} /\ runpc' = "unlock" /\ UNCHANGED <<MemEpoch, PQ, k>>
    BY <1>19, <2>1 DEF RunNext, issUnchanged
  <2>2. ASSUME NEW r \in Firsts, MemEpoch' \in {MemEpoch, r.epoch}, PQ' \subseteq PQ,
               k' \in {k, r}, runpc' \in {"leave", "play"}
        PROVE  TypeOK'
    BY <1>19, <2>2 DEF RunNext, issUnchanged, Firsts, Req
  <2>. QED  BY <1>19, <2>1, <2>2 DEF RunNext
<1>20. ASSUME RunUnlock PROVE TypeOK'
  BY <1>20 DEF RunUnlock, issUnchanged
<1>21. ASSUME RunBump PROVE TypeOK'
  BY <1>21 DEF RunBump, issUnchanged
<1>22. ASSUME UNCHANGED vars PROVE TypeOK'
  BY <1>22 DEF vars
<1>. QED
  BY <1>1, <1>2, <1>3, <1>4, <1>5, <1>6, <1>7, <1>8, <1>9, <1>10, <1>11, <1>12, <1>13, <1>14, <1>15, <1>16, <1>17, <1>18, <1>19, <1>20, <1>21, <1>22
     DEF Next, IssStep, RunStep, Ended

-----------------------------------------------------------------------------
(***************************************************************************)
(* Every step keeps the invariant.                                         *)
(***************************************************************************)

\* What a step leaves alone that changes none of what the invariant speaks of.
Silent == UNCHANGED <<epochs, runvars, focusOnROI, Stopped, mTimes, isspc, runpc>>

\* A push: the request is of the current epoch, which Run does not play yet.
LEMMA PushKeeps ==
  ASSUME IInv, NEW type \in Types, NEW t \in Nat, Push(type, t), isspc = "run",
         Silent, ~focusOnROI => notifying'
  PROVE  ControlInv' /\ EpochInv' /\ SlotInv' /\ OrderInv'
<1>1. PICK r \in Req : /\ PQ' = PQ \cup {r}
                       /\ r.epoch = CpuEpoch /\ r.time_stamp \in Nat
  BY PushFacts DEF IInv, Req
<1>2. ~Stopped
  BY DEF IInv, ControlInv
<1>. USE DEF Silent, epochs, runvars
<1>3. ControlInv'
  BY DEF IInv, ControlInv
<1>4. EpochInv'
  BY <1>1, <1>2 DEF IInv, EpochInv, ControlInv, TypeOK, FillWorks
<1>5. SlotInv'
  BY DEF IInv, SlotInv
<1>6. OrderInv'
  <2>1. ~Before(r, last)
    BY <1>1, <1>2 DEF IInv, OrderInv, TypeOK, Before, None, Req
  <2>2. k # None => ~Before(r, k)
    BY <1>1, <1>2 DEF IInv, ControlInv, EpochInv, TypeOK, Before, Req
  <2>. QED  BY <1>1, <1>2, <2>1, <2>2 DEF IInv, OrderInv, Pending
<1>. QED  BY <1>3, <1>4, <1>5, <1>6

\* A step of Run that takes r, the first of the queue, and works on its epoch.
LEMMA FirstFacts ==
  ASSUME IInv, NEW r \in Firsts
  PROVE  /\ r \in PQ /\ r \in Req /\ r # None
         /\ r.epoch >= MemEpoch /\ r.epoch <= CpuEpoch
         /\ \A s \in PQ : ~Before(s, r) /\ s.epoch >= r.epoch
BY DEF IInv, TypeOK, EpochInv, Firsts, Before, Req, None, Types

\* The steps of the SystemC thread.
LEMMA IssKeeps ==
  ASSUME IInv, TypeOK',
         \/ \E exec \in Offsets : Notify(exec) \/ NotifyIO(exec)
         \/ NotifyFetchMiss \/ GetDelay \/ StartBenchmark \/ EndBenchmark
         \/ FillBiases \/ Stop \/ IssStep
  PROVE  ControlInv' /\ EpochInv' /\ SlotInv' /\ OrderInv'
<1>. DEFINE Kept == ControlInv' /\ EpochInv' /\ SlotInv' /\ OrderInv'
<1>. USE DEF epochs, issvars, runvars
<1>k. ASSUME Silent, UNCHANGED <<PQ, notifying>> PROVE Kept
  BY <1>k DEF IInv, Silent, ControlInv, EpochInv, SlotInv, OrderInv, Pending, FillWorks
<1>1. ASSUME NEW exec \in Offsets, Notify(exec) PROVE Kept
  <2>1. exec + scTime \in Nat
    BY TimesAssumption DEF IInv, TypeOK
  <2>2. CASE notifying
    BY <1>1, <2>1, <2>2, PushKeeps DEF Notify, Silent, Types, IInv, ControlInv
  <2>3. CASE ~notifying
    BY <1>1, <2>3, <1>k DEF Notify, Silent
  <2>. QED  BY <2>2, <2>3
<1>2. ASSUME NEW exec \in Offsets, NotifyIO(exec) PROVE Kept
  <2>1. exec + scTime \in Nat
    BY TimesAssumption DEF IInv, TypeOK
  <2>. QED  BY <1>2, <2>1, PushKeeps DEF NotifyIO, Silent, Types, IInv, ControlInv
<1>3. ASSUME NotifyFetchMiss PROVE Kept
  BY <1>3, PushKeeps DEF NotifyFetchMiss, Silent, Types, IInv, TypeOK, ControlInv
<1>4. ASSUME GetDelay PROVE Kept
  BY <1>4, <1>k DEF GetDelay, Silent
<1>5. ASSUME StartBenchmark PROVE Kept
  <2>1. scTime + (TIMES - 1) \in Nat
    BY TimesAssumption DEF IInv, TypeOK
  <2>2. ~focusOnROI => notifying'
    BY <1>5, Zenon DEF StartBenchmark, IInv, ControlInv
  <2>. QED  BY <1>5, <2>1, <2>2, PushKeeps DEF StartBenchmark, Silent, Types
<1>6. ASSUME EndBenchmark PROVE Kept
  <2>1. scTime + MAX_QUANTUM + 1 \in Nat
    BY TimesAssumption DEF IInv, TypeOK
  <2>2. ~focusOnROI => notifying'
    BY <1>6, Zenon DEF EndBenchmark, IInv, ControlInv
  <2>. QED  BY <1>6, <2>1, <2>2, PushKeeps DEF EndBenchmark, Silent, Types
<1>7. ASSUME FillBiases PROVE Kept
  <2>. USE <1>7 DEF FillBiases, IInv, TypeOK
  <2>1. ControlInv'
    BY DEF ControlInv
  <2>2. EpochInv'
    BY EpochsAssumption DEF ControlInv, EpochInv, FillWorks, Req
  <2>3. SlotInv'
    BY EpochsAssumption DEF ControlInv, SlotInv, Req
  <2>4. OrderInv'
    BY DEF OrderInv, Pending, Req, None
  <2>. QED  BY <2>1, <2>2, <2>3, <2>4
<1>8. ASSUME Stop PROVE Kept
  BY <1>8 DEF Stop, IInv, ControlInv, EpochInv, SlotInv, OrderInv, Pending, FillWorks
<1>9. ASSUME FillWait PROVE Kept
  BY <1>9, EpochsAssumption
     DEF FillWait, IInv, TypeOK, ControlInv, EpochInv, SlotInv, OrderInv, Pending, FillWorks
<1>10. ASSUME FillLock PROVE Kept
  BY <1>10
     DEF FillLock, IInv, ControlInv, EpochInv, SlotInv, OrderInv, Pending, FillWorks
<1>11. ASSUME FillCollect PROVE Kept
  <2>. USE <1>11 DEF FillCollect, IInv, TypeOK
  <2>1. ControlInv' /\ EpochInv' /\ OrderInv'
    BY EpochsAssumption DEF ControlInv, EpochInv, OrderInv, Pending, FillWorks
  <2>2. ASSUME NEW s \in 0 .. EPOCHS - 1, NEW r \in mTimes'[s]
        PROVE  /\ Slot(r.epoch) = s
               /\ ~Stopped => r.epoch < CpuEpoch
               /\ ~focusOnROI => r.epoch + EPOCHS > CpuEpoch
    <3>1. s # Slot(CpuEpoch) /\ r \in mTimes[s] /\ r \in Req
      BY <2>2, SlotInRing
    <3>2. r.epoch + EPOCHS = CpuEpoch => Slot(r.epoch) = Slot(CpuEpoch)
      BY <3>1, SlotsAgree DEF Req
    <3>3. /\ Slot(r.epoch) = s
          /\ ~Stopped => r.epoch < CpuEpoch
          /\ ~focusOnROI => r.epoch + EPOCHS >= CpuEpoch
      BY <3>1 DEF SlotInv
    <3>4. r.epoch \in Nat /\ CpuEpoch \in Nat /\ EPOCHS \in Nat
      BY <3>1, EpochsAssumption DEF Req
    <3>. HIDE <1>11 DEF FillCollect, IInv, TypeOK
    <3>5. ~focusOnROI => r.epoch + EPOCHS > CpuEpoch
      BY <3>1, <3>2, <3>3, <3>4
    <3>. QED  BY <3>3, <3>5
  <2>3. SlotInv'
    <3>1. UNCHANGED <<Stopped, CpuEpoch, focusOnROI>> /\ CpuEpoch \in Nat
      OBVIOUS
    <3>2. \A s \in 0 .. EPOCHS - 1 : \A r \in mTimes'[s] : r.epoch \in Nat
      BY DEF Req
    <3>. QED  BY <2>2, <3>1, <3>2, EpochsAssumption DEF SlotInv
  <2>. QED  BY <2>1, <2>3
<1>12. ASSUME FillReturn PROVE Kept
  BY <1>12
     DEF FillReturn, IInv, ControlInv, EpochInv, SlotInv, OrderInv, Pending, FillWorks
<1>13. ASSUME Join PROVE Kept
  BY <1>13
     DEF Join, IInv, ControlInv, EpochInv, SlotInv, OrderInv, Pending, FillWorks
<1>. QED  BY <1>1, <1>2, <1>3, <1>4, <1>5, <1>6, <1>7, <1>8, <1>9, <1>10, <1>11, <1>12, <1>13
          DEF IssStep

\* The steps of the thread of Run.
LEMMA RunKeeps ==
  ASSUME IInv, TypeOK', RunStep
  PROVE  ControlInv' /\ EpochInv' /\ SlotInv' /\ OrderInv'
<1>. DEFINE Kept == ControlInv' /\ EpochInv' /\ SlotInv' /\ OrderInv'
<1>. USE DEF issvars, runvars, issUnchanged
<1>1. ASSUME RunTop PROVE Kept
  BY <1>1 DEF RunTop, IInv, TypeOK, ControlInv, EpochInv, SlotInv, OrderInv, Pending, FillWorks
<1>2. ASSUME RunWait PROVE Kept
  BY <1>2 DEF RunWait, IInv, TypeOK, ControlInv, EpochInv, SlotInv, OrderInv, Pending, FillWorks
<1>3. ASSUME RunPop PROVE Kept
  <2>1. UNCHANGED <<CpuEpoch, Stopped, isspc, focusOnROI, notifying, mTimes, last, tmpMemEpoch>>
    BY <1>3 DEF RunPop
  <2>2. CASE PQ = {} /\ MemEpoch' = MemEpoch + 1 /\ runpc' = "top" /\ UNCHANGED <<PQ, k>>
    BY <1>3, <2>1, <2>2, EpochsAssumption
       DEF RunPop, IInv, TypeOK, ControlInv, EpochInv, SlotInv, OrderInv, Pending, FillWorks
  <2>3. ASSUME NEW r \in Firsts, r.epoch # tmpMemEpoch, MemEpoch' = r.epoch, runpc' = "top",
               UNCHANGED <<PQ, k>>
        PROVE  Kept
    <3>1. EpochInv'
      <4>1. /\ r.epoch >= MemEpoch /\ r.epoch <= CpuEpoch /\ r.epoch \in Nat
            /\ \A s \in PQ : s.epoch >= r.epoch /\ s.epoch \in Nat
        BY FirstFacts DEF IInv, TypeOK, Req
      <4>2. EPOCHS \in Nat /\ MemEpoch \in Nat /\ CpuEpoch \in Nat
        BY EpochsAssumption DEF IInv, TypeOK
      <4>3. \A s \in PQ' : s.epoch <= CpuEpoch' /\ s.epoch >= MemEpoch'
        BY <2>1, <2>3, <4>1 DEF IInv, EpochInv
      <4>4. FillWorks' <=> FillWorks
        BY <2>1 DEF FillWorks
      <4>5. /\ ~Stopped' => MemEpoch' <= CpuEpoch'
            /\ FillWorks' => MemEpoch' + EPOCHS > CpuEpoch'
            /\ ~focusOnROI' => CpuEpoch' <= MemEpoch' + EPOCHS
            /\ ~focusOnROI' /\ isspc' \in {"run", "time"} => CpuEpoch' < MemEpoch' + EPOCHS
        BY <2>1, <2>3, <4>1, <4>2, <4>4 DEF IInv, EpochInv
      <4>. QED  BY <2>3, <4>3, <4>5 DEF EpochInv
    <3>. QED  BY <1>3, <2>1, <2>3, <3>1
         DEF RunPop, IInv, ControlInv, SlotInv, OrderInv, Pending
  <2>4. ASSUME NEW r \in Firsts, r.epoch = tmpMemEpoch, k' = r, PQ' = PQ \ {r},
               runpc' = "lock", UNCHANGED MemEpoch
        PROVE  Kept
    <3>. USE <1>3, <2>1, <2>4, FirstFacts
    <3>1. ControlInv' /\ SlotInv'
      BY DEF RunPop, IInv, ControlInv, SlotInv
    <3>2. EpochInv'
      BY DEF RunPop, IInv, EpochInv, FillWorks
    <3>3. OrderInv'
      BY DEF RunPop, IInv, ControlInv, OrderInv, Pending
    <3>. QED  BY <3>1, <3>2, <3>3
  <2>. QED  BY <1>3, <2>2, <2>3, <2>4 DEF RunPop
<1>4. ASSUME RunLock PROVE Kept
  BY <1>4 DEF RunLock, IInv, TypeOK, ControlInv, EpochInv, SlotInv, OrderInv, Pending, FillWorks
<1>5. ASSUME RunPlay PROVE Kept
  <2>1. /\ UNCHANGED <<epochs, Stopped, isspc, focusOnROI, notifying, PQ, tmpMemEpoch>>
        /\ runpc = "play" /\ runpc' \in {"leave", "next"} /\ last' = k /\ k' = None
    BY <1>5 DEF RunPlay, epochs
  <2>2. k \in Req /\ k # None /\ k.epoch = MemEpoch /\ tmpMemEpoch = MemEpoch
    BY <2>1 DEF IInv, ControlInv, Req, None, Types
  <2>3. ControlInv' /\ EpochInv'
    BY <2>1, <2>2 DEF IInv, ControlInv, EpochInv, FillWorks, epochs
  <2>4. OrderInv'
    BY <2>1, <2>2 DEF IInv, ControlInv, EpochInv, OrderInv, Pending, epochs
  <2>5. ASSUME NEW s \in 0 .. EPOCHS - 1, NEW r \in mTimes'[s]
        PROVE  r \in mTimes[s] \/ (r = k /\ s = Slot(MemEpoch))
    BY <1>5, <2>5 DEF RunPlay, IInv, TypeOK
  <2>6. /\ Slot(k.epoch) = Slot(MemEpoch)
        /\ ~Stopped => k.epoch < CpuEpoch
        /\ ~focusOnROI => k.epoch + EPOCHS >= CpuEpoch
        /\ ~focusOnROI /\ isspc \in {"run", "time"} => k.epoch + EPOCHS > CpuEpoch
    BY <2>1, <2>2, EpochsAssumption DEF IInv, EpochInv, TypeOK
  <2>7. SlotInv'
    BY <2>1, <2>5, <2>6 DEF IInv, SlotInv, epochs
  <2>. QED  BY <2>3, <2>4, <2>7
<1>6. ASSUME RunNext PROVE Kept
  <2>1. UNCHANGED <<CpuEpoch, Stopped, isspc, focusOnROI, notifying, mTimes, last, tmpMemEpoch>>
    BY <1>6 DEF RunNext
  <2>2. CASE PQ = {} /\ runpc' = "unlock" /\ UNCHANGED <<MemEpoch, PQ, k>>
    BY <1>6, <2>1, <2>2
       DEF RunNext, IInv, TypeOK, ControlInv, EpochInv, SlotInv, OrderInv, Pending, FillWorks
  <2>3. ASSUME NEW r \in Firsts, r.epoch # tmpMemEpoch, MemEpoch' = r.epoch, runpc' = "leave",
               UNCHANGED <<PQ, k>>
        PROVE  Kept
    <3>1. EpochInv'
      BY <1>6, <2>1, <2>3, FirstFacts, EpochsAssumption, SMTT(40)
         DEF RunNext, IInv, TypeOK, EpochInv, FillWorks, Req
    <3>. QED  BY <1>6, <2>1, <2>3, <3>1
         DEF RunNext, IInv, ControlInv, SlotInv, OrderInv, Pending
  <2>4. ASSUME NEW r \in Firsts, r.epoch = tmpMemEpoch, k' = r, PQ' = PQ \ {r},
               runpc' = "play", UNCHANGED MemEpoch
        PROVE  Kept
    <3>. USE <1>6, <2>1, <2>4, FirstFacts
    <3>1. ControlInv' /\ SlotInv'
      BY DEF RunNext, IInv, ControlInv, SlotInv
    <3>2. EpochInv'
      BY DEF RunNext, IInv, EpochInv, FillWorks
    <3>3. OrderInv'
      BY DEF RunNext, IInv, ControlInv, OrderInv, Pending
    <3>. QED  BY <3>1, <3>2, <3>3
  <2>. QED  BY <1>6, <2>2, <2>3, <2>4 DEF RunNext
<1>7. ASSUME RunUnlock PROVE Kept
  BY <1>7 DEF RunUnlock, IInv, ControlInv, EpochInv, SlotInv, OrderInv, Pending, FillWorks
<1>8. ASSUME RunBump PROVE Kept
  BY <1>8, EpochsAssumption
     DEF RunBump, IInv, TypeOK, ControlInv, EpochInv, SlotInv, OrderInv, Pending, FillWorks, Req
<1>. QED  BY <1>1, <1>2, <1>3, <1>4, <1>5, <1>6, <1>7, <1>8 DEF RunStep

\* Every step of either thread keeps the invariant.
LEMMA StepIInv == IInv /\ [Next]_vars => IInv'
<1>. SUFFICES ASSUME IInv, [Next]_vars PROVE IInv'
  OBVIOUS
<1>1. TypeOK'
  BY TypeStep DEF IInv
<1>2. CASE UNCHANGED vars
  BY <1>2, <1>1
     DEF vars, epochs, issvars, runvars, IInv, ControlInv, EpochInv, SlotInv, OrderInv, Pending,
         FillWorks
<1>. QED  BY <1>1, <1>2, IssKeeps, RunKeeps DEF Next, Ended, IInv

\* The invariant of the two threads.
THEOREM Invariance == Spec => []IInv
BY InitIInv, StepIInv, PTL DEF Spec

\* The types of the state of MainMemCosim: in particular the queue of accomplished
\* device accesses is neither overfilled nor read when empty.
THEOREM TypeCorrect == Spec => []TypeOK
<1>1. IInv => TypeOK
  BY DEF IInv
<1>. QED  BY Invariance, <1>1, PTL

\* Run plays complete epochs only, and without ROI mode the ISS side is at most EPOCHS
\* epochs ahead of it (FillBiases, Run).
THEOREM EpochWindowHolds == Spec => []EpochWindow
<1>1. IInv => EpochWindow
  BY DEF IInv, EpochInv, EpochWindow
<1>. QED  BY Invariance, <1>1, PTL

\* FillBiases and Run never work on the same slot of the ring.
THEOREM SlotExclusive == Spec => []BiasSlotExclusive
<1>1. IInv => BiasSlotExclusive
  <2>. SUFFICES ASSUME IInv, FillWorks, RunAdds PROVE Slot(CpuEpoch) # Slot(tmpMemEpoch)
    BY DEF BiasSlotExclusive
  <2>1. tmpMemEpoch < CpuEpoch /\ CpuEpoch < tmpMemEpoch + EPOCHS
    BY EpochsAssumption DEF IInv, TypeOK, ControlInv, EpochInv, FillWorks, RunAdds
  <2>. QED  BY <2>1, SlotsApart DEF IInv, TypeOK
<1>. QED  BY Invariance, <1>1, PTL

\* What FillBiases collects is what one complete epoch, EPOCHS epochs ago, took
\* (and in ROI mode nothing of a later epoch).
THEOREM BiasesExact == Spec => []BiasesOfEpoch
<1>1. IInv => BiasesOfEpoch
  <2>. SUFFICES ASSUME IInv, isspc = "fill"
                PROVE  /\ \A r \in Pending : r.epoch + EPOCHS > CpuEpoch
                       /\ \A r \in mTimes[Slot(CpuEpoch)] :
                            /\ r.epoch + EPOCHS <= CpuEpoch
                            /\ Slot(r.epoch) = Slot(CpuEpoch)
                            /\ ~focusOnROI => r.epoch + EPOCHS = CpuEpoch
    BY DEF BiasesOfEpoch
  <2>1. \A r \in Pending : r.epoch + EPOCHS > CpuEpoch
    BY EpochsAssumption DEF IInv, TypeOK, ControlInv, EpochInv, FillWorks, Pending, Req
  <2>2. ASSUME NEW r \in mTimes[Slot(CpuEpoch)]
        PROVE  /\ r.epoch + EPOCHS <= CpuEpoch
               /\ Slot(r.epoch) = Slot(CpuEpoch)
               /\ ~focusOnROI => r.epoch + EPOCHS = CpuEpoch
    <3>1. Slot(CpuEpoch) \in 0 .. EPOCHS - 1
      BY SlotInRing DEF IInv, TypeOK
    <3>2. /\ r.epoch \in Nat /\ CpuEpoch \in Nat /\ Slot(r.epoch) = Slot(CpuEpoch)
          /\ r.epoch < CpuEpoch
          /\ ~focusOnROI => r.epoch + EPOCHS >= CpuEpoch
      BY <2>2, <3>1 DEF IInv, TypeOK, ControlInv, SlotInv, Req
    <3>3. ~(CpuEpoch < r.epoch + EPOCHS)
      BY <3>2, SlotsApart
    <3>. QED  BY <3>2, <3>3, EpochsAssumption
  <2>. QED  BY <2>1, <2>2
<1>. QED  BY Invariance, <1>1, PTL

\* Only RunPlay brings a request to the caches.
LEMMA OnlyPlayPlays ==
  ASSUME Next, last' # last
  PROVE  RunPlay
BY DEF Next, IssStep, RunStep, Ended, vars, runvars, Notify, NotifyIO, NotifyFetchMiss, GetDelay,
       StartBenchmark, EndBenchmark, FillBiases, Stop, FillWait, FillLock, FillCollect,
       FillReturn, Join, RunTop, RunWait, RunPop, RunLock, RunNext, RunUnlock, RunBump

\* Requests reach the caches in the order of their epochs and time stamps, although
\* they are pushed out of order while Run pops (compare_Req, Run).
THEOREM InOrder == Spec => PlayedInOrder
<1>1. IInv /\ [Next]_vars => [last' # last => ~Before(last', last)]_vars
  <2>. SUFFICES ASSUME IInv, Next, last' # last PROVE ~Before(last', last)
    OBVIOUS
  <2>1. RunPlay
    BY OnlyPlayPlays
  <2>2. last' = k /\ k \in Pending
    BY <2>1 DEF RunPlay, IInv, ControlInv, Pending, Req, None, Types
  <2>. QED  BY <2>2 DEF IInv, OrderInv
<1>. QED  BY Invariance, <1>1, PTL DEF PlayedInOrder, Spec

-----------------------------------------------------------------------------
(***************************************************************************)
(* Benchmarks.  Their start and end sort around the accesses by their time *)
(* stamps, so time stamps must not wrap (64 bits of nanoseconds), and the  *)
(* first benchmark starts after time 0: its start is stamped one earlier.  *)
(***************************************************************************)

\* step bounds the time of a quantum.
Fits(step) == /\ \A d \in Steps : d <= step
              /\ step * MaxEpoch + MAX_QUANTUM + 1 < TIMES
TimesFit == FirstBench > 0 /\ \E step \in Nat : Fits(step)

\* The time stamps of the accesses and commands of the current quantum.
LEMMA Stamps ==
  ASSUME NEW step \in Nat, Fits(step), TypeOK, TimeInv(step)
  PROVE  /\ \A d \in 0 .. MAX_QUANTUM + 1 :
              scTime + d \in Nat /\ (scTime + d) % TIMES = scTime + d
         /\ scTime > 0 => /\ (scTime + (TIMES - 1)) % TIMES = scTime - 1
                          /\ scTime - 1 \in Nat /\ scTime + (TIMES - 1) \in Nat
<1>1. scTime \in Nat /\ CpuEpoch \in Nat /\ step * CpuEpoch <= step * MaxEpoch
  BY TimesAssumption DEF TypeOK, TimeInv
<1>2. scTime + MAX_QUANTUM + 1 < TIMES
  <2>1. step * MaxEpoch \in Nat /\ step * CpuEpoch \in Nat
    BY <1>1, TimesAssumption
  <2>. QED  BY <2>1, <1>1, TimesAssumption DEF Fits, TimeInv
<1>3. \A x \in 0 .. TIMES - 1 : x % TIMES = x
  BY TimesAssumption
<1>4. \A x \in 0 .. TIMES - 1 : (x + TIMES) % TIMES = x
  BY TimesAssumption
<1>5. ASSUME scTime > 0
      PROVE  /\ (scTime + (TIMES - 1)) % TIMES = scTime - 1
             /\ scTime - 1 \in Nat /\ scTime + (TIMES - 1) \in Nat
  <2>1. scTime - 1 \in 0 .. TIMES - 1 /\ scTime + (TIMES - 1) = (scTime - 1) + TIMES
    BY <1>1, <1>2, <1>5, TimesAssumption
  <2>. QED  BY <2>1, <1>1, <1>4, TimesAssumption
<1>6. ASSUME NEW d \in 0 .. MAX_QUANTUM + 1
      PROVE  scTime + d \in Nat /\ (scTime + d) % TIMES = scTime + d
  <2>1. scTime + d \in 0 .. TIMES - 1
    BY <1>1, <1>2, TimesAssumption
  <2>. QED  BY <2>1, <1>3
<1>. QED  BY <1>5, <1>6

\* Every step keeps the time below the bound.
LEMMA TimeStep ==
  ASSUME NEW step \in Nat, Fits(step), TypeOK, TimeInv(step), [Next]_vars
  PROVE  TimeInv(step)'
<1>. USE DEF epochs, issvars, runvars
<1>1. CASE FillBiases
  <2>1. step * (CpuEpoch + 1) = step * CpuEpoch + step /\ step * CpuEpoch \in Nat
    BY DEF TypeOK
  <2>. QED  BY <1>1, <2>1, TimesAssumption DEF FillBiases, TypeOK, TimeInv
<1>2. CASE FillReturn
  <2>1. PICK d \in Steps : scTime' = scTime + d
    BY <1>2 DEF FillReturn
  <2>2. step * CpuEpoch \in Nat
    BY DEF TypeOK
  <2>3. isspc = "time" /\ isspc' = "run" /\ CpuEpoch' = CpuEpoch
    BY <1>2 DEF FillReturn
  <2>4. scTime + step <= step * CpuEpoch /\ CpuEpoch <= MaxEpoch
    BY <2>3 DEF TimeInv
  <2>5. scTime \in Nat /\ d \in Nat /\ d <= step
    BY TimesAssumption DEF TypeOK, Fits
  <2>6. scTime' <= step * CpuEpoch'
    BY <2>1, <2>2, <2>3, <2>4, <2>5
  <2>. QED  BY <2>3, <2>4, <2>6 DEF TimeInv
<1>3. CASE UNCHANGED <<scTime, CpuEpoch, isspc>>
  BY <1>3 DEF TimeInv
<1>4. CASE Stop \/ FillWait \/ FillLock \/ FillCollect \/ Join
  BY <1>4 DEF Stop, FillWait, FillLock, FillCollect, Join, TimeInv
<1>. QED
  BY <1>1, <1>2, <1>3, <1>4
     DEF Next, IssStep, RunStep, Ended, vars, Notify, NotifyIO, NotifyFetchMiss,
         GetDelay, StartBenchmark, EndBenchmark, RunTop, RunWait, RunPop, RunLock, RunPlay,
         RunNext, RunUnlock, RunBump, issUnchanged

\* What is still to be played is of an epoch that has begun.
LEMMA PendingFacts ==
  ASSUME IInv, NEW r \in Pending
  PROVE  r \in Req /\ (~Stopped => r.epoch <= CpuEpoch)
BY DEF IInv, TypeOK, ControlInv, EpochInv, Pending

\* What a step leaves alone that concerns no benchmark.
Idling == UNCHANGED <<Pending, k, PQ, delayedCaptureRunning, capturing, mInBenchmark, focusOnROI,
                      notifying>>

\* An access is pushed: in ROI mode only during a benchmark, after its start.
LEMMA AccessKeepsBench ==
  ASSUME IInv, BenchInv, RoiInv, notifying, isspc = "run", NEW r \in Req,
         r.type \in {"CPU", "FETCH", "DEVICE"}, r.epoch = CpuEpoch,
         r.type \in Counted =>
           r.time_stamp >= scTime /\ r.time_stamp <= scTime + MAX_QUANTUM,
         PQ' = PQ \cup {r},
         UNCHANGED <<k, CpuEpoch, scTime, isspc, delayedCaptureRunning, capturing,
                     mInBenchmark, focusOnROI, notifying>>
  PROVE  BenchInv' /\ RoiInv'
<1>1. Pending' = Pending \cup {r}
  BY DEF Pending, Req, None, Types
<1>2. BenchInv'
  BY <1>1 DEF BenchInv
<1>3. ASSUME focusOnROI PROVE RoiInv'
  <2>1. mInBenchmark /\ delayedCaptureRunning
    BY <1>3 DEF RoiInv, BenchInv
  <2>2. r.type \in Counted => \A s \in Pending : s.type = "START" => Before(s, r)
    <3>1. ~Stopped
      BY DEF IInv, ControlInv
    <3>2. ASSUME r.type \in Counted, NEW s \in Pending, s.type = "START" PROVE Before(s, r)
      <4>1. s \in Req /\ s.epoch <= CpuEpoch
        BY <3>1, PendingFacts
      <4>2. s.epoch < CpuEpoch \/ s.time_stamp < scTime
        BY <3>2 DEF BenchInv
      <4>. QED  BY <3>2, <4>1, <4>2 DEF Before, Req, IInv, TypeOK
    <3>. QED  BY <3>2
  <2>3. \A s \in Pending : s.type # "END"
    BY <2>1 DEF BenchInv
  <2>. QED  BY <1>1, <1>3, <2>1, <2>2, <2>3 DEF RoiInv, Counted
<1>. QED  BY <1>2, <1>3 DEF RoiInv

\* Every step keeps the order of the benchmark commands.
LEMMA BenchStep ==
  ASSUME NEW step \in Nat, Fits(step), FirstBench > 0,
         IInv, TimeInv(step), BenchInv, RoiInv, [Next]_vars
  PROVE  BenchInv' /\ RoiInv'
<1>. DEFINE Kept == BenchInv' /\ RoiInv'
<1>. USE DEF epochs, issvars, runvars, issUnchanged
<1>t. TypeOK /\ ControlInv
  BY DEF IInv
<1>k. ASSUME Idling, UNCHANGED <<CpuEpoch, scTime, isspc>> PROVE Kept
  BY <1>k DEF Idling, BenchInv, RoiInv
<1>1. ASSUME NEW exec \in Offsets, Notify(exec) PROVE Kept
  <2>1. exec \in 0 .. MAX_QUANTUM + 1 /\ exec <= MAX_QUANTUM
    BY TimesAssumption
  <2>2. CASE notifying
    <3>1. PICK r \in Req : /\ PQ' = PQ \cup {r} /\ r.type = "CPU" /\ r.epoch = CpuEpoch
                           /\ r.time_stamp = (exec + scTime) % TIMES
      <4>1. exec + scTime \in Nat
        BY <1>t, <2>1, TimesAssumption DEF TypeOK
      <4>2. Push("CPU", exec + scTime)
        BY <1>1, <2>2 DEF Notify
      <4>3. "CPU" \in Types
        BY DEF Types
      <4>. QED  BY <1>t, <4>1, <4>2, <4>3, PushFacts
    <3>2. r.time_stamp = scTime + exec
      <4>1. scTime \in Nat /\ exec \in Nat
        BY <1>t, <2>1, TimesAssumption DEF TypeOK
      <4>2. (exec + scTime) % TIMES = exec + scTime
        BY <2>1, <1>t, Stamps, TimesAssumption DEF TypeOK
      <4>. QED  BY <3>1, <4>1, <4>2
    <3>. QED  BY <1>1, <1>t, <2>1, <2>2, <3>1, <3>2, AccessKeepsBench, TimesAssumption
              DEF Notify, TypeOK
  <2>3. CASE ~notifying
    BY <1>1, <2>3, <1>k DEF Notify, Idling, Pending
  <2>. QED  BY <2>2, <2>3
<1>2. ASSUME NEW exec \in Offsets, NotifyIO(exec) PROVE Kept
  <2>1. exec \in 0 .. MAX_QUANTUM + 1 /\ exec <= MAX_QUANTUM
    BY TimesAssumption
  <2>2. PICK r \in Req : /\ PQ' = PQ \cup {r} /\ r.type = "DEVICE" /\ r.epoch = CpuEpoch
                         /\ r.time_stamp = (exec + scTime) % TIMES
    <3>1. exec + scTime \in Nat
      BY <1>t, <2>1, TimesAssumption DEF TypeOK
    <3>2. Push("DEVICE", exec + scTime)
      BY <1>2 DEF NotifyIO
    <3>3. "DEVICE" \in Types
      BY DEF Types
    <3>. QED  BY <1>t, <3>1, <3>2, <3>3, PushFacts
  <2>3. r.time_stamp = scTime + exec
    <3>1. scTime \in Nat /\ exec \in Nat
      BY <1>t, <2>1, TimesAssumption DEF TypeOK
    <3>2. (exec + scTime) % TIMES = exec + scTime
      BY <2>1, <1>t, Stamps, TimesAssumption DEF TypeOK
    <3>. QED  BY <2>2, <3>1, <3>2
  <2>. QED  BY <1>2, <1>t, <2>1, <2>2, <2>3, AccessKeepsBench, TimesAssumption
            DEF NotifyIO, TypeOK
<1>3. ASSUME NotifyFetchMiss PROVE Kept
  <2>1. PICK r \in Req : PQ' = PQ \cup {r} /\ r.type = "FETCH" /\ r.epoch = CpuEpoch
    BY <1>3, <1>t, PushFacts DEF NotifyFetchMiss, Types, TypeOK
  <2>. QED  BY <1>3, <2>1, AccessKeepsBench DEF NotifyFetchMiss, Counted
<1>4. ASSUME GetDelay PROVE Kept
  BY <1>4, <1>k DEF GetDelay, Idling, Pending
<1>5. ASSUME StartBenchmark PROVE Kept
  <2>1. scTime > 0
    BY <1>5, <1>t, TimesAssumption, SMTT(40) DEF StartBenchmark, TypeOK
  <2>2. PICK r \in Req : /\ PQ' = PQ \cup {r} /\ r.type = "START" /\ r.epoch = CpuEpoch
                         /\ r.time_stamp = scTime - 1
    BY <1>5, <1>t, <2>1, Stamps, PushFacts DEF StartBenchmark, Types
  <2>3. Pending' = Pending \cup {r}
    BY <1>5, <2>2 DEF StartBenchmark, Pending, Req, None, Types
  <2>4. \A s \in Pending : s.type \notin {"START", "END"}
    BY <1>5 DEF StartBenchmark, BenchInv
  <2>5. BenchInv'
    BY <1>5, <1>t, <2>1, <2>2, <2>3, <2>4 DEF StartBenchmark, BenchInv, TypeOK, Pending
  <2>6. ASSUME focusOnROI PROVE RoiInv'
    <3>1. \A s \in Pending : s.type \notin Counted
      BY <1>5, <2>6 DEF StartBenchmark, RoiInv
    <3>2. notifying' = TRUE /\ mInBenchmark' = TRUE
      BY <1>5, <2>6, Zenon DEF StartBenchmark
    <3>. QED  BY <1>5, <2>2, <2>3, <3>1, <3>2 DEF StartBenchmark, RoiInv, Counted
  <2>. QED  BY <1>5, <2>5, <2>6 DEF StartBenchmark, RoiInv
<1>6. ASSUME EndBenchmark PROVE Kept
  <2>1. PICK r \in Req : /\ PQ' = PQ \cup {r} /\ r.type = "END" /\ r.epoch = CpuEpoch
                         /\ r.time_stamp = (scTime + MAX_QUANTUM + 1) % TIMES
    BY <1>6, <1>t, PushFacts, TimesAssumption DEF EndBenchmark, Types, TypeOK
  <2>2. r.time_stamp = scTime + MAX_QUANTUM + 1
    <3>1. MAX_QUANTUM + 1 \in 0 .. MAX_QUANTUM + 1
      BY TimesAssumption
    <3>2. (scTime + (MAX_QUANTUM + 1)) % TIMES = scTime + (MAX_QUANTUM + 1)
      BY <3>1, <1>t, Stamps
    <3>3. scTime + (MAX_QUANTUM + 1) = scTime + MAX_QUANTUM + 1
      BY <1>t, TimesAssumption DEF TypeOK
    <3>. QED  BY <2>1, <3>2, <3>3
  <2>3. Pending' = Pending \cup {r}
    BY <1>6, <2>1 DEF EndBenchmark, Pending, Req, None, Types
  <2>4. delayedCaptureRunning /\ \A s \in Pending : s.type # "END"
    BY <1>6 DEF EndBenchmark, BenchInv
  <2>5. \A s \in Pending : s.type = "START" => Before(s, r)
    <3>1. ASSUME NEW s \in Pending, s.type = "START" PROVE Before(s, r)
      <4>1. s \in Req /\ s.epoch <= CpuEpoch
        BY <1>6, <1>t, PendingFacts DEF EndBenchmark, ControlInv
      <4>2. s.epoch < CpuEpoch \/ s.time_stamp < scTime
        BY <3>1 DEF BenchInv
      <4>. QED  BY <1>t, <2>1, <2>2, <4>1, <4>2, TimesAssumption DEF Before, Req, TypeOK
    <3>. QED  BY <3>1
  <2>6. BenchInv'
    BY <1>6, <2>1, <2>3, <2>4, <2>5 DEF EndBenchmark, BenchInv, Pending, None
  <2>7. ASSUME focusOnROI PROVE RoiInv'
    <3>1. notifying' = FALSE /\ mInBenchmark' = FALSE
      BY <1>6, <2>7, Zenon DEF EndBenchmark
    <3>2. \A s \in Pending : s.type \in Counted => Before(s, r)
      <4>1. ASSUME NEW s \in Pending, s.type \in Counted PROVE Before(s, r)
        <5>1. s \in Req /\ s.epoch <= CpuEpoch
          BY <1>6, <1>t, PendingFacts DEF EndBenchmark, ControlInv
        <5>2. s.epoch < CpuEpoch \/ s.time_stamp <= scTime + MAX_QUANTUM
          BY <2>7, <4>1 DEF RoiInv
        <5>. QED  BY <1>t, <2>1, <2>2, <5>1, <5>2, TimesAssumption DEF Before, Req, TypeOK
      <4>. QED  BY <4>1
    <3>. QED  BY <1>6, <2>1, <2>3, <2>4, <3>1, <3>2 DEF EndBenchmark, RoiInv, Counted
  <2>. QED  BY <1>6, <2>6, <2>7 DEF EndBenchmark, RoiInv
<1>7. ASSUME FillBiases PROVE Kept
  <2>1. Idling /\ isspc = "run" /\ CpuEpoch' = CpuEpoch + 1 /\ scTime' = scTime /\ ~Stopped
    BY <1>7, <1>t DEF FillBiases, Idling, Pending, ControlInv
  <2>2. \A r \in Pending : r.epoch < CpuEpoch'
    BY <1>t, <2>1, PendingFacts DEF TypeOK, Req
  <2>. QED  BY <2>1, <2>2 DEF Idling, BenchInv, RoiInv
<1>8. ASSUME Stop \/ FillWait \/ FillLock \/ FillCollect \/ FillReturn \/ Join PROVE Kept
  BY <1>8 DEF Stop, FillWait, FillLock, FillCollect, FillReturn, Join, Pending, BenchInv, RoiInv
<1>9. ASSUME RunPop \/ RunNext PROVE Kept
  <2>1. UNCHANGED <<delayedCaptureRunning, capturing, mInBenchmark, focusOnROI, notifying,
                    CpuEpoch, scTime, isspc>>
    BY <1>9 DEF RunPop, RunNext
  <2>2. CASE UNCHANGED <<PQ, k>>
    BY <2>1, <2>2 DEF Pending, BenchInv, RoiInv
  <2>3. ASSUME NEW r \in Firsts, k' = r, PQ' = PQ \ {r} PROVE Kept
    <3>1. k = None /\ r # None /\ r \in PQ
      BY <1>9, <1>t, <2>3, FirstFacts DEF RunPop, RunNext, ControlInv
    <3>2. Pending' = Pending /\ r \in Pending
      BY <2>3, <3>1 DEF Pending
    <3>3. r.type = "END" => \A s \in PQ' : s.type # "END"
      BY <2>3, <3>2 DEF BenchInv, Pending
    <3>. QED  BY <2>1, <2>3, <3>2, <3>3 DEF BenchInv, RoiInv
  <2>. QED  BY <1>9, <2>2, <2>3 DEF RunPop, RunNext
<1>10. ASSUME RunPlay PROVE Kept
  <2>1. /\ UNCHANGED <<PQ, mInBenchmark, focusOnROI, notifying, CpuEpoch, scTime, isspc>>
        /\ k' = None /\ k \in Req /\ k # None
    BY <1>10, <1>t DEF RunPlay, ControlInv, Req, None, Types
  <2>2. Pending' = PQ /\ Pending = PQ \cup {k}
    BY <2>1 DEF Pending
  <2>3. \A r \in PQ : ~Before(r, k)
    BY <2>1 DEF IInv, OrderInv
  <2>4. CASE k.type = "END"
    <3>1. \A r \in PQ : r.type \notin {"START", "END"}
      BY <2>2, <2>3, <2>4 DEF BenchInv
    <3>2. capturing' = FALSE /\ delayedCaptureRunning' = FALSE /\ ~mInBenchmark
      BY <1>10, <2>2, <2>4, Zenon DEF RunPlay, BenchInv
    <3>3. focusOnROI => \A r \in PQ : r.type \notin Counted
      BY <2>2, <2>3, <2>4 DEF RoiInv
    <3>. QED  BY <2>1, <2>2, <3>1, <3>2, <3>3 DEF BenchInv, RoiInv, None
  <2>5. CASE k.type = "START"
    <3>1. delayedCaptureRunning
      BY <2>2, <2>5 DEF BenchInv
    <3>2. capturing' = TRUE /\ delayedCaptureRunning' = TRUE
      BY <1>10, <2>5, <3>1, Zenon DEF RunPlay
    <3>. QED  BY <2>1, <2>2, <3>1, <3>2 DEF BenchInv, RoiInv, None
  <2>6. CASE k.type \notin {"START", "END"}
    <3>1. capturing' = capturing /\ delayedCaptureRunning' = delayedCaptureRunning
      BY <1>10, <1>t, <2>6, Zenon DEF RunPlay, TypeOK
    <3>. QED  BY <2>1, <2>2, <2>6, <3>1 DEF BenchInv, RoiInv, None
  <2>. QED  BY <2>4, <2>5, <2>6
<1>11. ASSUME RunTop \/ RunWait \/ RunLock \/ RunUnlock \/ RunBump \/ UNCHANGED vars PROVE Kept
  BY <1>11, <1>k
     DEF RunTop, RunWait, RunLock, RunUnlock, RunBump, vars, Idling, Pending
<1>. QED  BY <1>1, <1>2, <1>3, <1>4, <1>5, <1>6, <1>7, <1>8, <1>9, <1>10, <1>11
          DEF Next, IssStep, RunStep, Ended

\* The invariant of the benchmarks, together with what it rests on.
LEMMA BenchInvariance ==
  ASSUME TimesFit
  PROVE  Spec => [](IInv /\ BenchInv /\ RoiInv)
<1>1. PICK step \in Nat : Fits(step)
  BY DEF TimesFit
<1>. DEFINE Inv == IInv /\ TimeInv(step) /\ BenchInv /\ RoiInv
<1>2. Init => Inv
  <2>. SUFFICES ASSUME Init PROVE Inv
    OBVIOUS
  <2>1. TimeInv(step)
    BY TimesAssumption DEF Init, TimeInv
  <2>2. Pending = {}
    BY DEF Init, Pending
  <2>3. BenchInv
    BY <2>2 DEF Init, BenchInv, None
  <2>4. focusOnROI => notifying = FALSE /\ mInBenchmark = FALSE
    BY Zenon DEF Init
  <2>5. RoiInv
    BY <2>2, <2>4 DEF Init, RoiInv
  <2>. QED  BY <2>1, <2>3, <2>5, InitIInv
<1>3. Inv /\ [Next]_vars => Inv'
  BY <1>1, StepIInv, TimeStep, BenchStep DEF TimesFit, IInv
<1>. QED  BY <1>2, <1>3, PTL DEF Spec

\* The two threads of MainMemCosim keep in step, for every ring, quantum and number of
\* requests, while time stamps do not wrap.
THEOREM InStep ==
  ASSUME TimesFit
  PROVE  Spec => []ThreadsInStep
<1>1. IInv /\ BenchInv => CaptureEntire
  BY DEF BenchInv, CaptureEntire
<1>. QED
  BY <1>1, BenchInvariance, TypeCorrect, EpochWindowHolds, SlotExclusive, BiasesExact, PTL
     DEF ThreadsInStep

\* In ROI mode every data or device access that reaches the caches is counted by the
\* capture of its benchmark, wherever Run is when the benchmark starts and ends.
THEOREM Covers ==
  ASSUME TimesFit
  PROVE  Spec => CaptureCovers
<1>1. IInv /\ BenchInv /\ RoiInv /\ [Next]_vars =>
        [last' # last /\ last'.type \in {"CPU", "DEVICE"} /\ focusOnROI => capturing]_vars
  <2>. SUFFICES ASSUME IInv, BenchInv, RoiInv, Next, last' # last,
                       last'.type \in {"CPU", "DEVICE"}, focusOnROI
                PROVE  capturing
    OBVIOUS
  <2>1. RunPlay
    BY OnlyPlayPlays
  <2>2. last' = k /\ k \in Pending /\ k \in Req /\ k # None
    BY <2>1 DEF RunPlay, IInv, ControlInv, Pending, Req, None, Types
  <2>3. delayedCaptureRunning /\ \A s \in Pending : s.type = "START" => Before(s, k)
    BY <2>2 DEF RoiInv, Counted
  <2>4. \A s \in PQ : ~Before(s, k)
    BY <2>2 DEF IInv, OrderInv
  <2>5. \A s \in Pending : s.type # "START"
    BY <2>2, <2>3, <2>4 DEF Pending
  <2>. QED  BY <2>3, <2>5 DEF RoiInv
<1>. QED  BY BenchInvariance, <1>1, PTL DEF CaptureCovers, Spec

-----------------------------------------------------------------------------
(***************************************************************************)
(* The inductive invariant: where the one access there can be is.          *)
(***************************************************************************)

\* The message with the rest of a large datum.
TailOf(v) == [type |-> "tail", head |-> v]

\* A request with a message of its own for its data.
HasTail(r) == r.type = "WRITE" /\ r.large

\* The remote side is between accesses, or in one; both may be held up by an
\* interrupt.
Between == rpc \in {"run", "runIrq"}
Within  == rpc \in {"access", "accessIrq"}

\* What the remote side did last is the request the local side waits for.
Done ==
  /\ performed.type \in ResponseType /\ performed.addr = mRequest.addr
  /\ performed.type \in {"READ_OK", "WRITE_OK"} => performed.datum \in Value \X Value
  /\ performed.type = "READ_OK" => mRequest.type = "READ"
  /\ performed.type = "WRITE_OK" =>
       \A i \in IF mRequest.large THEN {1, 2} ELSE {1} : performed.datum[i] = mRequest.head

\* a is the answer to it.
Answer(a) ==
  /\ a \in Response /\ Done /\ performed.type = a.type
  /\ a.type = "READ_OK" => a.head = performed.datum[1] /\ a.large = mRequest.large
  /\ a.type # "READ_OK" => a.large = FALSE

\* The request is in the stream, with its tail once that is sent.
Sent ==
  /\ lpc \in {"sendTail", "await"} /\ Between /\ answers = <<>>
  /\ requests = IF lpc = "await" /\ HasTail(mRequest)
                THEN <<mRequest, TailOf(mRequest.head)>> ELSE <<mRequest>>

\* The remote side has the request and waits for the tail.
HalfTaken ==
  /\ lpc \in {"sendTail", "await"} /\ rpc = "readTail" /\ answers = <<>>
  /\ trans = mRequest /\ HasTail(mRequest)
  /\ requests = IF lpc = "await" THEN <<TailOf(mRequest.head)>> ELSE <<>>

\* The remote side performs the request.
Served ==
  /\ lpc = "await" /\ Within /\ requests = <<>> /\ answers = <<>>
  /\ trans.type = mRequest.type /\ trans.addr = mRequest.addr
  /\ trans.large = mRequest.large /\ trans.head = mRequest.head
  /\ HasTail(mRequest) => trans.tail = mRequest.head

\* The remote side has answered and has the tail of the answer yet to write.
HalfAnswered ==
  /\ rpc = "answerTail" /\ trans.addr \in Mapped
  /\ mem[trans.addr][2] = performed.datum[2]

\* The answer is in the stream, or its first half is.
Answered ==
  /\ lpc = "await" /\ requests = <<>>
  /\ \/ \E a \in Response : /\ Answer(a) /\ answers = <<a>>
                            /\ IF a.large THEN HalfAnswered ELSE Between
     \/ \E a \in Response : /\ Answer(a) /\ a.large /\ Between
                            /\ answers = <<a, TailOf(performed.datum[2])>>

\* The local side has the first half of the answer.
HalfRead ==
  /\ lpc = "awaitTail" /\ requests = <<>>
  /\ Answer(mResponse) /\ mResponse.large /\ buffer[1] = mResponse.head
  /\ \/ HalfAnswered /\ answers = <<>>
     \/ Between /\ answers = <<TailOf(performed.datum[2])>>

\* After the remote process died: what it still answered can be taken.
Orphaned ==
  /\ rpc = "dead" /\ Len(requests) <= 2
  /\ lpc \in {"run", "sendTail", "killed"} \/ eof => answers = <<>>
  /\ lpc = "await" =>
       \/ answers = <<>>
       \/ \E a \in Response : Answer(a) /\ answers = <<a>>
       \/ \E a \in Response : Answer(a) /\ a.large /\ answers = <<a, TailOf(performed.datum[2])>>
  /\ lpc = "awaitTail" /\ ~eof =>
       /\ Answer(mResponse) /\ mResponse.large /\ buffer[1] = mResponse.head
       /\ answers \in {<<>>, <<TailOf(performed.datum[2])>>}

\* Between two accesses.
AtRest == lpc = "run" /\ Between /\ requests = <<>> /\ answers = <<>>

\* The access is in one of these phases.
Phase ==
  \/ ~eof /\ (AtRest \/ Sent \/ HalfTaken \/ Served \/ Answered \/ HalfRead)
  \/ Orphaned

\* The types that the phases do not give.
Typed ==
  /\ lpc \in {"run", "sendTail", "await", "awaitTail", "killed"}
  /\ rpc \in {"run", "readTail", "access", "answerTail", "runIrq", "accessIrq", "dead"}
  /\ mRequest \in Request \cup {NoRequest} /\ mResponse \in Response
  /\ lpc \in {"sendTail", "await", "awaitTail"} => mRequest \in Request
  /\ lpc = "sendTail" => HasTail(mRequest)
  /\ buffer \in Value \X Value /\ status \in ResponseType \cup {"none", "failed"}
  /\ mem \in [Mapped -> Value \X Value] /\ lline \in {0, 1} /\ rline \in {0, 1}
  /\ eof \in BOOLEAN
  /\ irqs \in Seq({0, 1}) /\ Len(irqs) <= IrqCapacity

\* The inductive invariant.
LinkInv == Typed /\ Phase /\ AnswersMatch

-----------------------------------------------------------------------------
(***************************************************************************)
(* Facts about pairs and short streams.                                    *)
(***************************************************************************)

\* Replacing one component of a pair.
LEMMA PairExcept ==
  ASSUME NEW S, NEW p \in S \X S, NEW v \in S
  PROVE  /\ [p EXCEPT ![1] = v] \in S \X S
         /\ [p EXCEPT ![1] = v][1] = v /\ [p EXCEPT ![1] = v][2] = p[2]
         /\ [p EXCEPT ![2] = v] \in S \X S
         /\ [p EXCEPT ![2] = v][2] = v /\ [p EXCEPT ![2] = v][1] = p[1]
OBVIOUS

\* Streams of one and of two messages.
LEMMA ShortStreams ==
  ASSUME NEW a, NEW b
  PROVE  /\ <<a>> # <<>> /\ Head(<<a>>) = a /\ Tail(<<a>>) = <<>> /\ Len(<<a>>) = 1
         /\ <<a, b>> # <<>> /\ Head(<<a, b>>) = a /\ Tail(<<a, b>>) = <<b>> /\ Len(<<a, b>>) = 2
         /\ Append(<<>>, a) = <<a>> /\ Append(<<a>>, b) = <<a, b>> /\ Len(<<>>) = 0
<1>1. <<a>> # <<>> /\ Head(<<a>>) = a /\ Len(<<a>>) = 1
  OBVIOUS
<1>2. Tail(<<a>>) = <<>>
  OBVIOUS
<1>3. <<a, b>> # <<>> /\ Head(<<a, b>>) = a /\ Len(<<a, b>>) = 2
  OBVIOUS
<1>4. Tail(<<a, b>>) = <<b>>
  OBVIOUS
<1>5. Append(<<>>, a) = <<a>>
  OBVIOUS
<1>6. Append(<<a>>, b) = <<a, b>>
  <2>. DEFINE S == {a, b}
  <2>1. <<a>> \in Seq(S) /\ <<a, b>> \in Seq(S) /\ b \in S /\ Len(<<a>>) = 1 /\ Len(<<a, b>>) = 2
    OBVIOUS
  <2>. HIDE DEF S
  <2>2. /\ Append(<<a>>, b) \in Seq(S) /\ Len(Append(<<a>>, b)) = 2
        /\ Append(<<a>>, b)[1] = a /\ Append(<<a>>, b)[2] = b
    BY <2>1
  <2>3. \A i \in 1 .. Len(<<a, b>>) : Append(<<a>>, b)[i] = <<a, b>>[i]
    BY <2>1, <2>2
  <2>. QED  BY <2>1, <2>2, <2>3, SeqEqual
<1>. QED  BY <1>1, <1>2, <1>3, <1>4, <1>5, <1>6

\* The invariant holds when both processes start.
LEMMA InitLink == RemoteInit => LinkInv
<1>. SUFFICES ASSUME RemoteInit PROVE LinkInv
  OBVIOUS
<1>1. Typed
  <2>1. /\ <<0, 0>> \in Value \X Value
        /\ mem \in [Mapped -> Value \X Value]
    BY RemoteAssumption DEF RemoteInit
  <2>2. irqs \in Seq({0, 1}) /\ Len(irqs) <= IrqCapacity
    BY RemoteAssumption DEF RemoteInit
  <2>. QED  BY <2>1, <2>2 DEF RemoteInit, Typed
<1>2. AtRest /\ ~eof
  BY DEF RemoteInit, AtRest, Between
<1>3. AnswersMatch
  BY DEF RemoteInit, AnswersMatch, ResponseType
<1>. QED  BY <1>1, <1>2, <1>3 DEF LinkInv, Phase

-----------------------------------------------------------------------------
(***************************************************************************)
(* The steps of the local side.                                            *)
(***************************************************************************)

\* What an answer is depends on the request and on what was done, nothing else.
LEMMA AnswerKept ==
  ASSUME NEW a, UNCHANGED <<performed, mRequest>>
  PROVE  Answer(a)' <=> Answer(a)
BY DEF Answer, Done

\* The phases without the one in which the remote process is dead, by what the
\* local side is doing.
LEMMA PhaseOfLocal ==
  ASSUME Phase, ~Orphaned
  PROVE  /\ ~eof /\ rpc # "dead"
         /\ lpc = "run" => AtRest
         /\ lpc = "sendTail" => Sent \/ HalfTaken
         /\ lpc = "await" => Sent \/ HalfTaken \/ Served \/ Answered
         /\ lpc = "awaitTail" => HalfRead
         /\ lpc # "killed"
BY DEF Phase, AtRest, Sent, HalfTaken, Served, Answered, HalfRead, HalfAnswered, Between, Within

\* A new access finds the link at rest.
LEMMA AccessKeeps ==
  ASSUME LinkInv, NEW r \in Request, remoteAccess(r)
  PROVE  LinkInv'
<1>. USE DEF localVars, farVars
<1>1. lpc' \in {"sendTail", "await", "run", "killed"} /\ mRequest' = r /\ eof' = eof
  BY DEF remoteAccess, Submit
<1>2. lpc' = "sendTail" => HasTail(r)
  BY DEF remoteAccess, Submit, HasTail
<1>3. lpc' = "run" => status' = "failed"
  BY DEF remoteAccess, Submit
<1>4. Typed'
  <2>1. status' \in ResponseType \cup {"none", "failed"}
    BY DEF remoteAccess, Submit, LinkInv, Typed
  <2>. QED  BY <1>1, <1>2, <2>1 DEF remoteAccess, LinkInv, Typed
<1>5. AnswersMatch'
  BY <1>3 DEF AnswersMatch, ResponseType
<1>6. CASE Orphaned
  <2>1. answers' = <<>> /\ rpc' = "dead" /\ requests' = requests
    BY <1>6 DEF remoteAccess, Submit, Orphaned
  <2>2. Orphaned'
    BY <1>1, <1>6, <2>1 DEF Orphaned
  <2>. QED  BY <1>4, <1>5, <2>2 DEF LinkInv, Phase
<1>7. CASE ~Orphaned
  <2>1. AtRest /\ ~eof
    BY <1>7, PhaseOfLocal DEF LinkInv, remoteAccess
  <2>2. /\ requests' = <<r>> /\ answers' = <<>> /\ Between'
        /\ lpc' = IF HasTail(r) THEN "sendTail" ELSE "await"
    BY <2>1, ShortStreams DEF AtRest, Between, remoteAccess, Submit, HasTail
  <2>3. Sent'
    BY <1>1, <2>2 DEF Sent
  <2>. QED  BY <1>1, <1>4, <1>5, <2>1, <2>3 DEF LinkInv, Phase
<1>. QED  BY <1>6, <1>7

\* The tail follows its request, whether that is still in the stream or taken.
LEMMA SendTailKeeps ==
  ASSUME LinkInv, sendTail
  PROVE  LinkInv'
<1>. USE DEF localVars, farVars
<1>1. lpc = "sendTail" /\ lpc' \in {"await", "run", "killed"} /\ mRequest' = mRequest
      /\ eof' = eof /\ answers' = answers /\ UNCHANGED <<rpc, trans>>
      /\ HasTail(mRequest) /\ mRequest \in Request
  BY DEF sendTail, Submit, LinkInv, Typed
<1>3. lpc' = "run" => status' = "failed"
  BY DEF sendTail, Submit
<1>4. Typed'
  <2>1. status' \in ResponseType \cup {"none", "failed"}
    BY DEF sendTail, Submit, LinkInv, Typed
  <2>. QED  BY <1>1, <2>1 DEF sendTail, LinkInv, Typed
<1>5. AnswersMatch'
  BY <1>3 DEF AnswersMatch, ResponseType
<1>6. CASE Orphaned
  <2>1. answers' = <<>> /\ rpc' = "dead" /\ requests' = requests
    BY <1>1, <1>6 DEF sendTail, Submit, Orphaned
  <2>2. Orphaned'
    BY <1>1, <1>6, <2>1 DEF Orphaned
  <2>. QED  BY <1>4, <1>5, <2>2 DEF LinkInv, Phase
<1>7. CASE ~Orphaned
  <2>1. (Sent \/ HalfTaken) /\ ~eof /\ rpc # "dead"
    BY <1>1, <1>7, PhaseOfLocal DEF LinkInv
  <2>2. lpc' = "await" /\ requests' = Append(requests, TailOf(mRequest.head))
    BY <2>1 DEF sendTail, Submit, TailOf
  <2>3. CASE Sent
    <3>1. requests' = <<mRequest, TailOf(mRequest.head)>>
      BY <1>1, <2>2, <2>3, ShortStreams DEF Sent
    <3>2. Sent'
      BY <1>1, <2>2, <2>3, <3>1 DEF Sent, Between, HasTail, TailOf
    <3>. QED  BY <1>1, <1>4, <1>5, <2>1, <3>2 DEF LinkInv, Phase
  <2>4. CASE HalfTaken
    <3>1. requests' = <<TailOf(mRequest.head)>>
      BY <1>1, <2>2, <2>4, ShortStreams DEF HalfTaken
    <3>2. HalfTaken'
      BY <1>1, <2>2, <2>4, <3>1 DEF HalfTaken, HasTail, TailOf
    <3>. QED  BY <1>1, <1>4, <1>5, <2>1, <3>2 DEF LinkInv, Phase
  <2>. QED  BY <2>1, <2>3, <2>4
<1>. QED  BY <1>6, <1>7

\* An interrupt message leaves the access alone.
LEMMA RtPollKeeps ==
  ASSUME LinkInv, rtPoll
  PROVE  LinkInv'
<1>. USE DEF localVars, farVars
<1>1. /\ lpc = "run" /\ lpc' \in {"run", "killed"}
      /\ UNCHANGED <<mRequest, mResponse, buffer, status, eof, rpc, performed, mem, requests, answers>>
  BY DEF rtPoll
<1>2. Typed'
  <2>1. irqs' \in Seq({0, 1}) /\ Len(irqs') <= IrqCapacity /\ lline' \in {0, 1}
    <3>1. CASE irqs # <<>> /\ lline' = Head(irqs) /\ irqs' = Tail(irqs)
      BY <3>1, HeadTailProperties, RemoteAssumption DEF LinkInv, Typed
    <3>2. CASE irqs' = irqs /\ lline' \in {0, 1, lline}
      BY <3>2 DEF LinkInv, Typed
    <3>. QED  BY <3>1, <3>2 DEF rtPoll
  <2>. QED  BY <1>1, <2>1 DEF rtPoll, LinkInv, Typed
<1>3. AnswersMatch'
  BY <1>1 DEF LinkInv, AnswersMatch
<1>4. CASE Orphaned
  BY <1>1, <1>2, <1>3, <1>4 DEF LinkInv, Phase, Orphaned
<1>5. CASE ~Orphaned
  <2>1. AtRest /\ ~eof /\ rpc # "dead"
    BY <1>1, <1>5, PhaseOfLocal DEF LinkInv
  <2>2. AtRest' /\ ~eof'
    BY <1>1, <2>1 DEF rtPoll, AtRest, Between
  <2>. QED  BY <1>2, <1>3, <2>2 DEF LinkInv, Phase
<1>. QED  BY <1>4, <1>5

\* The answer is taken: the access ends, or its tail is awaited.
LEMMA TakeAnswerKeeps ==
  ASSUME LinkInv, takeAnswer
  PROVE  LinkInv'
<1>. USE DEF localVars, farVars
<1>1. /\ lpc = "await" /\ mRequest \in Request
      /\ UNCHANGED <<mRequest, lline, rpc, trans, mem, performed, rline, requests, irqs>>
  BY DEF takeAnswer, LinkInv, Typed
<1>2. CASE answers = <<>> /\ rpc = "dead"
  <2>0. Orphaned
    BY <1>2 DEF LinkInv, Phase, AtRest, Sent, HalfTaken, Served, Answered, HalfRead,
                HalfAnswered, Between, Within
  <2>1. CASE Failed /\ UNCHANGED <<mResponse, buffer, eof, answers>>
    <3>1. Typed'
      BY <1>1, <2>1 DEF Failed, LinkInv, Typed
    <3>2. AnswersMatch'
      BY <2>1 DEF Failed, AnswersMatch, ResponseType
    <3>3. Orphaned'
      BY <1>1, <1>2, <2>0, <2>1 DEF Failed, Orphaned
    <3>. QED  BY <3>1, <3>2, <3>3 DEF LinkInv, Phase
  <2>2. CASE Taken
    <3>1. eof' = TRUE /\ UNCHANGED <<mResponse, answers>>
      BY <1>2, <2>2 DEF Taken
    <3>2. lpc' \in {"run", "awaitTail"}
          /\ buffer' \in {buffer, [buffer EXCEPT ![1] = mResponse.head]}
          /\ status' \in {status, mResponse.type, "failed"}
      BY <1>2, <2>2, <3>1 DEF takeAnswer, Failed
    <3>3. buffer' \in Value \X Value /\ status' \in ResponseType \cup {"none", "failed"}
      BY <3>2, PairExcept DEF LinkInv, Typed, Response
    <3>4. Typed'
      BY <1>1, <3>1, <3>2, <3>3 DEF LinkInv, Typed
    <3>5. AnswersMatch'
      BY <3>1 DEF AnswersMatch
    <3>6. Orphaned'
      BY <1>1, <1>2, <2>0, <3>1, <3>2 DEF Orphaned
    <3>. QED  BY <3>4, <3>5, <3>6 DEF LinkInv, Phase
  <2>. QED  BY <2>1, <2>2 DEF takeAnswer
<1>3. CASE ~(answers = <<>> /\ rpc = "dead")
  <2>1. answers # <<>> /\ Taken /\ mResponse' = Head(answers) /\ answers' = Tail(answers)
        /\ eof' = eof
    BY <1>3 DEF takeAnswer, Failed, Taken
  <2>2. ~eof
    BY <2>1 DEF LinkInv, Phase, Orphaned
  <2>3. PICK a \in Response :
          /\ Answer(a)
          /\ \/ answers = <<a>> /\ (rpc = "dead" \/ IF a.large THEN HalfAnswered ELSE Between)
             \/ /\ answers = <<a, TailOf(performed.datum[2])>>
                /\ a.large /\ (rpc = "dead" \/ Between)
    <3>1. CASE Orphaned
      BY <1>1, <2>1, <3>1 DEF Orphaned
    <3>2. CASE ~Orphaned
      BY <1>1, <2>1, <3>2, PhaseOfLocal DEF LinkInv, Sent, HalfTaken, Served, Answered
    <3>. QED  BY <3>1, <3>2
  <2>4. /\ mResponse' = a
        /\ \/ answers' = <<>> /\ (rpc = "dead" \/ IF a.large THEN HalfAnswered ELSE Between)
           \/ /\ answers' = <<TailOf(performed.datum[2])>>
              /\ a.large /\ (rpc = "dead" \/ Between)
    <3>1. CASE answers = <<a>> /\ (rpc = "dead" \/ IF a.large THEN HalfAnswered ELSE Between)
      BY <2>1, <3>1, ShortStreams
    <3>2. CASE /\ answers = <<a, TailOf(performed.datum[2])>>
               /\ a.large /\ (rpc = "dead" \/ Between)
      BY <2>1, <3>2, ShortStreams
    <3>. QED  BY <2>3, <3>1, <3>2
  <2>5. /\ a.type \in ResponseType /\ a.large \in BOOLEAN /\ a.head \in Value
        /\ a.large => a.type = "READ_OK"
        /\ a.type = "READ_OK" => mRequest.type = "READ"
    BY <2>3 DEF Response, Answer, Done
  <2>6. \/ /\ a.type = "READ_OK" /\ buffer' = [buffer EXCEPT ![1] = a.head]
           /\ a.large /\ lpc' = "awaitTail" /\ status' = status
        \/ /\ a.type = "READ_OK" /\ buffer' = [buffer EXCEPT ![1] = a.head]
           /\ ~a.large /\ lpc' = "run" /\ status' = a.type
        \/ a.type # "READ_OK" /\ ~a.large /\ lpc' = "run" /\ status' = a.type /\ buffer' = buffer
    BY <2>1, <2>4, <2>5 DEF takeAnswer, Failed
  <2>7. /\ buffer' \in Value \X Value
        /\ a.type = "READ_OK" => buffer'[1] = a.head
    BY <2>5, <2>6, PairExcept DEF LinkInv, Typed
  <2>8. Typed'
    BY <1>1, <2>1, <2>4, <2>5, <2>6, <2>7 DEF LinkInv, Typed
  <2>9. AnswersMatch'
    <3>. SUFFICES ASSUME lpc' = "run" PROVE AnswersMatch'
      BY DEF AnswersMatch
    <3>1. ~a.large /\ status' = a.type /\ performed' = performed /\ mRequest' = mRequest
      BY <1>1, <2>6
    <3>. QED  BY <2>3, <2>7, <3>1 DEF AnswersMatch, Answer, Done
  <2>10. Answer(mResponse)'
    BY <1>1, <2>3, <2>4 DEF Answer, Done
  <2>11. CASE rpc = "dead"
    <3>1. Len(requests') <= 2
      BY <1>1, <2>11 DEF LinkInv, Phase, Orphaned, AtRest, Sent, HalfTaken, Served, Answered,
                         HalfRead, HalfAnswered, Between, Within
    <3>2. ~a.large => answers' = <<>>
      BY <2>4
    <3>3. Orphaned'
      BY <1>1, <2>1, <2>2, <2>4, <2>6, <2>7, <2>10, <2>11, <3>1, <3>2 DEF Orphaned, TailOf
    <3>. QED  BY <2>8, <2>9, <3>3 DEF LinkInv, Phase
  <2>12. CASE rpc # "dead"
    <3>1. requests' = <<>>
      BY <1>1, <2>1, <2>12, PhaseOfLocal DEF LinkInv, Orphaned, Sent, HalfTaken, Served, Answered
    <3>2. CASE a.large
      <4>1. HalfRead'
        BY <1>1, <2>4, <2>6, <2>7, <2>10, <2>12, <3>1, <3>2
           DEF HalfRead, HalfAnswered, Between, TailOf
      <4>. QED  BY <2>1, <2>2, <2>8, <2>9, <4>1 DEF LinkInv, Phase
    <3>3. CASE ~a.large
      <4>1. AtRest'
        BY <1>1, <2>4, <2>6, <2>12, <3>1, <3>3 DEF AtRest, Between
      <4>. QED  BY <2>1, <2>2, <2>8, <2>9, <4>1 DEF LinkInv, Phase
    <3>. QED  BY <3>2, <3>3
  <2>. QED  BY <2>11, <2>12
<1>. QED  BY <1>2, <1>3

\* The tail is taken: the access ends with the whole datum.
LEMMA TakeTailKeeps ==
  ASSUME LinkInv, takeTail
  PROVE  LinkInv'
<1>. USE DEF localVars, farVars
<1>1. /\ lpc = "awaitTail" /\ mRequest \in Request /\ lpc' = "run"
      /\ UNCHANGED <<mRequest, mResponse, lline, rpc, trans, mem, performed, rline, requests, irqs>>
  BY DEF takeTail, Failed, LinkInv, Typed
<1>2. CASE answers = <<>> /\ rpc = "dead"
  <2>0. Orphaned
    BY <1>2 DEF LinkInv, Phase, AtRest, Sent, HalfTaken, Served, Answered, HalfRead,
                HalfAnswered, Between, Within
  <2>1. /\ answers' = answers /\ buffer' = buffer
        /\ \/ eof' = eof /\ status' = "failed"
           \/ eof' = TRUE /\ status' = mResponse.type
    BY <1>2 DEF takeTail, Failed
  <2>2. Typed'
    BY <1>1, <2>1 DEF LinkInv, Typed, Response
  <2>3. AnswersMatch'
    BY <2>1 DEF AnswersMatch, ResponseType
  <2>4. Orphaned'
    BY <1>1, <1>2, <2>0, <2>1 DEF Orphaned
  <2>. QED  BY <2>2, <2>3, <2>4 DEF LinkInv, Phase
<1>3. CASE ~(answers = <<>> /\ rpc = "dead")
  <2>1. /\ answers # <<>> /\ answers' = Tail(answers) /\ status' = mResponse.type
        /\ buffer' = [buffer EXCEPT ![2] = Head(answers).head] /\ eof' = eof
    BY <1>3 DEF takeTail, Failed
  <2>2. ~eof
    BY <2>1 DEF LinkInv, Phase, Orphaned
  <2>3. /\ Answer(mResponse) /\ mResponse.large /\ buffer[1] = mResponse.head
        /\ answers = <<TailOf(performed.datum[2])>> /\ (Between \/ rpc = "dead")
    <3>1. CASE Orphaned
      BY <1>1, <2>1, <2>2, <3>1 DEF Orphaned
    <3>2. CASE ~Orphaned
      BY <1>1, <2>1, <3>2, PhaseOfLocal DEF LinkInv, HalfRead
    <3>. QED  BY <3>1, <3>2
  <2>4. answers' = <<>> /\ Head(answers).head = performed.datum[2]
    BY <2>1, <2>3, ShortStreams DEF TailOf
  <2>5. mResponse.type = "READ_OK" /\ performed.datum \in Value \X Value
    BY <2>3 DEF Answer, Done
  <2>6. /\ buffer' \in Value \X Value
        /\ buffer'[1] = performed.datum[1] /\ buffer'[2] = performed.datum[2]
    <3>1. performed.datum[2] \in Value /\ buffer \in Value \X Value
      BY <2>5 DEF LinkInv, Typed
    <3>2. performed.datum[1] = buffer[1]
      BY <2>3, <2>5 DEF Answer
    <3>. QED  BY <2>1, <2>4, <3>1, <3>2, PairExcept
  <2>7. Typed'
    BY <1>1, <2>1, <2>2, <2>5, <2>6 DEF LinkInv, Typed, ResponseType
  <2>8. AnswersMatch'
    BY <1>1, <2>1, <2>3, <2>5, <2>6 DEF AnswersMatch, Answer, Done
  <2>9. CASE rpc = "dead"
    <3>1. Orphaned
      BY <2>9 DEF LinkInv, Phase, AtRest, Sent, HalfTaken, Served, Answered, HalfRead,
                  HalfAnswered, Between, Within
    <3>2. Orphaned'
      BY <1>1, <2>4, <2>9, <3>1 DEF Orphaned
    <3>. QED  BY <2>7, <2>8, <3>2 DEF LinkInv, Phase
  <2>10. CASE rpc # "dead"
    <3>1. HalfRead
      BY <1>1, <2>10, PhaseOfLocal DEF LinkInv, Orphaned
    <3>2. AtRest'
      BY <1>1, <2>3, <2>4, <2>10, <3>1 DEF AtRest, HalfRead, Between
    <3>. QED  BY <2>1, <2>2, <2>7, <2>8, <3>2 DEF LinkInv, Phase
  <2>. QED  BY <2>9, <2>10
<1>. QED  BY <1>2, <1>3

-----------------------------------------------------------------------------
(***************************************************************************)
(* The steps of the remote side.                                           *)
(***************************************************************************)

\* The phases by what the remote side is doing, while it lives.
LEMMA PhaseOfRemote ==
  ASSUME Phase, rpc # "dead"
  PROVE  /\ ~eof
         /\ rpc \in {"run", "runIrq"} => AtRest \/ Sent \/ Answered \/ HalfRead
         /\ rpc = "readTail" => HalfTaken
         /\ rpc \in {"access", "accessIrq"} => Served
         /\ rpc = "answerTail" => Answered \/ HalfRead
BY DEF Phase, AtRest, Sent, HalfTaken, Served, Answered, HalfRead, HalfAnswered, Between,
       Within, Orphaned

\* A stream holds at most a message and its tail.
LEMMA StreamsShort ==
  ASSUME Phase, Typed
  PROVE  Len(requests) <= 2 /\ Len(answers) <= 2
<1>. DEFINE Short(s) == s = <<>> \/ (\E a : s = <<a>>) \/ (\E a, b : s = <<a, b>>)
<1>1. ASSUME NEW s, Short(s) PROVE Len(s) <= 2
  <2>1. CASE s = <<>>
    BY <2>1
  <2>2. CASE \E a : s = <<a>>
    <3>1. PICK a : s = <<a>>
      BY <2>2
    <3>. QED  BY <3>1
  <2>3. CASE \E a, b : s = <<a, b>>
    <3>1. PICK a, b : s = <<a, b>>
      BY <2>3
    <3>. QED  BY <3>1
  <2>. QED  BY <1>1, <2>1, <2>2, <2>3
<1>2. CASE Orphaned
  <2>1. Short(answers)
    BY <1>2 DEF Orphaned, Typed
  <2>. HIDE DEF Short
  <2>. QED  BY <1>1, <1>2, <2>1 DEF Orphaned
<1>3. CASE AtRest \/ Sent \/ HalfTaken \/ Served \/ Answered \/ HalfRead
  <2>1. Short(requests)
    BY <1>3 DEF AtRest, Sent, HalfTaken, Served, Answered, HalfRead
  <2>2. Short(answers)
    BY <1>3 DEF AtRest, Sent, HalfTaken, Served, Answered, HalfRead
  <2>. HIDE DEF Short
  <2>. QED  BY <1>1, <2>1, <2>2
<1>. QED  BY <1>2, <1>3 DEF Phase

\* A step that leaves the local side, its line and the memory alone keeps the
\* types and what an access that is over returned.
LEMMA FarTypes ==
  ASSUME LinkInv, UNCHANGED <<localVars, lline>>, UNCHANGED performed \/ lpc # "run",
         mem' \in [Mapped -> Value \X Value], rline' \in {0, 1},
         rpc' \in {"run", "readTail", "access", "answerTail", "runIrq", "accessIrq", "dead"},
         irqs' \in Seq({0, 1}), Len(irqs') <= IrqCapacity
  PROVE  Typed' /\ AnswersMatch'
BY DEF LinkInv, Typed, AnswersMatch, localVars

\* The request is taken: its tail is read next, or it is performed.
LEMMA TakeRequestKeeps ==
  ASSUME LinkInv, takeRequest
  PROVE  LinkInv'
<1>. USE DEF localVars
<1>1. /\ rpc = "run" /\ requests # <<>> /\ trans' = Head(requests) /\ requests' = Tail(requests)
      /\ UNCHANGED <<localVars, lline, mem, performed, rline, answers, irqs>>
  BY DEF takeRequest
<1>2. Sent /\ ~eof
  BY <1>1, PhaseOfRemote DEF LinkInv, AtRest, Answered, HalfRead
<1>3. mRequest \in Request /\ (lpc = "sendTail" => HasTail(mRequest))
  BY <1>2 DEF LinkInv, Typed, Sent
<1>4. trans' = mRequest
  BY <1>1, <1>2, ShortStreams DEF Sent
<1>5. rpc' = IF HasTail(mRequest) THEN "readTail" ELSE "access"
  BY <1>3, <1>4 DEF takeRequest, HasTail, Request
<1>6. Typed' /\ AnswersMatch'
  BY <1>1, <1>5, FarTypes DEF LinkInv, Typed
<1>7. CASE HasTail(mRequest)
  <2>1. requests' = IF lpc = "await" THEN <<TailOf(mRequest.head)>> ELSE <<>>
    BY <1>1, <1>2, <1>7, ShortStreams DEF Sent
  <2>2. HalfTaken'
    BY <1>1, <1>2, <1>4, <1>5, <1>7, <2>1 DEF Sent, HalfTaken, HasTail, TailOf
  <2>. QED  BY <1>1, <1>2, <1>6, <2>2 DEF LinkInv, Phase
<1>8. CASE ~HasTail(mRequest)
  <2>1. requests' = <<>> /\ lpc = "await"
    BY <1>1, <1>2, <1>3, <1>8, ShortStreams DEF Sent
  <2>2. Served'
    BY <1>1, <1>2, <1>4, <1>5, <1>8, <2>1 DEF Sent, Served, HasTail, Within
  <2>. QED  BY <1>1, <1>2, <1>6, <2>2 DEF LinkInv, Phase
<1>. QED  BY <1>7, <1>8

\* The tail is read: the request is whole.
LEMMA ReadTailKeeps ==
  ASSUME LinkInv, readTail
  PROVE  LinkInv'
<1>. USE DEF localVars
<1>1. /\ rpc = "readTail" /\ rpc' = "access" /\ requests # <<>> /\ requests' = Tail(requests)
      /\ trans' = [type |-> trans.type, addr |-> trans.addr, large |-> TRUE,
                   head |-> trans.head, tail |-> Head(requests).head]
      /\ UNCHANGED <<localVars, lline, mem, performed, rline, answers, irqs>>
  BY DEF readTail
<1>2. HalfTaken /\ ~eof
  BY <1>1, PhaseOfRemote DEF LinkInv
<1>3. lpc = "await" /\ requests = <<TailOf(mRequest.head)>> /\ HasTail(mRequest) /\ trans = mRequest
  BY <1>1, <1>2 DEF HalfTaken
<1>4. requests' = <<>> /\ Head(requests).head = mRequest.head
  BY <1>1, <1>3, ShortStreams DEF TailOf
<1>5. mRequest \in Request /\ mRequest.large = TRUE
  BY <1>3 DEF LinkInv, Typed, HasTail, Request
<1>6. Typed' /\ AnswersMatch'
  BY <1>1, FarTypes DEF LinkInv, Typed
<1>7. Served'
  BY <1>1, <1>2, <1>3, <1>4, <1>5 DEF HalfTaken, Served, HasTail, Within
<1>. QED  BY <1>1, <1>2, <1>6, <1>7 DEF LinkInv, Phase

\* The access of the remote bus and its answer.
LEMMA LocalAccessKeeps ==
  ASSUME LinkInv, localAccess
  PROVE  LinkInv'
<1>. USE DEF localVars
<1>1. rpc = "access" /\ UNCHANGED <<localVars, lline, trans, rline, requests, irqs>>
  BY DEF localAccess
<1>2. Served /\ ~eof
  BY <1>1, PhaseOfRemote DEF LinkInv
<1>3. /\ lpc = "await" /\ requests = <<>> /\ answers = <<>>
      /\ trans.type = mRequest.type /\ trans.addr = mRequest.addr
      /\ trans.large = mRequest.large /\ trans.head = mRequest.head
      /\ HasTail(mRequest) => trans.tail = mRequest.head
  BY <1>2 DEF Served
<1>4. /\ mRequest \in Request /\ mRequest.type \in {"READ", "WRITE"} /\ mRequest.head \in Value
      /\ mRequest.large \in BOOLEAN
  BY <1>3 DEF LinkInv, Typed, Request
<1>5. CASE trans.addr \in Mapped
  <2>. DEFINE done == IF trans.type = "READ" THEN "READ_OK" ELSE "WRITE_OK"
              tailed == trans.type = "READ" /\ trans.large
  <2>0. PICK a : a = [type |-> done, large |-> tailed,
                      head |-> IF trans.type = "READ" THEN Datum[1] ELSE 0]
    OBVIOUS
  <2>1. /\ mem' = [mem EXCEPT ![trans.addr] = Datum]
        /\ answers' = Append(answers, a)
        /\ performed' = [type |-> done, addr |-> trans.addr, datum |-> Datum]
        /\ rpc' = IF tailed THEN "answerTail" ELSE "run"
    BY <1>5, <2>0 DEF localAccess
  <2>2. mem[trans.addr] \in Value \X Value
    BY <1>5 DEF LinkInv, Typed
  <2>3. /\ Datum \in Value \X Value
        /\ trans.type = "WRITE" =>
             \A i \in IF mRequest.large THEN {1, 2} ELSE {1} : Datum[i] = mRequest.head
    <3>1. CASE trans.type = "READ"
      BY <2>2, <3>1 DEF Datum
    <3>2. CASE trans.type = "WRITE" /\ trans.large
      BY <1>3, <1>4, <3>2 DEF Datum, HasTail
    <3>3. CASE trans.type = "WRITE" /\ ~trans.large
      BY <1>3, <1>4, <2>2, <3>3, PairExcept DEF Datum
    <3>. QED  BY <1>3, <1>4, <3>1, <3>2, <3>3
  <2>. HIDE DEF Datum
  <2>4. mem' \in [Mapped -> Value \X Value] /\ mem'[trans.addr] = Datum
    BY <1>5, <2>1, <2>3 DEF LinkInv, Typed
  <2>5. Typed' /\ AnswersMatch'
    BY <1>1, <1>3, <2>1, <2>4, FarTypes DEF LinkInv, Typed
  <2>6. a \in Response /\ answers' = <<a>>
    <3>1. a.head \in Value /\ tailed \in BOOLEAN /\ done \in ResponseType
      BY <1>3, <1>4, <2>0, <2>3, RemoteAssumption DEF ResponseType
    <3>. QED  BY <1>3, <2>0, <2>1, <3>1, ShortStreams DEF Response
  <2>7. Done'
    <3>1. performed'.type = done /\ performed'.addr = trans.addr /\ performed'.datum = Datum
      BY <2>1
    <3>. QED  BY <1>1, <1>3, <1>4, <2>3, <3>1 DEF Done, ResponseType
  <2>8. Answer(a)'
    <3>1. /\ performed'.type = a.type
          /\ a.type = "READ_OK" => a.head = performed'.datum[1] /\ a.large = mRequest.large
          /\ a.type # "READ_OK" => a.large = FALSE
      BY <1>3, <1>4, <2>0, <2>1
    <3>. QED  BY <1>1, <2>6, <2>7, <3>1 DEF Answer
  <2>9. IF a.large THEN HalfAnswered' ELSE Between'
    BY <1>1, <1>5, <2>0, <2>1, <2>4 DEF HalfAnswered, Between
  <2>10. Answered'
    BY <1>1, <1>3, <2>6, <2>8, <2>9 DEF Answered
  <2>. QED  BY <1>1, <1>2, <2>5, <2>10 DEF LinkInv, Phase
<1>6. CASE trans.addr \notin Mapped
  <2>. DEFINE done == IF trans.type = "READ" THEN "READ_ERR" ELSE "WRITE_ERR"
              a == [type |-> done, large |-> FALSE, head |-> 0]
  <2>1. /\ answers' = Append(answers, a) /\ mem' = mem /\ rpc' = "run"
        /\ performed' = [type |-> done, addr |-> trans.addr]
    BY <1>6 DEF localAccess
  <2>2. Typed' /\ AnswersMatch'
    BY <1>1, <1>3, <2>1, FarTypes DEF LinkInv, Typed
  <2>3. a \in Response /\ answers' = <<a>>
    BY <1>3, <2>1, ShortStreams, RemoteAssumption DEF Response, ResponseType
  <2>4. Answer(a)'
    BY <1>1, <1>3, <2>1, <2>3 DEF Answer, Done, ResponseType
  <2>5. Answered'
    BY <1>1, <1>3, <2>1, <2>3, <2>4 DEF Answered, Between
  <2>. QED  BY <1>1, <1>2, <2>2, <2>5 DEF LinkInv, Phase
<1>. QED  BY <1>5, <1>6

\* The tail of the answer, whether its head is still in the stream or taken.
LEMMA AnswerTailKeeps ==
  ASSUME LinkInv, answerTail
  PROVE  LinkInv'
<1>. USE DEF localVars
<1>1. /\ rpc = "answerTail" /\ rpc' = "run"
      /\ answers' = Append(answers, TailOf(mem[trans.addr][2]))
      /\ UNCHANGED <<localVars, lline, trans, mem, performed, rline, requests, irqs>>
  BY DEF answerTail, TailOf
<1>2. (Answered \/ HalfRead) /\ ~eof
  BY <1>1, PhaseOfRemote DEF LinkInv
<1>3. Typed' /\ AnswersMatch'
  BY <1>1, FarTypes DEF LinkInv, Typed
<1>4. CASE Answered
  <2>1. PICK a \in Response : Answer(a) /\ answers = <<a>> /\ a.large /\ HalfAnswered
    BY <1>1, <1>4 DEF Answered, Between
  <2>2. answers' = <<a, TailOf(performed.datum[2])>>
    <3>1. answers' = Append(<<a>>, TailOf(performed.datum[2]))
      BY <1>1, <2>1 DEF HalfAnswered
    <3>. QED  BY <3>1, ShortStreams
  <2>3. Answer(a)'
    BY <1>1, <2>1, AnswerKept
  <2>4. Answered'
    BY <1>1, <1>4, <2>1, <2>2, <2>3 DEF Answered, Between, TailOf
  <2>. QED  BY <1>1, <1>2, <1>3, <2>4 DEF LinkInv, Phase
<1>5. CASE HalfRead
  <2>1. HalfAnswered /\ answers = <<>>
    BY <1>1, <1>5 DEF HalfRead, Between
  <2>2. answers' = <<TailOf(performed.datum[2])>>
    BY <1>1, <2>1, ShortStreams DEF HalfAnswered
  <2>3. HalfRead'
    BY <1>1, <1>5, <2>2 DEF HalfRead, Between, TailOf, Answer, Done
  <2>. QED  BY <1>1, <1>2, <1>3, <2>3 DEF LinkInv, Phase
<1>. QED  BY <1>2, <1>4, <1>5

\* A change of the interrupt line holds up the remote side, and nothing else.
LEMMA IrqKeeps ==
  ASSUME LinkInv, (\E v \in {0, 1} : interrupt(v)) \/ writeIrq
  PROVE  LinkInv'
<1>. USE DEF localVars
<1>1. /\ UNCHANGED <<localVars, lline, trans, mem, performed, requests, answers>>
      /\ \/ rpc \in {"run", "runIrq"} /\ rpc' \in {"run", "runIrq"}
         \/ rpc \in {"access", "accessIrq"} /\ rpc' \in {"access", "accessIrq"}
  BY DEF interrupt, writeIrq
<1>2. rline' \in {0, 1} /\ irqs' \in Seq({0, 1}) /\ Len(irqs') <= IrqCapacity
  <2>1. rline' \in {0, 1}
    BY DEF interrupt, writeIrq, LinkInv, Typed
  <2>2. /\ \/ irqs' = irqs
           \/ Len(irqs) < IrqCapacity /\ \E v \in {0, 1} : irqs' = Append(irqs, v)
        /\ irqs \in Seq({0, 1}) /\ Len(irqs) <= IrqCapacity
    BY DEF interrupt, writeIrq, LinkInv, Typed
  <2>. QED  BY <2>1, <2>2, AppendProperties, RemoteAssumption
<1>3. Typed' /\ AnswersMatch'
  BY <1>1, <1>2, FarTypes DEF LinkInv, Typed
<1>4. ~eof /\ rpc # "dead"
  BY <1>1, PhaseOfRemote DEF LinkInv
<1>5. CASE rpc \in {"run", "runIrq"}
  <2>1. AtRest \/ Sent \/ Answered \/ HalfRead
    BY <1>4, <1>5, PhaseOfRemote DEF LinkInv
  <2>2. CASE AtRest \/ Sent \/ HalfRead
    BY <1>1, <1>3, <1>4, <1>5, <2>2
       DEF LinkInv, Phase, AtRest, Sent, HalfRead, HalfAnswered, Between, Answer, Done, TailOf, HasTail
  <2>3. CASE Answered
    <3>1. PICK a \in Response :
            Answer(a) /\ Between /\ (\/ answers = <<a>> /\ ~a.large
                                     \/ answers = <<a, TailOf(performed.datum[2])>> /\ a.large)
      <4>1. ~HalfAnswered
        BY <1>5 DEF HalfAnswered
      <4>2. CASE \E a \in Response : /\ Answer(a) /\ answers = <<a>>
                                     /\ IF a.large THEN HalfAnswered ELSE Between
        <5>1. PICK a \in Response : /\ Answer(a) /\ answers = <<a>>
                                    /\ IF a.large THEN HalfAnswered ELSE Between
          BY <4>2
        <5>2. ~a.large /\ Between
          BY <4>1, <5>1
        <5>. QED  BY <5>1, <5>2
      <4>3. CASE \E a \in Response : /\ Answer(a) /\ a.large /\ Between
                                     /\ answers = <<a, TailOf(performed.datum[2])>>
        BY <4>3
      <4>. QED  BY <2>3, <4>2, <4>3 DEF Answered
    <3>2. Answer(a)' /\ Between'
      BY <1>1, <1>5, <3>1, AnswerKept DEF Between
    <3>3. Answered'
      BY <1>1, <2>3, <3>1, <3>2 DEF Answered, TailOf
    <3>. QED  BY <1>1, <1>3, <1>4, <3>3 DEF LinkInv, Phase
  <2>. QED  BY <2>1, <2>2, <2>3
<1>6. CASE rpc \in {"access", "accessIrq"}
  <2>1. Served
    BY <1>4, <1>6, PhaseOfRemote DEF LinkInv
  <2>2. Served'
    BY <1>1, <1>6, <2>1 DEF Served, Within, HasTail
  <2>. QED  BY <1>1, <1>3, <1>4, <2>2 DEF LinkInv, Phase
<1>. QED  BY <1>1, <1>5, <1>6

\* The death of the remote process leaves what it wrote.
LEMMA DiesKeeps ==
  ASSUME LinkInv, RemoteDies
  PROVE  LinkInv'
<1>. USE DEF localVars
<1>1. /\ rpc # "dead" /\ rpc' = "dead"
      /\ UNCHANGED <<localVars, lline, trans, mem, performed, rline, requests, answers, irqs>>
  BY DEF RemoteDies
<1>2. Typed' /\ AnswersMatch'
  BY <1>1, FarTypes DEF LinkInv, Typed
<1>3. ~eof /\ (AtRest \/ Sent \/ HalfTaken \/ Served \/ Answered \/ HalfRead)
  BY <1>1 DEF LinkInv, Phase, Orphaned
<1>4. Len(requests) <= 2
  BY StreamsShort DEF LinkInv
<1>5. CASE Answered
  <2>1. PICK a \in Response :
          Answer(a) /\ (\/ answers = <<a>>
                        \/ answers = <<a, TailOf(performed.datum[2])>> /\ a.large)
    BY <1>5 DEF Answered
  <2>2. Answer(a)'
    BY <1>1, <2>1, AnswerKept
  <2>3. Orphaned'
    BY <1>1, <1>3, <1>4, <1>5, <2>1, <2>2 DEF Orphaned, Answered, TailOf
  <2>. QED  BY <1>2, <2>3 DEF LinkInv, Phase
<1>6. CASE HalfRead
  <2>1. Answer(mResponse)'
    BY <1>1, <1>6 DEF HalfRead, Answer, Done
  <2>2. Orphaned'
    BY <1>1, <1>3, <1>4, <1>6, <2>1 DEF Orphaned, HalfRead, TailOf
  <2>. QED  BY <1>2, <2>2 DEF LinkInv, Phase
<1>7. CASE AtRest \/ Sent \/ HalfTaken \/ Served
  <2>1. answers = <<>> /\ lpc # "awaitTail"
    BY <1>7 DEF AtRest, Sent, HalfTaken, Served
  <2>2. Orphaned'
    BY <1>1, <1>4, <2>1 DEF Orphaned
  <2>. QED  BY <1>2, <2>2 DEF LinkInv, Phase
<1>. QED  BY <1>3, <1>5, <1>6, <1>7

-----------------------------------------------------------------------------
\* Every step of either process keeps the invariant.
LEMMA StepLink == LinkInv /\ [RemoteNext]_remoteVars => LinkInv'
<1>. SUFFICES ASSUME LinkInv, [RemoteNext]_remoteVars PROVE LinkInv'
  OBVIOUS
<1>1. CASE UNCHANGED remoteVars
  <2>1. Typed' /\ AnswersMatch'
    BY <1>1 DEF LinkInv, Typed, AnswersMatch, HasTail, remoteVars, localVars, farVars
  <2>2. Phase'
    <3>. USE <1>1 DEF remoteVars, localVars, farVars, Answer, Done, HasTail, TailOf, Between
    <3>1. AtRest => AtRest'
      BY DEF AtRest
    <3>2. Sent => Sent'
      BY DEF Sent
    <3>3. HalfTaken => HalfTaken'
      BY DEF HalfTaken
    <3>4. Served => Served'
      BY DEF Served, HalfAnswered, Within
    <3>5. Answered => Answered'
      BY DEF Answered, HalfAnswered, Within
    <3>6. HalfRead => HalfRead'
      BY DEF HalfRead, HalfAnswered, Within
    <3>7. Orphaned => Orphaned'
      BY DEF Orphaned
    <3>8. eof' = eof
      OBVIOUS
    <3>. QED  BY <3>1, <3>2, <3>3, <3>4, <3>5, <3>6, <3>7, <3>8 DEF LinkInv, Phase
  <2>. QED  BY <2>1, <2>2 DEF LinkInv
<1>2. CASE \E r \in Request : (r.type = "READ" => r.head = 0) /\ remoteAccess(r)
  BY <1>2, AccessKeeps
<1>3. CASE \E v \in {0, 1} : interrupt(v)
  BY <1>3, IrqKeeps
<1>4. CASE localStep
  BY <1>4, SendTailKeeps, TakeAnswerKeeps, TakeTailKeeps, RtPollKeeps DEF localStep
<1>5. CASE farStep
  BY <1>5, TakeRequestKeeps, ReadTailKeeps, LocalAccessKeeps, AnswerTailKeeps, IrqKeeps
     DEF farStep
<1>6. CASE RemoteDies
  BY <1>6, DiesKeeps
<1>7. CASE RemoteStopped
  BY <1>1, <1>7 DEF RemoteStopped
<1>. QED  BY <1>1, <1>2, <1>3, <1>4, <1>5, <1>6, <1>7 DEF RemoteNext

\* The invariant gives that the link is in step.
LEMMA LinkImplied == LinkInv => LinkInStep
<1>. SUFFICES ASSUME LinkInv PROVE LinkInStep
  OBVIOUS
<1>1. Len(requests) <= 2 /\ Len(answers) <= 2
  BY StreamsShort DEF LinkInv
<1>3. RemoteTypeOK
  BY <1>1 DEF LinkInv, Typed, RemoteTypeOK
<1>4. StreamsInStep
  BY DEF LinkInv, Phase, StreamsInStep, AtRest, Sent, HalfTaken, Served, Answered, HalfRead,
         Orphaned
<1>. QED  BY <1>3, <1>4 DEF LinkInv, LinkInStep

\* Requests, answers and their tails stay matched, for any number of accesses and
\* interrupts and whenever the remote process dies: what an access returns is what
\* the remote bus did for it (RemoteTransaction.hpp, remoteRead, remoteWrite, poll).
THEOREM LinkStaysInStep == RemoteSpec => []LinkInStep
<1>1. LinkInv /\ [RemoteNext]_remoteVars => LinkInv'
  BY StepLink
<1>. QED  BY InitLink, LinkImplied, <1>1, PTL DEF RemoteSpec
=============================================================================
