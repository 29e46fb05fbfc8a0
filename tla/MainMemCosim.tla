---------------------------- MODULE MainMemCosim ----------------------------
(***************************************************************************)
(* The co-simulation of the memory hierarchy (MainMemCosim.hpp).  Two      *)
(* threads: the ISS side (every callback of the instruction set simulator  *)
(* and every command of the monitor run on the SystemC thread) stamps each *)
(* memory access with its epoch and its time and pushes it on a priority   *)
(* queue; the thread of Run pops the requests of one complete epoch after  *)
(* the other and plays them on the simulated caches.  The delays Run adds  *)
(* up are read back by the ISS side EPOCHS epochs later, through a ring of *)
(* EPOCHS slots.                                                           *)
(*                                                                         *)
(* The two threads share _CpuEpoch, _MemEpoch and _Stopped without a lock. *)
(* They are aligned words that are read again after every usleep, so each  *)
(* read is modelled as one atomic step.                                    *)
(***************************************************************************)
EXTENDS Naturals, FiniteSets

CONSTANTS
  EPOCHS,       \* slots of the ring, _Mut and mTimes
  MAX_QUANTUM,  \* greatest offset of an access in its quantum
  Offsets,      \* values of exec, the offset of an access in its quantum
  Steps,        \* simulated time that passes between two calls of FillBiases
  TIMES,        \* number of values of a time stamp (uint64_t), it wraps
  QSize,        \* capacity of the queue of accomplished device accesses
  FirstBench,   \* least _epoch_sc_time at which a benchmark command is given
  MaxEpoch,     \* bound: calls of FillBiases
  MaxReqs       \* bound: requests

ASSUME EpochsAssumption == EPOCHS \in Nat /\ EPOCHS > 1
ASSUME TimesAssumption ==
  /\ MAX_QUANTUM \in Nat /\ TIMES \in Nat \ {0} /\ QSize \in Nat
  /\ Offsets \subseteq 0 .. MAX_QUANTUM
  /\ Steps \subseteq Nat
  /\ FirstBench \in Nat /\ MaxEpoch \in Nat /\ MaxReqs \in Nat

VARIABLES
  CpuEpoch,     \* _CpuEpoch
  MemEpoch,     \* _MemEpoch
  scTime,       \* _epoch_sc_time
  cur,          \* _current_time_stamp
  focusOnROI,   \* _focusOnROI, set when the platform is built
  notifying,    \* Notify = proceedNotify (else haltNotify)
  PQ,           \* _PQ
  issued,       \* number of requests pushed by the ISS side
  Mut,          \* _Mut: which thread holds each mutex
  mTimes,       \* for each slot, the requests whose delays it adds up
  accomplished, \* length of _Q_Accomplished
  Stopped,      \* _Stopped
  mInBenchmark, delayedCaptureRunning,
  isspc,        \* where the SystemC thread is
  runpc,        \* where the thread of Run is
  tmpMemEpoch,  \* the epoch Run works on
  k,            \* the request Run has popped and not played yet
  last,         \* history: the last request Run played
  capturing     \* history: StartCapture was played and EndCapture was not

epochs  == <<CpuEpoch, MemEpoch>>
issvars == <<scTime, cur, notifying, issued, mInBenchmark, Stopped>>
runvars == <<tmpMemEpoch, k, last, capturing>>
vars == <<epochs, issvars, runvars, focusOnROI, PQ, Mut, mTimes, accomplished,
          delayedCaptureRunning, isspc, runpc>>

Types == {"CPU", "FETCH", "DEVICE", "START", "END"}
Req   == [type : Types, epoch : Nat, time_stamp : Nat, n : Nat]
None  == [type |-> "none", epoch |-> 0, time_stamp |-> 0, n |-> 0]

Slot(e) == e % EPOCHS

\* compare_Req: the queue gives the earliest epoch first, and in an epoch the
\* earliest time stamp; equal ones come in any order.
Before(r, s) ==
  \/ r.epoch < s.epoch
  \/ r.epoch = s.epoch /\ r.time_stamp < s.time_stamp

Firsts == {r \in PQ : \A s \in PQ : ~Before(s, r)}

-----------------------------------------------------------------------------
(***************************************************************************)
(* The SystemC thread.                                                     *)
(***************************************************************************)

Push(type, t) ==
  /\ issued < MaxReqs
  /\ issued' = issued + 1
  /\ PQ' = PQ \cup {[type |-> type, epoch |-> CpuEpoch,
                     time_stamp |-> t % TIMES, n |-> issued']}

\* Notify: proceedNotify, or haltNotify which only keeps the time.
Notify(exec) ==
  /\ isspc = "run"
  /\ cur' = exec + scTime
  /\ IF notifying THEN Push("CPU", cur') ELSE UNCHANGED <<PQ, issued>>
  /\ UNCHANGED <<epochs, scTime, notifying, mInBenchmark, Stopped, runvars,
                 focusOnROI, Mut, mTimes, accomplished, delayedCaptureRunning,
                 isspc, runpc>>

\* NotifyFetchMiss takes the time of the last access, whenever that was.
NotifyFetchMiss ==
  /\ isspc = "run" /\ notifying
  /\ Push("FETCH", cur)
  /\ UNCHANGED <<epochs, scTime, cur, notifying, mInBenchmark, Stopped, runvars,
                 focusOnROI, Mut, mTimes, accomplished, delayedCaptureRunning,
                 isspc, runpc>>

NotifyIO(exec) ==
  /\ isspc = "run" /\ notifying
  /\ Push("DEVICE", exec + scTime)
  /\ UNCHANGED <<epochs, scTime, cur, notifying, mInBenchmark, Stopped, runvars,
                 focusOnROI, Mut, mTimes, accomplished, delayedCaptureRunning,
                 isspc, runpc>>

\* The ISS fetches the delay of an accomplished device access.
GetDelay ==
  /\ isspc = "run" /\ accomplished > 0
  /\ accomplished' = accomplished - 1
  /\ UNCHANGED <<epochs, issvars, runvars, focusOnROI, PQ, Mut, mTimes,
                 delayedCaptureRunning, isspc, runpc>>

\* The command "benchmark" while none runs: it is refused while the previous
\* one is still being captured.  NotifySesamCommand(counter, true).
StartBenchmark ==
  /\ isspc = "run" /\ ~mInBenchmark /\ ~delayedCaptureRunning
  /\ scTime >= FirstBench
  /\ delayedCaptureRunning' = TRUE
  /\ mInBenchmark' = TRUE
  /\ notifying' = (notifying \/ focusOnROI)
  /\ Push("START", scTime + (TIMES - 1))
  /\ UNCHANGED <<epochs, scTime, cur, Stopped, runvars, focusOnROI, Mut, mTimes,
                 accomplished, isspc, runpc>>

\* Mutant of EndBenchmark: the end sorts with the last access.
EndBenchmarkEarly ==
  /\ isspc = "run" /\ mInBenchmark
  /\ mInBenchmark' = FALSE
  /\ notifying' = (notifying /\ ~focusOnROI)
  /\ Push("END", scTime + MAX_QUANTUM)
  /\ UNCHANGED <<epochs, scTime, cur, Stopped, runvars, focusOnROI, Mut, mTimes,
                 accomplished, delayedCaptureRunning, isspc, runpc>>

\* Any command ends the benchmark that runs.  NotifySesamCommand(counter, false).
EndBenchmark ==
  /\ isspc = "run" /\ mInBenchmark
  /\ mInBenchmark' = FALSE
  /\ notifying' = (notifying /\ ~focusOnROI)
  /\ Push("END", scTime + MAX_QUANTUM + 1)
  /\ UNCHANGED <<epochs, scTime, cur, Stopped, runvars, focusOnROI, Mut, mTimes,
                 accomplished, delayedCaptureRunning, isspc, runpc>>

\* FillBiases, called at the end of each quantum, up to its wait.
FillBiases ==
  /\ isspc = "run" /\ CpuEpoch < MaxEpoch
  /\ CpuEpoch' = CpuEpoch + 1
  /\ isspc' = IF notifying THEN "wait" ELSE "time"
  /\ UNCHANGED <<MemEpoch, issvars, runvars, focusOnROI, PQ, Mut, mTimes,
                 accomplished, delayedCaptureRunning, runpc>>

\* Mutant of FillWait: the ISS side may run one more epoch ahead.
FillWaitLate ==
  /\ isspc = "wait" /\ ~(MemEpoch + EPOCHS < CpuEpoch)
  /\ isspc' = "lock"
  /\ UNCHANGED <<epochs, issvars, runvars, focusOnROI, PQ, Mut, mTimes,
                 accomplished, delayedCaptureRunning, runpc>>

FillWait ==
  /\ isspc = "wait" /\ ~(MemEpoch + EPOCHS <= CpuEpoch)
  /\ isspc' = "lock"
  /\ UNCHANGED <<epochs, issvars, runvars, focusOnROI, PQ, Mut, mTimes,
                 accomplished, delayedCaptureRunning, runpc>>

FillLock ==
  /\ isspc = "lock" /\ Mut[Slot(CpuEpoch)] = "free"
  /\ Mut' = [Mut EXCEPT ![Slot(CpuEpoch)] = "iss"]
  /\ isspc' = "fill"
  /\ UNCHANGED <<epochs, issvars, runvars, focusOnROI, PQ, mTimes, accomplished,
                 delayedCaptureRunning, runpc>>

\* fillBiases reads the delays of the slot and resets them, then the mutex is
\* released.
FillCollect ==
  /\ isspc = "fill"
  /\ mTimes' = [mTimes EXCEPT ![Slot(CpuEpoch)] = {}]
  /\ Mut' = [Mut EXCEPT ![Slot(CpuEpoch)] = "free"]
  /\ isspc' = "time"
  /\ UNCHANGED <<epochs, issvars, runvars, focusOnROI, PQ, accomplished,
                 delayedCaptureRunning, runpc>>

\* The last line of FillBiases takes the simulated time of the new quantum.
FillReturn ==
  /\ isspc = "time"
  /\ \E d \in Steps : scTime' = scTime + d
  /\ isspc' = "run"
  /\ UNCHANGED <<epochs, cur, notifying, issued, mInBenchmark, Stopped, runvars,
                 focusOnROI, PQ, Mut, mTimes, accomplished,
                 delayedCaptureRunning, runpc>>

\* Stop, called when the platform is destroyed, joins the thread of Run.
Stop ==
  /\ isspc = "run"
  /\ Stopped' = TRUE
  /\ isspc' = "join"
  /\ UNCHANGED <<epochs, scTime, cur, notifying, issued, mInBenchmark, runvars,
                 focusOnROI, PQ, Mut, mTimes, accomplished,
                 delayedCaptureRunning, runpc>>

Join ==
  /\ isspc = "join" /\ runpc = "done"
  /\ isspc' = "end"
  /\ UNCHANGED <<epochs, issvars, runvars, focusOnROI, PQ, Mut, mTimes,
                 accomplished, delayedCaptureRunning, runpc>>

-----------------------------------------------------------------------------
(***************************************************************************)
(* The thread of Run.                                                      *)
(***************************************************************************)

issUnchanged ==
  UNCHANGED <<CpuEpoch, issvars, focusOnROI, isspc>>

RunTop ==
  /\ runpc = "top"
  /\ runpc' = IF Stopped THEN "done" ELSE "wait"
  /\ tmpMemEpoch' = IF Stopped THEN tmpMemEpoch ELSE MemEpoch
  /\ UNCHANGED <<MemEpoch, k, last, capturing, PQ, Mut, mTimes, accomplished,
                 delayedCaptureRunning>>
  /\ issUnchanged

\* Mutant of RunWait: the current epoch of the ISS side is played too.
RunWaitEager ==
  /\ runpc = "wait" /\ (~(tmpMemEpoch > CpuEpoch) \/ Stopped)
  /\ runpc' = "pop"
  /\ UNCHANGED <<MemEpoch, runvars, PQ, Mut, mTimes, accomplished,
                 delayedCaptureRunning>>
  /\ issUnchanged

\* The epoch must be complete before it is played.
RunWait ==
  /\ runpc = "wait" /\ (~(tmpMemEpoch >= CpuEpoch) \/ Stopped)
  /\ runpc' = "pop"
  /\ UNCHANGED <<MemEpoch, runvars, PQ, Mut, mTimes, accomplished,
                 delayedCaptureRunning>>
  /\ issUnchanged

\* The first try_pop of an epoch.  Nothing left: the epoch was empty.  A request
\* of another epoch is put back and makes its epoch the current one.
RunPop ==
  /\ runpc = "pop"
  /\ \/ /\ PQ = {}
        /\ MemEpoch' = MemEpoch + 1
        /\ runpc' = "top"
        /\ UNCHANGED <<PQ, k>>
     \/ \E r \in Firsts :
          IF r.epoch # tmpMemEpoch
          THEN /\ MemEpoch' = r.epoch
               /\ runpc' = "top"
               /\ UNCHANGED <<PQ, k>>
          ELSE /\ k' = r
               /\ PQ' = PQ \ {r}
               /\ runpc' = "lock"
               /\ UNCHANGED MemEpoch
  /\ UNCHANGED <<tmpMemEpoch, last, capturing, Mut, mTimes, accomplished,
                 delayedCaptureRunning>>
  /\ issUnchanged

RunLock ==
  /\ runpc = "lock" /\ Mut[Slot(tmpMemEpoch)] = "free"
  /\ Mut' = [Mut EXCEPT ![Slot(tmpMemEpoch)] = "run"]
  /\ runpc' = "play"
  /\ UNCHANGED <<MemEpoch, runvars, PQ, mTimes, accomplished,
                 delayedCaptureRunning>>
  /\ issUnchanged

\* One round of the inner loop: a device access is reported, the insert spins
\* while the queue of accomplished accesses is full; a CPU access is played on
\* the caches and its delay added to the slot of the epoch; a command of the
\* monitor starts or ends the capture and leaves the loop.
RunPlay ==
  /\ runpc = "play"
  /\ k.type = "DEVICE" => accomplished < QSize
  /\ accomplished' = accomplished + (IF k.type = "DEVICE" THEN 1 ELSE 0)
  /\ mTimes' = IF k.type \in {"CPU", "FETCH"}
               THEN [mTimes EXCEPT ![Slot(MemEpoch)] = @ \cup {k}]
               ELSE mTimes
  /\ capturing' = (k.type = "START" \/ (capturing /\ k.type # "END"))
  /\ delayedCaptureRunning' = (delayedCaptureRunning /\ k.type # "END")
  /\ last' = k /\ k' = None
  /\ runpc' = IF k.type \in {"START", "END"} THEN "leave" ELSE "next"
  /\ UNCHANGED <<MemEpoch, tmpMemEpoch, PQ, Mut>>
  /\ issUnchanged

\* The condition of the inner loop and, if the next request is of another
\* epoch, its first branch.
RunNext ==
  /\ runpc = "next"
  /\ \/ /\ PQ = {}
        /\ runpc' = "unlock"
        /\ UNCHANGED <<MemEpoch, PQ, k>>
     \/ \E r \in Firsts :
          IF r.epoch # tmpMemEpoch
          THEN /\ MemEpoch' = r.epoch
               /\ runpc' = "leave"
               /\ UNCHANGED <<PQ, k>>
          ELSE /\ k' = r
               /\ PQ' = PQ \ {r}
               /\ runpc' = "play"
               /\ UNCHANGED MemEpoch
  /\ UNCHANGED <<tmpMemEpoch, last, capturing, Mut, mTimes, accomplished,
                 delayedCaptureRunning>>
  /\ issUnchanged

\* Mutant of RunUnlock: a loop left early keeps its mutex.
RunUnlockForgets ==
  /\ runpc \in {"unlock", "leave"}
  /\ Mut' = [Mut EXCEPT ![Slot(tmpMemEpoch)] =
                         IF runpc = "leave" THEN @ ELSE "free"]
  /\ runpc' = IF runpc = "leave" THEN "top" ELSE "bump"
  /\ UNCHANGED <<MemEpoch, runvars, PQ, mTimes, accomplished,
                 delayedCaptureRunning>>
  /\ issUnchanged

\* "leave" is exitLoop: the epoch stays the current one.
RunUnlock ==
  /\ runpc \in {"unlock", "leave"}
  /\ Mut' = [Mut EXCEPT ![Slot(tmpMemEpoch)] = "free"]
  /\ runpc' = IF runpc = "leave" THEN "top" ELSE "bump"
  /\ UNCHANGED <<MemEpoch, runvars, PQ, mTimes, accomplished,
                 delayedCaptureRunning>>
  /\ issUnchanged

RunBump ==
  /\ runpc = "bump"
  /\ MemEpoch' = MemEpoch + 1
  /\ runpc' = "top"
  /\ UNCHANGED <<runvars, PQ, Mut, mTimes, accomplished, delayedCaptureRunning>>
  /\ issUnchanged

-----------------------------------------------------------------------------

Init ==
  /\ focusOnROI \in BOOLEAN
  /\ notifying = ~focusOnROI
  /\ CpuEpoch = 0 /\ MemEpoch = 0 /\ scTime = 0 /\ cur = 0
  /\ PQ = {} /\ issued = 0
  /\ Mut = [s \in 0 .. EPOCHS - 1 |-> "free"]
  /\ mTimes = [s \in 0 .. EPOCHS - 1 |-> {}]
  /\ accomplished = 0
  /\ Stopped = FALSE /\ mInBenchmark = FALSE /\ delayedCaptureRunning = FALSE
  /\ isspc = "run" /\ runpc = "top"
  /\ tmpMemEpoch = 0 /\ k = None /\ last = None /\ capturing = FALSE

\* The steps of FillBiases and of Stop once called, and all of Run: the threads
\* are scheduled.  Everything else is up to the simulated program.
IssStep == FillWait \/ FillLock \/ FillCollect \/ FillReturn \/ Join
RunStep  == RunTop \/ RunWait \/ RunPop \/ RunLock \/ RunPlay \/ RunNext
              \/ RunUnlock \/ RunBump

\* The program has ended.
Ended == isspc = "end" /\ UNCHANGED vars

Next ==
  \/ \E exec \in Offsets : Notify(exec) \/ NotifyIO(exec)
  \/ NotifyFetchMiss \/ GetDelay \/ StartBenchmark \/ EndBenchmark
  \/ FillBiases \/ Stop
  \/ IssStep \/ RunStep
  \/ Ended

Spec == Init /\ [][Next]_vars /\ WF_vars(IssStep) /\ WF_vars(RunStep)

-----------------------------------------------------------------------------
(***************************************************************************)
(* Properties.                                                             *)
(***************************************************************************)

\* Run may still add to the slot of tmpMemEpoch; FillBiases is about to collect.
RunAdds   == runpc \in {"lock", "play", "next"}
FillWorks == isspc \in {"lock", "fill"}

\* Requests Run has not played yet.
Pending == PQ \cup ({k} \ {None})

\* The types of the shared and local state; in particular the ISS side never takes
\* more accomplished accesses than Run put in, and Run never overfills the queue.
TypeOK ==
  /\ CpuEpoch \in Nat /\ MemEpoch \in Nat /\ tmpMemEpoch \in Nat
  /\ scTime \in Nat /\ cur \in Nat /\ issued \in 0 .. MaxReqs
  /\ accomplished \in 0 .. QSize
  /\ PQ \subseteq Req /\ k \in Req \cup {None} /\ last \in Req \cup {None}
  /\ Mut \in [0 .. EPOCHS - 1 -> {"free", "iss", "run"}]
  /\ mTimes \in [0 .. EPOCHS - 1 -> SUBSET Req]
  /\ {focusOnROI, notifying, Stopped, mInBenchmark, delayedCaptureRunning,
      capturing} \subseteq BOOLEAN
  /\ isspc \in {"run", "wait", "lock", "fill", "time", "join", "end"}
  /\ runpc \in {"top", "wait", "pop", "lock", "play", "next", "unlock",
                "leave", "bump", "done"}

\* The slot FillBiases collects is never one Run still adds to (at most Run has
\* yet to unlock it), so the delays of one epoch are not split over two quanta.
BiasSlotExclusive ==
  FillWorks /\ RunAdds => Slot(CpuEpoch) # Slot(tmpMemEpoch)

\* When FillBiases collects a slot, every access of the epoch that slot is due
\* for has been played, and nothing of a later epoch is in it.  Outside of ROI
\* mode the delays are those of exactly one epoch, EPOCHS epochs ago; in ROI
\* mode what an earlier benchmark left in the slot may come on top.
BiasesOfEpoch ==
  isspc = "fill" =>
    /\ \A r \in Pending : r.epoch + EPOCHS > CpuEpoch
    /\ \A r \in mTimes[Slot(CpuEpoch)] :
         /\ r.epoch + EPOCHS <= CpuEpoch
         /\ Slot(r.epoch) = Slot(CpuEpoch)
         /\ ~focusOnROI => r.epoch + EPOCHS = CpuEpoch

\* Requests reach the caches in the order of their epochs and, in an epoch, of
\* their time stamps, although the ISS side pushes them out of order while Run
\* pops.
PlayedInOrder == [][last' # last => ~Before(last', last)]_vars

\* Run plays complete epochs only, and outside of ROI mode the ISS side is at
\* most EPOCHS epochs ahead, one less once FillBiases has returned.
EpochWindow ==
  /\ ~Stopped => MemEpoch <= CpuEpoch
  /\ ~focusOnROI => CpuEpoch <= MemEpoch + EPOCHS
  /\ ~focusOnROI /\ isspc = "run" => CpuEpoch < MemEpoch + EPOCHS

\* A new benchmark is accepted only when the previous one has been captured
\* entirely: neither its start nor its end is still on its way to the caches.
CaptureEntire ==
  ~delayedCaptureRunning =>
    ~capturing /\ \A r \in Pending : r.type \notin {"START", "END"}

\* What each thread of MainMemCosim relies on of the other while it runs: neither touches
\* the slot, the epoch or the capture the other is working on.
ThreadsInStep == TypeOK /\ BiasSlotExclusive /\ BiasesOfEpoch /\ EpochWindow /\ CaptureEntire

\* In ROI mode every data or device access that reaches the caches is counted
\* by the capture of its benchmark (a fetch miss may not be: its time is that
\* of the last access, which may lie before the start of the benchmark).
CaptureCovers ==
  [][last' # last /\ last'.type \in {"CPU", "DEVICE"} /\ focusOnROI
       => capturing]_vars

\* FillBiases returns: Run reaches every epoch the ISS side waits for.
FillBiasesReturns == isspc = "wait" ~> isspc = "run"

\* Stop returns, wherever Run is when it is called.
StopReturns == isspc = "join" ~> isspc = "end"

\* Every request of a complete epoch is played, unless the program is stopped.
CompleteEpochPlayed ==
  \A i \in 1 .. MaxReqs :
    (\E r \in PQ : r.n = i /\ r.epoch < CpuEpoch)
      ~> (Stopped \/ \A r \in Pending : r.n # i)

\* Neither thread waits for the other for ever: FillBiases and Stop return, and what a
\* complete epoch holds is played (MainMemCosim::FillBiases, Stop and Run).
ThreadsGoOn == FillBiasesReturns /\ StopReturns /\ CompleteEpochPlayed

=============================================================================
