----------------------------- MODULE IssWrapper -----------------------------
(***************************************************************************)
(* The SystemC side of instruction set simulators                          *)
(* (src/components/compute/issWrapper.cpp, issLibWrapper.cpp,              *)
(* src/core/quantum.cpp): the calls the simulator of a processor makes     *)
(* (the plugin functions), its time, which runs ahead of SystemC's by less *)
(* than a quantum, its waits and its timeouts.                             *)
(*                                                                         *)
(* SystemC runs one thread at a time, until it waits: current is the       *)
(* processor that runs, if any.  The state of a processor is the wait it   *)
(* is in: wake is the end of it.  The dates a run counts are nanoseconds.  *)
(*                                                                         *)
(* History variables: overdue, an atomic section was run and time was not  *)
(* synchronised since; waitStart, when the wait began; owedAt, when the    *)
(* oldest interrupt not yet seen was raised; asked, the last date still to *)
(* come that a timeout was asked for, while none has come since.           *)
(***************************************************************************)
EXTENDS Integers, FiniteSetsExt

CONSTANTS Cpus, NoCpu,
          Quantum,
          InstrCounts,       \* instructions between two calls
          Timers,            \* internal timers of a processor
          Deadlines,         \* dates a timer is set to
          WaitsForInterrupt, \* processors with the wait_for_interrupt attribute
          BootDelay,         \* delay_before_boot
          MaxAhead,          \* bound: local time in an atomic section
          IssHorizon         \* bound: last date of a run

ASSUME IssAssumption ==
    /\ Quantum \in Nat \ {0} /\ InstrCounts \subseteq Nat /\ Deadlines \subseteq Nat
    /\ NoCpu \notin Cpus /\ WaitsForInterrupt \subseteq Cpus
    /\ BootDelay \in [Cpus -> Nat] /\ IssHorizon \in Nat /\ MaxAhead \in Nat

VARIABLES issNow, current, state, wake, local_time, next_sync_point,
          atomic_flag, mWasInterrupted, mWaitForInterrupt, timeout_event,
          overdue, waitStart, owedAt, asked

issVars == <<issNow, current, state, wake, local_time, next_sync_point, atomic_flag,
             mWasInterrupted, mWaitForInterrupt, timeout_event, overdue, waitStart, owedAt, asked>>
timerVars == <<timeout_event, asked>>
irqVars == <<mWasInterrupted, mWaitForInterrupt, owedAt>>

NoDate == IssHorizon + 100        \* later than any date of a run
Running(c) == current = c /\ state[c] = "running"
NextMultiple(t) == (t \div Quantum + 1) * Quantum

-----------------------------------------------------------------------------
(* The quantum keeper. *)
need_sync(c, local) == issNow + local >= next_sync_point[c]

(* wait(local time): the thread stops until then. *)
WaitAs(c, kind, local) ==
    /\ local_time' = [local_time EXCEPT ![c] = local]
    /\ state' = [state EXCEPT ![c] = kind]
    /\ wake' = [wake EXCEPT ![c] = issNow + local]
    /\ waitStart' = [waitStart EXCEPT ![c] = issNow]
    /\ current' = NoCpu
    /\ overdue' = [overdue EXCEPT ![c] = FALSE]
    /\ UNCHANGED next_sync_point

(* Mutant: what is past the quantum is not waited for. *)
syncTruncated(c, local) ==
    IF need_sync(c, local) THEN WaitAs(c, "sync", Max({0, next_sync_point[c] - issNow}))
    ELSE /\ local_time' = [local_time EXCEPT ![c] = local]
         /\ UNCHANGED <<state, wake, current, next_sync_point, waitStart, overdue>>
sync(c, local) ==
    IF need_sync(c, local) THEN WaitAs(c, "sync", local)
    ELSE /\ local_time' = [local_time EXCEPT ![c] = local]
         /\ UNCHANGED <<state, wake, current, next_sync_point, waitStart, overdue>>

reset(c) ==
    /\ local_time' = [local_time EXCEPT ![c] = 0]
    /\ next_sync_point' = [next_sync_point EXCEPT ![c] = NextMultiple(issNow)]

-----------------------------------------------------------------------------
IssInit ==
    /\ issNow = 0 /\ current = NoCpu
    /\ state = [c \in Cpus |-> "boot"] /\ wake = BootDelay
    /\ local_time = [c \in Cpus |-> 0] /\ next_sync_point = [c \in Cpus |-> Quantum]
    /\ atomic_flag = [c \in Cpus |-> FALSE]
    /\ mWasInterrupted = [c \in Cpus |-> FALSE] /\ mWaitForInterrupt = {}
    /\ timeout_event = [c \in Cpus |-> [i \in Timers |-> NoDate]]
    /\ overdue = [c \in Cpus |-> FALSE] /\ waitStart = [c \in Cpus |-> 0]
    /\ owedAt = [c \in Cpus |-> NoDate]
    /\ asked = [c \in Cpus |-> [i \in Timers |-> NoDate]]

(* Instructions and accesses: their time is counted, and synchronised      *)
(* unless the processor is in an atomic section.                           *)
iss_fetch_sync(c, n) ==
    /\ Running(c) /\ (atomic_flag[c] => local_time[c] + n <= MaxAhead)
    /\ IF atomic_flag[c]
       THEN /\ local_time' = [local_time EXCEPT ![c] = @ + n]
            /\ overdue' = [overdue EXCEPT ![c] = TRUE]
            /\ UNCHANGED <<state, wake, current, next_sync_point, waitStart>>
       ELSE sync(c, local_time[c] + n)
    /\ UNCHANGED <<issNow, atomic_flag, irqVars, timerVars>>

(* A device access passes the time the bus adds to it (see TlmBus).        *)
iss_rw_sync(c, delay) == iss_fetch_sync(c, delay)

iss_update_atomic_flag(c, val) ==
    /\ Running(c) /\ atomic_flag[c] # val
    /\ atomic_flag' = [atomic_flag EXCEPT ![c] = val]
    /\ UNCHANGED <<issNow, current, state, wake, local_time, next_sync_point, overdue,
                   waitStart, irqVars, timerVars>>

(* The processor gives its time back, or waits for an interrupt if it has  *)
(* none to give.                                                           *)
iss_force_sync(c, n) ==
    /\ Running(c)
    /\ IF local_time[c] + n # 0 THEN WaitAs(c, "forced", local_time[c] + n)
       ELSE /\ state' = [state EXCEPT ![c] = "idle"]
            /\ wake' = [wake EXCEPT ![c] = issNow + Quantum]
            /\ waitStart' = [waitStart EXCEPT ![c] = issNow]
            /\ current' = NoCpu
            /\ UNCHANGED <<local_time, next_sync_point, overdue>>
    /\ UNCHANGED <<issNow, atomic_flag, irqVars, timerVars>>

(* An iteration of waitForEvent that finds no interrupt.  It adds what is  *)
(* left up to the sync point, which is negative after an atomic section    *)
(* that ran past it.  Times wrap around, so the wait then ends at the sync *)
(* point all the same, before the time the processor had; if SystemC is    *)
(* already past the sync point the wait itself wraps, and the kernel ends  *)
(* it at once or never.                                                    *)
WaitForEvent(c, local) ==
    LET left == next_sync_point[c] - issNow
    IN IF local = 0 THEN WaitAs(c, "wfe", Quantum)
       ELSE \E wait \in (IF left >= 0 THEN {left} ELSE {0, NoDate - issNow}) : WaitAs(c, "wfe", wait)

(* Mutant: interrupts that came before are forgotten. *)
waitForEventForgetful(c) ==
    /\ Running(c)
    /\ WaitForEvent(c, local_time[c])
    /\ mWasInterrupted' = [mWasInterrupted EXCEPT ![c] = FALSE]
    /\ UNCHANGED <<issNow, atomic_flag, mWaitForInterrupt, owedAt, timerVars>>
waitForEvent(c) ==
    /\ Running(c)
    /\ IF mWasInterrupted[c]
       THEN /\ mWasInterrupted' = [mWasInterrupted EXCEPT ![c] = FALSE]
            /\ owedAt' = [owedAt EXCEPT ![c] = NoDate]
            /\ UNCHANGED <<current, state, wake, local_time, next_sync_point, overdue, waitStart>>
       ELSE WaitForEvent(c, local_time[c]) /\ UNCHANGED <<mWasInterrupted, owedAt>>
    /\ UNCHANGED <<issNow, atomic_flag, mWaitForInterrupt, timerVars>>

(* A timer is set: the delay is the date less the processor's time, and it *)
(* starts now.  For a date that is past, the unsigned difference wraps to  *)
(* more nanoseconds than an sc_time holds and the conversion is undefined: *)
(* the builds in use notify at once or never.  An event keeps the earlier  *)
(* of two notifications.                                                   *)
TimeoutDates(c, d) ==
    LET delay == d - (issNow + local_time[c])
    IN IF delay >= 0 THEN {issNow + delay} ELSE {issNow, NoDate}
iss_request_timeout(c, i, d) ==
    /\ Running(c)
    /\ \E date \in TimeoutDates(c, d) :
          timeout_event' = [timeout_event EXCEPT ![c][i] = Min({@, date})]
    /\ asked' = IF d >= issNow + local_time[c] THEN [asked EXCEPT ![c][i] = d] ELSE asked
    /\ UNCHANGED <<issNow, current, state, wake, local_time, next_sync_point, atomic_flag,
                   irqVars, overdue, waitStart>>

(* mLib.run returns. *)
core_function_end(c) ==
    /\ Running(c)
    /\ state' = [state EXCEPT ![c] = "done"] /\ current' = NoCpu
    /\ UNCHANGED <<issNow, wake, local_time, next_sync_point, atomic_flag, irqVars, timerVars,
                   overdue, waitStart>>

(* An interrupt controller raises a line, in whatever thread.              *)
iss_update_irq(c) ==
    /\ state[c] \notin {"done", "never"}
    /\ mWasInterrupted' = [mWasInterrupted EXCEPT ![c] = TRUE]
    /\ mWaitForInterrupt' = mWaitForInterrupt \union {c}
    /\ owedAt' = [owedAt EXCEPT ![c] = Min({@, issNow})]
    /\ UNCHANGED <<issNow, current, state, wake, local_time, next_sync_point, atomic_flag,
                   timerVars, overdue, waitStart>>

-----------------------------------------------------------------------------
(* The kernel: a wait ends, an event is triggered, time passes.  A         *)
(* processor that is to wait for an interrupt to boot calls wait(true),    *)
(* which waits for a static sensitivity its thread does not have.          *)
Resume(c) ==
    /\ current = NoCpu /\ wake[c] = issNow
    /\ state[c] \in {"boot", "sync", "forced", "wfe", "idle"}
    /\ IF state[c] = "boot" /\ c \in WaitsForInterrupt
       THEN /\ state' = [state EXCEPT ![c] = "never"]
            /\ UNCHANGED <<current, wake, local_time, next_sync_point, mWasInterrupted, owedAt,
                           waitStart>>
       ELSE IF state[c] = "wfe" /\ ~mWasInterrupted[c]
       THEN /\ wake' = [wake EXCEPT ![c] = issNow + Quantum]
            /\ waitStart' = [waitStart EXCEPT ![c] = issNow]
            /\ local_time' = [local_time EXCEPT ![c] = Quantum]
            /\ next_sync_point' = [next_sync_point EXCEPT ![c] = NextMultiple(issNow)]
            /\ UNCHANGED <<current, state, mWasInterrupted, owedAt>>
       ELSE /\ state' = [state EXCEPT ![c] = "running"] /\ current' = c
            /\ IF state[c] \in {"boot", "idle"} THEN UNCHANGED <<local_time, next_sync_point>>
               ELSE reset(c)
            /\ IF state[c] = "wfe"
               THEN /\ mWasInterrupted' = [mWasInterrupted EXCEPT ![c] = FALSE]
                    /\ owedAt' = [owedAt EXCEPT ![c] = NoDate]
               ELSE UNCHANGED <<mWasInterrupted, owedAt>>
            /\ UNCHANGED <<wake, waitStart>>
    /\ UNCHANGED <<issNow, atomic_flag, mWaitForInterrupt, timerVars, overdue>>

NextIssDelta ==
    /\ current = NoCpu /\ mWaitForInterrupt # {}
    /\ mWaitForInterrupt' = {}
    /\ wake' = [c \in Cpus |-> IF c \in mWaitForInterrupt /\ state[c] = "idle" THEN issNow
                               ELSE wake[c]]
    /\ UNCHANGED <<issNow, current, state, local_time, next_sync_point, atomic_flag,
                   mWasInterrupted, owedAt, timerVars, overdue, waitStart>>

onTimeout(c, i) ==
    /\ current = NoCpu /\ timeout_event[c][i] = issNow
    /\ timeout_event' = [timeout_event EXCEPT ![c][i] = NoDate]
    /\ asked' = [asked EXCEPT ![c][i] = NoDate]
    /\ UNCHANGED <<issNow, current, state, wake, local_time, next_sync_point, atomic_flag,
                   irqVars, overdue, waitStart>>

Advance ==
    /\ current = NoCpu /\ mWaitForInterrupt = {} /\ issNow < IssHorizon
    /\ \A c \in Cpus : state[c] \notin {"done", "never"} => wake[c] # issNow
    /\ \A c \in Cpus, i \in Timers : timeout_event[c][i] # issNow
    /\ issNow' = issNow + 1
    /\ UNCHANGED <<current, state, wake, local_time, next_sync_point, atomic_flag, irqVars,
                   timerVars, overdue, waitStart>>

IssNext ==
    \/ \E c \in Cpus, n \in InstrCounts : iss_fetch_sync(c, n) \/ iss_rw_sync(c, n) \/ iss_force_sync(c, n)
    \/ \E c \in Cpus, val \in BOOLEAN : iss_update_atomic_flag(c, val)
    \/ \E c \in Cpus : waitForEvent(c) \/ core_function_end(c) \/ iss_update_irq(c) \/ Resume(c)
    \/ \E c \in Cpus, i \in Timers, d \in Deadlines : iss_request_timeout(c, i, d)
    \/ \E c \in Cpus, i \in Timers : onTimeout(c, i)
    \/ NextIssDelta \/ Advance

IssSpec == IssInit /\ [][IssNext]_issVars

-----------------------------------------------------------------------------
(* Type correctness. *)
IssTypeOK ==
    /\ issNow \in 0 .. IssHorizon /\ current \in Cpus \union {NoCpu}
    /\ \A c \in Cpus : /\ state[c] \in {"boot", "sync", "forced", "wfe", "idle", "running",
                                        "done", "never"}
                       /\ local_time[c] \in Nat

(* A processor that runs ahead of SystemC is less than a quantum ahead, up *)
(* to the next multiple of it, unless it was in an atomic section.         *)
AheadLessThanQuantum ==
    \A c \in Cpus : (Running(c) /\ ~overdue[c]) =>
        /\ local_time[c] = 0 \/ issNow + local_time[c] < next_sync_point[c]
        /\ next_sync_point[c] <= issNow + Quantum

(* A processor does not start to wait for an interrupt when there is one   *)
(* it has not seen.                                                        *)
NeverSleepsOnInterrupt ==
    \A c \in Cpus : (state[c] = "wfe" /\ owedAt[c] # NoDate) => owedAt[c] >= waitStart[c]

(* A timeout asked for a date still to come comes by then, whatever dates, *)
(* past ones too, are asked for in between.                                *)
TimeoutNotLate ==
    \A c \in Cpus, i \in Timers :
        asked[c][i] # NoDate => timeout_event[c][i] <= asked[c][i]

(* A processor that runs ahead keeps within its quantum and misses neither *)
(* an interrupt nor a timeout it asked for in time (issWrapper.cpp,        *)
(* quantum.cpp).                                                           *)
TimeKept == IssTypeOK /\ AheadLessThanQuantum /\ NeverSleepsOnInterrupt /\ TimeoutNotLate

ClockOf(c) == IF state[c] \in {"sync", "forced", "wfe"} THEN wake[c] ELSE issNow + local_time[c]

(* c waits for an event with an atomic section it has not synchronised.    *)
WaitsUnsynchronised(c) == Running(c) /\ overdue[c] /\ state'[c] = "wfe"

(* The time of a processor, which its timers are compared with, goes back  *)
(* in no step but the wait for an event after an atomic section that was   *)
(* not synchronised (issWrapper.hpp:109), whatever it and the others do.   *)
ClockNotBack ==
    [][\A c \in Cpus : ClockOf(c)' >= ClockOf(c) \/ WaitsUnsynchronised(c)]_issVars

(* ParallelQuantumKeeper: sync waits for regular quantum steps, multiples  *)
(* of the quantum.                                                         *)
SyncAtMultiples ==
    \A c \in Cpus : state[c] = "sync" => wake[c] % Quantum = 0
=============================================================================
