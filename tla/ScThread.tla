------------------------------ MODULE ScThread ------------------------------
(***************************************************************************)
(* The part of the SystemC kernel that runs one thread (external code, as  *)
(* the schedulers of src/ use it): wait(time, event), wait(event) and a    *)
(* notification for the next delta cycle.                                  *)
(*                                                                         *)
(* While runnable is TRUE the thread is to run in the current delta cycle, *)
(* before or after the other processes that run in it.                     *)
(***************************************************************************)
EXTENDS Integers

CONSTANT MaxTime            \* bound: last date of a simulation
ASSUME MaxTimeAssumption == MaxTime \in Nat

VARIABLES now,              \* sc_time_stamp()
          runnable,         \* the thread runs in this delta cycle
          notified,         \* the event is notified for the next delta cycle
          wakeAt            \* end of the thread's timed wait, or Never

kernelVars == <<now, runnable, notified, wakeAt>>

Never == MaxTime + 1
Dates == 0 .. MaxTime

KernelInit == now = 0 /\ runnable = TRUE /\ notified = FALSE /\ wakeAt = Never

KernelTypeOK ==
    /\ now \in Dates /\ runnable \in BOOLEAN /\ notified \in BOOLEAN
    /\ wakeAt \in Dates \union {Never}

(* The thread gives up the processor until date or until the event.        *)
WaitUntil(date) == runnable /\ runnable' = FALSE /\ wakeAt' = date

(* Nothing more runs in this delta cycle. *)
NextDelta ==
    /\ ~runnable /\ (notified \/ wakeAt = now)
    /\ runnable' = TRUE /\ notified' = FALSE /\ wakeAt' = Never
    /\ UNCHANGED now

(* Nothing more runs at this date. *)
NextDate ==
    /\ ~runnable /\ ~notified /\ wakeAt # now /\ now < MaxTime
    /\ now' = now + 1
    /\ runnable' = (wakeAt = now')
    /\ wakeAt' = IF wakeAt = now' THEN Never ELSE wakeAt
    /\ UNCHANGED notified

Kernel == NextDelta \/ NextDate
=============================================================================
