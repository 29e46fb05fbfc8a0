----------------------------- MODULE LoggerCore -----------------------------
(***************************************************************************)
(* Loggers, their core and the scheduler of debug levels                   *)
(* (src/core/logger).  A logger is an object (an address) that registers   *)
(* under a name when it is built and leaves when it is destroyed.  Clients *)
(* make appointments: at a date, the debug level of a logger changes.  The *)
(* scheduler is a SystemC thread that copies the first appointment of its  *)
(* list and waits for its date, or for a new appointment.                  *)
(*                                                                         *)
(* History variables: made, the appointments the scheduler accepted (their *)
(* index is their identity), times, how often each was applied, done, how  *)
(* many were at each date, and crowded, the dates for which one was made   *)
(* at that very date.                                                      *)
(***************************************************************************)
EXTENDS ScThread, SequencesExt, FiniteSetsExt

CONSTANTS Loggers, LoggerNames, NoLogger,
          DebugLvls,           \* subset of Nat; dbg0 is 0
          MaxAppointments,     \* bound: appointments accepted
          MaxLoggerCalls       \* bound: constructions, destructions, settings

ASSUME LoggerAssumption ==
    /\ NoLogger \notin Loggers /\ LoggerNames # {}
    /\ 0 \in DebugLvls /\ DebugLvls \subseteq Nat
    /\ MaxAppointments \in Nat /\ MaxLoggerCalls \in Nat

VARIABLES mLoggers, mLoggingEnabled, mGlobalDebugLvl,
          alive, name, mEnabled, mDebugLvl,
          mSchedule, nextAppointment,
          loggerCalls, made, times, done, crowded
coreVars == <<mLoggers, mLoggingEnabled, mGlobalDebugLvl, alive, name, mEnabled, mDebugLvl>>
loggerVars == <<kernelVars, coreVars, mSchedule, nextAppointment, loggerCalls, made, times, done, crowded>>

NoAppointment == 0
isRegistered(l) == \E n \in LoggerNames : mLoggers[n] = l

LoggerInit ==
    /\ KernelInit
    /\ mLoggers = [n \in LoggerNames |-> NoLogger]
    /\ mLoggingEnabled = FALSE /\ mGlobalDebugLvl = 0
    /\ alive = {} /\ name \in [Loggers -> {CHOOSE n \in LoggerNames : TRUE}]
    /\ mEnabled = [l \in Loggers |-> FALSE] /\ mDebugLvl = [l \in Loggers |-> 0]
    /\ mSchedule = <<>> /\ nextAppointment = NoAppointment
    /\ loggerCalls = 0 /\ made = <<>> /\ times = <<>> /\ done = [date \in Dates |-> 0] /\ crowded = {}
Call == loggerCalls < MaxLoggerCalls /\ loggerCalls' = loggerCalls + 1
        /\ UNCHANGED <<kernelVars, mSchedule, nextAppointment, made, times, done, crowded>>

-----------------------------------------------------------------------------
(* The core. *)

(* A second logger of the same name is not registered and switches logging *)
(* off for all.                                                            *)
registerLogger(l, n) ==
    IF mLoggers[n] # NoLogger
    THEN /\ mLoggingEnabled' = FALSE
         /\ mEnabled' = [k \in Loggers |-> FALSE]
         /\ mDebugLvl' = [mDebugLvl EXCEPT ![l] = 0]
         /\ UNCHANGED mLoggers
    ELSE /\ mLoggers' = [mLoggers EXCEPT ![n] = l]
         /\ mEnabled' = [mEnabled EXCEPT ![l] = mLoggingEnabled]
         /\ mDebugLvl' = [mDebugLvl EXCEPT ![l] = mGlobalDebugLvl]
         /\ UNCHANGED mLoggingEnabled

construct(l, n) ==
    /\ Call /\ l \notin alive
    /\ alive' = alive \union {l} /\ name' = [name EXCEPT ![l] = n]
    /\ registerLogger(l, n)
    /\ UNCHANGED mGlobalDebugLvl

destroy(l) ==
    /\ Call /\ l \in alive
    /\ alive' = alive \ {l}
    /\ mLoggers' = IF isRegistered(l) THEN [mLoggers EXCEPT ![name[l]] = NoLogger] ELSE mLoggers
    /\ mEnabled' = [mEnabled EXCEPT ![l] = FALSE]
    /\ UNCHANGED <<mLoggingEnabled, mGlobalDebugLvl, name, mDebugLvl>>

enableLogging(enable) ==
    /\ Call
    /\ mLoggingEnabled' = enable
    /\ mEnabled' = [l \in Loggers |-> IF isRegistered(l) THEN enable ELSE mEnabled[l]]
    /\ UNCHANGED <<mLoggers, mGlobalDebugLvl, alive, name, mDebugLvl>>

setDebugLvl(n, lvl) ==
    /\ Call /\ mLoggers[n] # NoLogger
    /\ mDebugLvl' = [mDebugLvl EXCEPT ![mLoggers[n]] = lvl]
    /\ UNCHANGED <<mLoggers, mLoggingEnabled, mGlobalDebugLvl, alive, name, mEnabled>>

setGlobalDebugLvl(lvl) ==
    /\ Call
    /\ mGlobalDebugLvl' = lvl
    /\ mDebugLvl' = [l \in Loggers |-> IF isRegistered(l) THEN lvl ELSE mDebugLvl[l]]
    /\ UNCHANGED <<mLoggers, mLoggingEnabled, alive, name, mEnabled>>

canLogDebug(l, lvl) == mEnabled[l] /\ lvl <= mDebugLvl[l]

-----------------------------------------------------------------------------
(* The scheduler. *)
Date(a) == made[a].date

(* In front of the first appointment that is not earlier. *)
Position(date) ==
    Min({i \in DOMAIN mSchedule : Date(mSchedule[i]) >= date} \union {Len(mSchedule) + 1})

(* A name nobody is registered under gets a warning, and so does a date    *)
(* that has passed.                                                        *)
addLoggerAppointment(n, date, lvl) ==
    /\ mLoggers[n] # NoLogger /\ date >= now /\ Len(made) < MaxAppointments
    /\ made' = Append(made, [logger |-> mLoggers[n], date |-> date, lvl |-> lvl])
    /\ times' = Append(times, 0)
    /\ mSchedule' = InsertAt(mSchedule, Position(date), Len(made) + 1)
    /\ crowded' = IF date = now THEN crowded \union {date} ELSE crowded
    /\ notified' = TRUE
    /\ UNCHANGED <<coreVars, now, runnable, wakeAt, nextAppointment, loggerCalls, done>>

applyAppointment(a) ==
    /\ times' = [times EXCEPT ![a] = @ + 1] /\ done' = [done EXCEPT ![Date(a)] = @ + 1]
    /\ mDebugLvl' = IF isRegistered(made[a].logger)
                    THEN [mDebugLvl EXCEPT ![mLoggers[name[made[a].logger]]] = made[a].lvl]
                    ELSE mDebugLvl

isNow(a) == a # NoAppointment /\ Date(a) = now

(* Mutant: whatever ended the wait, the copy is applied. *)
loggerScheduleUntested ==
    LET left == IF nextAppointment # NoAppointment THEN Tail(mSchedule) ELSE mSchedule
    IN /\ mSchedule' = left
       /\ IF nextAppointment # NoAppointment THEN applyAppointment(nextAppointment)
          ELSE UNCHANGED <<times, done, mDebugLvl>>
       /\ IF left = <<>> THEN nextAppointment' = NoAppointment /\ WaitUntil(Never)
          ELSE nextAppointment' = Head(left) /\ WaitUntil(Date(Head(left)))
       /\ UNCHANGED <<mLoggers, mLoggingEnabled, mGlobalDebugLvl, alive, name, mEnabled,
                      now, notified, loggerCalls, made, crowded>>
(* From the return of one wait to the next one.  The appointment applied   *)
(* is the copy made before the wait; the one removed is the first of the   *)
(* list as it is now.                                                      *)
loggerSchedule ==
    LET left == IF isNow(nextAppointment) THEN Tail(mSchedule) ELSE mSchedule
    IN /\ mSchedule' = left
       /\ IF isNow(nextAppointment) THEN applyAppointment(nextAppointment)
          ELSE UNCHANGED <<times, done, mDebugLvl>>
       /\ IF left = <<>> THEN nextAppointment' = NoAppointment /\ WaitUntil(Never)
          ELSE nextAppointment' = Head(left) /\ WaitUntil(Date(Head(left)))
       /\ UNCHANGED <<mLoggers, mLoggingEnabled, mGlobalDebugLvl, alive, name, mEnabled,
                      now, notified, loggerCalls, made, crowded>>

LoggerKernel == Kernel /\ UNCHANGED <<coreVars, mSchedule, nextAppointment, loggerCalls,
                                      made, times, done, crowded>>

LoggerNext ==
    \/ \E l \in Loggers : (\E n \in LoggerNames : construct(l, n)) \/ destroy(l)
    \/ \E enable \in BOOLEAN : enableLogging(enable)
    \/ \E n \in LoggerNames, lvl \in DebugLvls :
          setDebugLvl(n, lvl) \/ \E date \in Dates : addLoggerAppointment(n, date, lvl)
    \/ \E lvl \in DebugLvls : setGlobalDebugLvl(lvl)
    \/ loggerSchedule
    \/ LoggerKernel

LoggerSpec == LoggerInit /\ [][LoggerNext]_loggerVars

-----------------------------------------------------------------------------
(* The types of the core, of the loggers and of the list of appointments   *)
(* (loggerCore.hpp, loggerScheduler.hpp).                                  *)
LoggerTypeOK ==
    /\ KernelTypeOK
    /\ mLoggers \in [LoggerNames -> Loggers \union {NoLogger}]
    /\ mLoggingEnabled \in BOOLEAN /\ mGlobalDebugLvl \in DebugLvls
    /\ alive \subseteq Loggers /\ name \in [Loggers -> LoggerNames]
    /\ mEnabled \in [Loggers -> BOOLEAN] /\ mDebugLvl \in [Loggers -> DebugLvls]
    /\ Range(mSchedule) \subseteq DOMAIN made
    /\ nextAppointment \in {NoAppointment} \union DOMAIN made

(* The core holds no logger that is gone, holds each under its own name,   *)
(* and a logger can log exactly when it is registered and logging is on: a *)
(* logger refused for its name stays silent (loggerCore.cpp:41).           *)
RegisteredFollowCore ==
    /\ \A n \in LoggerNames : mLoggers[n] # NoLogger =>
          mLoggers[n] \in alive /\ name[mLoggers[n]] = n
    /\ \A l \in Loggers : canLogDebug(l, 0) <=> (isRegistered(l) /\ mLoggingEnabled)

(* No appointment is left behind its date: the thread is awake, or will    *)
(* wake, at the date of the first of a list in order                       *)
(* (loggerScheduler.cpp:31).                                               *)
NoAppointmentLate ==
    /\ \A i \in DOMAIN mSchedule : Date(mSchedule[i]) >= now
    /\ \A i, j \in DOMAIN mSchedule : i < j => Date(mSchedule[i]) <= Date(mSchedule[j])

(* An appointment that has left the list was applied exactly once, unless  *)
(* another one was made for the same date when that date had come: that    *)
(* one goes in front of the appointment the thread is applying and leaves  *)
(* in its place (loggerScheduler.cpp:45).                                  *)
AppliedOnce ==
    \A a \in DOMAIN made \ Range(mSchedule) : times[a] = 1 \/ Date(a) \in crowded

(* Even then as many appointments of a date are applied as have left.      *)
AppliedAsManyAsLeft ==
    \A date \in Dates :
        done[date] = Cardinality({a \in DOMAIN made \ Range(mSchedule) : Date(a) = date})

(* Loggers come and go and appointments are made while the scheduler waits: *)
(* the core knows the loggers there are, and each change of level is made  *)
(* once and on its date (loggerCore.cpp, loggerScheduler.cpp).             *)
AppointmentsKept == /\ LoggerTypeOK /\ RegisteredFollowCore /\ NoAppointmentLate
                    /\ AppliedOnce /\ AppliedAsManyAsLeft
=============================================================================
