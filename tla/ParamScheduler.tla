--------------------------- MODULE ParamScheduler ---------------------------
(***************************************************************************)
(* Appointments for parameters (src/core/vpsimModule/paramScheduler.cpp,   *)
(* paramAppointment.cpp and the registry of paramManager.cpp).  The        *)
(* schedule is a multiset ordered by date, in which equal dates keep the   *)
(* order of insertion; the thread holds a reference to its first element   *)
(* while it waits.  Applying an appointment to a module that is not        *)
(* registered throws in the thread, which ends the simulation.             *)
(*                                                                         *)
(* History: appointments, those accepted (their index is their identity),  *)
(* and applied, the identities in the order they were applied in.          *)
(***************************************************************************)
EXTENDS ScThread, SequencesExt, FiniteSetsExt

CONSTANTS ParamModules,          \* names of modules
          MaxParamAppointments,  \* bound: appointments accepted
          MaxRegistrations       \* bound: constructions and destructions

ASSUME ParamSchedulerAssumption ==
    MaxParamAppointments \in Nat /\ MaxRegistrations \in Nat

VARIABLES mVpsimModules, paramSchedule, reference, thrown,
          registrations, appointments, applied

paramVars == <<kernelVars, mVpsimModules, paramSchedule, reference, thrown,
               registrations, appointments, applied>>

NoReference == 0

ParamInit ==
    /\ KernelInit
    /\ mVpsimModules = {} /\ paramSchedule = <<>> /\ reference = NoReference /\ thrown = FALSE
    /\ registrations = 0 /\ appointments = <<>> /\ applied = <<>>

(* The constructor of a second module of the same name throws instead.     *)
registerModule(m) ==
    /\ m \notin mVpsimModules /\ registrations < MaxRegistrations
    /\ mVpsimModules' = mVpsimModules \union {m}
    /\ registrations' = registrations + 1
    /\ UNCHANGED <<kernelVars, paramSchedule, reference, thrown, appointments, applied>>

unregisterModule(m) ==
    /\ m \in mVpsimModules /\ registrations < MaxRegistrations
    /\ mVpsimModules' = mVpsimModules \ {m}
    /\ registrations' = registrations + 1
    /\ UNCHANGED <<kernelVars, paramSchedule, reference, thrown, appointments, applied>>

DateOf(a) == appointments[a].date

(* Mutant: in front of the appointments of the same date. *)
PlaceFirst(date) ==
    Min({i \in DOMAIN paramSchedule : DateOf(paramSchedule[i]) >= date}
        \union {Len(paramSchedule) + 1})
(* After the appointments of the same date. *)
Place(date) ==
    Min({i \in DOMAIN paramSchedule : DateOf(paramSchedule[i]) > date}
        \union {Len(paramSchedule) + 1})

(* Mutant: the thread is not told of the new appointment. *)
addParamAppointmentSilent(m, date) ==
    /\ date >= now /\ Len(appointments) < MaxParamAppointments
    /\ appointments' = Append(appointments, [module |-> m, date |-> date])
    /\ paramSchedule' = InsertAt(paramSchedule, Place(date), Len(appointments) + 1)
    /\ UNCHANGED <<kernelVars, mVpsimModules, reference, thrown, registrations, applied>>
addParamAppointment(m, date) ==
    /\ date >= now /\ Len(appointments) < MaxParamAppointments
    /\ appointments' = Append(appointments, [module |-> m, date |-> date])
    /\ paramSchedule' = InsertAt(paramSchedule, Place(date), Len(appointments) + 1)
    /\ notified' = TRUE
    /\ UNCHANGED <<now, runnable, wakeAt, mVpsimModules, reference, thrown, registrations, applied>>

reached == reference # NoReference /\ DateOf(reference) = now

(* The module of the appointment is looked up when it is applied.          *)
paramThrows ==
    /\ runnable /\ reached /\ appointments[reference].module \notin mVpsimModules
    /\ thrown' = TRUE
    /\ UNCHANGED <<kernelVars, mVpsimModules, paramSchedule, reference,
                   registrations, appointments, applied>>

schedule ==
    LET left == IF reached THEN Tail(paramSchedule) ELSE paramSchedule
    IN /\ reached => appointments[reference].module \in mVpsimModules
       /\ paramSchedule' = left
       /\ applied' = IF reached THEN Append(applied, reference) ELSE applied
       /\ IF left = <<>> THEN reference' = NoReference /\ WaitUntil(Never)
          ELSE reference' = Head(left) /\ WaitUntil(DateOf(Head(left)))
       /\ UNCHANGED <<now, notified, mVpsimModules, thrown, registrations, appointments>>

ParamKernel == Kernel /\ UNCHANGED <<mVpsimModules, paramSchedule, reference, thrown,
                                     registrations, appointments, applied>>

ParamNext ==
    /\ ~thrown
    /\ \/ \E m \in ParamModules :
             \/ registerModule(m) \/ unregisterModule(m)
             \/ \E date \in Dates : addParamAppointment(m, date)
       \/ paramThrows
       \/ schedule
       \/ ParamKernel

ParamFairness == WF_paramVars(~thrown /\ (schedule \/ paramThrows)) /\ WF_paramVars(~thrown /\ ParamKernel)
ParamSpec == ParamInit /\ [][ParamNext]_paramVars /\ ParamFairness

-----------------------------------------------------------------------------
(* The schedule holds accepted appointments, and the reference the thread  *)
(* keeps over its wait is to one of them (paramScheduler.cpp:34).          *)
ParamTypeOK ==
    /\ KernelTypeOK /\ mVpsimModules \subseteq ParamModules
    /\ Range(paramSchedule) \subseteq DOMAIN appointments
    /\ reference \in {NoReference} \union DOMAIN appointments
    /\ thrown \in BOOLEAN /\ registrations \in 0 .. MaxRegistrations

(* Every appointment is applied exactly once, in the order of the dates    *)
(* and, for one date, in the order they were made, even those made for the *)
(* current date while the thread is about to run (paramScheduler.cpp:34).  *)
AppliedInOrder ==
    /\ IsInjective(applied)
    /\ Range(applied) = DOMAIN appointments \ Range(paramSchedule)
    /\ \A i, j \in DOMAIN applied : i < j =>
          \/ DateOf(applied[i]) < DateOf(applied[j])
          \/ DateOf(applied[i]) = DateOf(applied[j]) /\ applied[i] < applied[j]

(* Time does not pass an appointment (paramScheduler.cpp:46).              *)
NoParamLate == \A i \in DOMAIN paramSchedule : DateOf(paramSchedule[i]) >= now

(* Scheduled parameters are applied once, in order and on their date, while *)
(* appointments come and modules leave (paramScheduler.cpp:34).            *)
ParamsOnDate == ParamTypeOK /\ AppliedInOrder /\ NoParamLate

(* An appointment made is applied in the end, unless a module it needs is  *)
(* gone and the simulation ends (paramManager.cpp:39).                     *)
AppliedInTheEnd ==
    \A a \in 1 .. MaxParamAppointments :
        (a \in DOMAIN appointments) ~> (a \in Range(applied) \/ thrown)
=============================================================================
