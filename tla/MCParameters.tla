---------------------------- MODULE MCParameters ----------------------------
(* Three questions in one run, by the value of focus: what the containers   *)
(* of a parameter set compute, how sets spread through the graph of         *)
(* modules, and when scheduled parameters are applied.  The graph is that   *)
(* of the loop test of vpsimModule_test.cpp: two interconnects that lead to *)
(* one another, a memory behind each.                                       *)
EXTENDS ParameterSet, VpsimModule, ParamScheduler

VARIABLE focus
paramOnly == <<mVpsimModules, paramSchedule, reference, thrown, registrations, appointments, applied>>
vars == <<focus, setVars, graphVars, kernelVars, paramOnly>>

Space(base, end) == [base |-> base, end |-> end]
LinksDef == {<<"cpu", 0, "bus">>, <<"cpu", 1, "bus">>, <<"bus", 0, "mem1">>,
             <<"bus", 1, "peer">>, <<"peer", 0, "mem2">>, <<"peer", 1, "bus">>}
OwnSpaceDef == [m \in Modules |-> CASE m = "mem1" -> {0} [] m = "mem2" -> {1} [] OTHER -> {}]
SettingsDef == {<<"mem2", "bt", Space(0, 1), 0>>, <<"mem2", "bt", Space(1, 1), 1>>,
                <<"mem2", "delay", Space(1, 1), 1>>, <<"bus", "bt", Space(0, 2), 0>>}
RegionsDef == {Space(0, 0), Space(0, 1)}

Init == /\ focus \in {"sets", "graph", "schedule"} /\ SetInit /\ GraphInit /\ ParamInit
        /\ focus # "sets" => kind = "bt"
Next == \/ focus = "sets" /\ SetNext /\ UNCHANGED <<focus, graphVars, kernelVars, paramOnly>>
        \/ focus = "graph" /\ GraphNext /\ UNCHANGED <<focus, setVars, kernelVars, paramOnly>>
        \/ focus = "schedule" /\ ParamNext /\ UNCHANGED <<focus, setVars, graphVars>>
Scheduled(action) == focus = "schedule" /\ ~thrown /\ action /\ UNCHANGED <<focus, setVars, graphVars>>
Spec == Init /\ [][Next]_vars /\ GraphFairness
        /\ WF_vars(Scheduled(schedule \/ paramThrows)) /\ WF_vars(Scheduled(ParamKernel))
=============================================================================
