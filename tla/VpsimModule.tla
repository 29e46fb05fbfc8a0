----------------------------- MODULE VpsimModule -----------------------------
(***************************************************************************)
(* Propagation of parameters through the graph of modules                  *)
(* (src/core/vpsimModule/vpsimModule.cpp, the setters of paramManager.cpp  *)
(* and the flags the instruction set simulators keep, DynamicComponents).  *)
(*                                                                         *)
(* A module is linked to a successor on each output port.  It merges what  *)
(* its successors export, adds its own (intrinsic) parameters and exports  *)
(* the result to its predecessors, which are refreshed when it changed.    *)
(* A set of parameters is the function of ParameterSet's denotation; the   *)
(* run of ParameterSet shows the containers compute exactly it.            *)
(*                                                                         *)
(* The recursion of refreshParameters is the list agenda: calls still to   *)
(* be made, the next one first.  Nothing else runs until it is empty (the  *)
(* code never waits in between).  Two history variables: cleared are the   *)
(* modules whose exported set was emptied and not computed again since;    *)
(* lost says that a refresh has ended with such a module.                  *)
(***************************************************************************)
EXTENDS ModuleParameters, SequencesExt

CONSTANTS Modules,
          NoModule,
          Ports,          \* output ports of a module, 0 .. mNbOutPorts - 1
          Links,          \* <<module, port, successor>> the platform makes
          OwnSpace,       \* addresses of each memory mapped module, {} otherwise
          Settings,       \* <<module, kind, address space, value>> clients set
          Cpu,            \* the module of the processor
          Regions,        \* regions the instruction set simulator asks about
          MaxSettings     \* bound: number of setParameter calls

ASSUME VpsimModuleAssumption ==
    /\ NoModule \notin Modules /\ Cpu \in Modules
    /\ Links \subseteq Modules \X Ports \X Modules
    /\ OwnSpace \in [Modules -> SUBSET Addr]
    /\ Regions \subseteq AddrSpaces
    /\ MaxSettings \in Nat

VARIABLES mSuccessors, mPredecessors, mIntrinsecParameters, mEffectiveParameters,
          mExportedParameters, agenda, handlersDue, mIssTLMParam,
          elaborated, settings, cleared, lost

graphVars == <<mSuccessors, mPredecessors, mIntrinsecParameters, mEffectiveParameters,
               mExportedParameters, agenda, handlersDue, mIssTLMParam,
               elaborated, settings, cleared, lost>>

Kinds == {"bt", "delay"}
Empty == [k \in Kinds |-> [a \in Addr |-> NoValue]]
IsParameterSet(p) == \A k \in Kinds, a \in Addr : p[k][a] \in {NoValue} \union Nat

mergeImported(p, q) ==
    [k \in Kinds |-> ByAddress(p[k], q[k], LAMBDA v, w : MaxParam(k, v, w))]
addExported(p, q) ==
    [k \in Kinds |-> ByAddress(p[k], q[k], LAMBDA v, w : Plus(k, v, w))]
Trim(p, spaces) == [k \in Kinds |-> [a \in Addr |-> IF a \in spaces THEN p[k][a] ELSE NoValue]]

Blocking(p, as) ==
    Max({IF p["bt"][a] = NoValue THEN DefaultBlocking ELSE p["bt"][a] : a \in as.base .. as.end})

-----------------------------------------------------------------------------
(* The graph. *)
SuccessorsOf(m) == {mSuccessors[m][i] : i \in Ports} \ {NoModule}
Closure(step(_), start) ==
    LET grow[n \in 0 .. Cardinality(Modules)] ==
            IF n = 0 THEN start
            ELSE LET smaller == grow[n - 1] IN smaller \union UNION {step(m) : m \in smaller}
    IN grow[Cardinality(Modules)]
Reachable(m) == Closure(SuccessorsOf, {m})

(* Each module is visited once, whatever the loops of the graph.           *)
getAllowedSpaces(m) == UNION {OwnSpace[n] : n \in Reachable(m)}

-----------------------------------------------------------------------------
GraphInit ==
    /\ mSuccessors = [m \in Modules |-> [i \in Ports |-> NoModule]]
    /\ mPredecessors = [m \in Modules |-> <<>>]
    /\ mIntrinsecParameters = [m \in Modules |-> Empty]
    /\ mEffectiveParameters = [m \in Modules |-> [i \in Ports |-> Empty]]
    /\ mExportedParameters = [m \in Modules |-> Empty]
    /\ agenda = <<>> /\ handlersDue = FALSE /\ elaborated = FALSE
    /\ mIssTLMParam = [r \in Regions |-> <<>>]
    /\ settings = 0 /\ cleared = {} /\ lost = FALSE

(* Mutant: nothing is emptied. *)
startRefreshNoClear(m, preds) ==
    /\ agenda' = <<m>>
    /\ UNCHANGED <<mExportedParameters, cleared>>
(* The first call of a refresh empties what every module upstream exports. *)
startRefresh(m, preds) ==
    LET upstream == Closure(LAMBDA n : Range(preds[n]), {m}) \ {m}
    IN /\ agenda' = <<m>>
       /\ mExportedParameters' =
             [n \in Modules |-> IF n \in upstream THEN Empty ELSE mExportedParameters[n]]
       /\ cleared' = cleared \union {n \in upstream : mExportedParameters[n] # Empty}

addPredecessor(s, p) ==
    [mPredecessors EXCEPT ![s] = IF p \in Range(@) THEN @ ELSE Append(@, p)]

addSuccessor(m, port, s) ==
    /\ ~elaborated /\ agenda = <<>> /\ ~handlersDue
    /\ mSuccessors[m][port] = NoModule
    /\ mSuccessors' = [mSuccessors EXCEPT ![m][port] = s]
    /\ mPredecessors' = addPredecessor(s, m)
    /\ startRefresh(m, mPredecessors')
    /\ UNCHANGED <<mIntrinsecParameters, mEffectiveParameters, handlersDue, mIssTLMParam,
                   elaborated, settings, lost>>

elaborate ==
    /\ ~elaborated /\ agenda = <<>> /\ ~handlersDue
    /\ \A l \in Links : mSuccessors[l[1]][l[2]] = l[3]
    /\ elaborated' = TRUE
    /\ UNCHANGED <<mSuccessors, mPredecessors, mIntrinsecParameters, mEffectiveParameters,
                   mExportedParameters, agenda, handlersDue, mIssTLMParam, settings, cleared, lost>>

setModuleParameter(m, k, as, v) ==
    /\ agenda = <<>> /\ ~handlersDue /\ settings < MaxSettings
    /\ settings' = settings + 1
    /\ mIntrinsecParameters' =
          [mIntrinsecParameters EXCEPT ![m][k] =
              [a \in Addr |-> IF Within(a, as) THEN v ELSE @[a]]]
    /\ startRefresh(m, mPredecessors)
    /\ handlersDue' = TRUE
    /\ UNCHANGED <<mSuccessors, mPredecessors, mEffectiveParameters, mIssTLMParam, elaborated,
                   lost>>

-----------------------------------------------------------------------------
(* One call of refreshParameters(false), the head of the agenda.           *)
Imported(m) ==
    [i \in Ports |-> IF mSuccessors[m][i] = NoModule THEN mEffectiveParameters[m][i]
                     ELSE mExportedParameters[mSuccessors[m][i]]]
Exports(effective, intrinsic) ==
    addExported(FoldSet(mergeImported, Empty, Range(effective)), intrinsic)

(* Mutant: predecessors are refreshed even when nothing changed. *)
refreshAlways ==
    /\ agenda # <<>>
    /\ LET m == Head(agenda)
           effective == Imported(m)
           intrinsic == Trim(mIntrinsecParameters[m], getAllowedSpaces(m))
       IN /\ mEffectiveParameters' = [mEffectiveParameters EXCEPT ![m] = effective]
          /\ mIntrinsecParameters' = [mIntrinsecParameters EXCEPT ![m] = intrinsic]
          /\ mExportedParameters' =
                [mExportedParameters EXCEPT ![m] = Exports(effective, intrinsic)]
          /\ agenda' = mPredecessors[m] \o Tail(agenda)
          /\ cleared' = cleared \ {m}
          /\ lost' = (lost \/ (agenda' = <<>> /\ cleared' # {}))
    /\ UNCHANGED <<mSuccessors, mPredecessors, handlersDue, mIssTLMParam, elaborated, settings>>
refreshParameters ==
    /\ agenda # <<>>
    /\ \E m \in {Head(agenda)} :
       \E effective \in {Imported(m)},
          intrinsic \in {Trim(mIntrinsecParameters[m], getAllowedSpaces(m))} :
       \E exported \in {Exports(effective, intrinsic)} :
          /\ mEffectiveParameters' = [mEffectiveParameters EXCEPT ![m] = effective]
          /\ mIntrinsecParameters' = [mIntrinsecParameters EXCEPT ![m] = intrinsic]
          /\ mExportedParameters' = [mExportedParameters EXCEPT ![m] = exported]
          /\ agenda' = (IF exported # mExportedParameters[m] THEN mPredecessors[m] ELSE <<>>)
                       \o Tail(agenda)
          /\ cleared' = cleared \ {m}
          /\ lost' = (lost \/ (agenda' = <<>> /\ cleared' # {}))
    /\ UNCHANGED <<mSuccessors, mPredecessors, handlersDue, mIssTLMParam, elaborated, settings>>

-----------------------------------------------------------------------------
(* The simulator of a processor asks once for each region and keeps the    *)
(* flags (instruction port, data port); the update handler computes them   *)
(* again after every setParameter of the manager.                          *)
TlmFlags(r) == [i \in {1, 2} |-> Blocking(mEffectiveParameters[Cpu][i - 1], r)]

getDoTLM(r) ==
    /\ elaborated /\ agenda = <<>> /\ ~handlersDue
    /\ mIssTLMParam' = [mIssTLMParam EXCEPT ![r] = TlmFlags(r)]
    /\ UNCHANGED <<mSuccessors, mPredecessors, mIntrinsecParameters, mEffectiveParameters,
                   mExportedParameters, agenda, handlersDue, elaborated, settings, cleared, lost>>

callParamUpdateHandlers ==
    /\ agenda = <<>> /\ handlersDue
    /\ handlersDue' = FALSE
    /\ mIssTLMParam' = [r \in Regions |->
                          IF mIssTLMParam[r] = <<>> THEN <<>> ELSE TlmFlags(r)]
    /\ UNCHANGED <<mSuccessors, mPredecessors, mIntrinsecParameters, mEffectiveParameters,
                   mExportedParameters, agenda, elaborated, settings, cleared, lost>>

GraphNext ==
    \/ \E l \in Links : addSuccessor(l[1], l[2], l[3])
    \/ elaborate
    \/ \E s \in Settings : setModuleParameter(s[1], s[2], s[3], s[4])
    \/ refreshParameters
    \/ callParamUpdateHandlers
    \/ \E r \in Regions : getDoTLM(r)

(* refreshParameters and the handlers run to their end within one call.    *)
GraphFairness == WF_graphVars(refreshParameters \/ callParamUpdateHandlers)
GraphSpec == GraphInit /\ [][GraphNext]_graphVars /\ GraphFairness

-----------------------------------------------------------------------------
(* Links lead to modules, every module keeps parameter sets of the right   *)
(* shape per port, and only modules are waiting to be refreshed            *)
(* (vpsimModule.hpp).                                                      *)
GraphTypeOK ==
    /\ mSuccessors \in [Modules -> [Ports -> Modules \union {NoModule}]]
    /\ \A m \in Modules : /\ Range(mPredecessors[m]) \subseteq Modules
                          /\ IsParameterSet(mIntrinsecParameters[m])
                          /\ IsParameterSet(mExportedParameters[m])
                          /\ \A i \in Ports : IsParameterSet(mEffectiveParameters[m][i])
    /\ Range(agenda) \subseteq Modules
    /\ handlersDue \in BOOLEAN /\ elaborated \in BOOLEAN
    /\ settings \in 0 .. MaxSettings /\ cleared \subseteq Modules /\ lost \in BOOLEAN

Settled == agenda = <<>>

(* Once a refresh is over every module exports what its effective and      *)
(* intrinsic parameters say, and its predecessors have just that as their  *)
(* effective parameters, through the loops of the graph too                *)
(* (vpsimModule.cpp:120).  The exception, a refresh that empties the       *)
(* modules upstream and stops before it reaches them, is lost.             *)
EffectiveFollowsSuccessors ==
    Settled /\ ~lost => \A m \in Modules :
        /\ mExportedParameters[m] = Exports(mEffectiveParameters[m], mIntrinsecParameters[m])
        /\ \A n \in Modules, i \in Ports :
              mSuccessors[n][i] = m => mEffectiveParameters[n][i] = mExportedParameters[m]

(* A processor sees blocking TLM at an address exactly when a module on    *)
(* the way to it says so: no answer survives in a loop of the graph after  *)
(* the module that gave it has changed it (vpsimModule.cpp:124).           *)
NoEchoInLoops ==
    Settled /\ ~lost => \A m \in Modules, i \in Ports :
        mSuccessors[m][i] # NoModule =>
            LET onTheWay == Reachable(mSuccessors[m][i])
            IN \A a \in Addr : mEffectiveParameters[m][i]["bt"][a] =
                                  Max({mIntrinsecParameters[n]["bt"][a] : n \in onTheWay})

(* A module has no opinion on addresses it does not lead to                *)
(* (vpsimModule.cpp:147).                                                  *)
OnlyAllowedSpaces ==
    Settled /\ elaborated => \A m \in Modules :
        mExportedParameters[m] = Trim(mExportedParameters[m], getAllowedSpaces(m))

(* The flags of the instruction set simulator are those of the current     *)
(* parameters once the call that changed a parameter is over               *)
(* (DynamicComponents.hpp:645).                                            *)
IssFlagsFresh ==
    Settled /\ ~handlersDue => \A r \in Regions :
        mIssTLMParam[r] # <<>> => mIssTLMParam[r] = TlmFlags(r)

(* Between two changes of parameters the whole graph is up to date: every  *)
(* module with its successors, every processor's flags, and nothing is left *)
(* of values that were withdrawn (vpsimModule.cpp:120).                    *)
GraphSettled == /\ GraphTypeOK /\ EffectiveFollowsSuccessors /\ NoEchoInLoops
                /\ OnlyAllowedSpaces /\ IssFlagsFresh

(* A refresh ends, even in a graph with a loop (vpsimModule.cpp:154).      *)
RefreshEnds == agenda # <<>> ~> agenda = <<>>

(* The same as EffectiveFollowsSuccessors with no exception: a module uses *)
(* what its successors export to it (vpsimModule.hpp:64).                  *)
ExportedIsUpToDate ==
    Settled => \A m \in Modules :
        mExportedParameters[m] = Exports(mEffectiveParameters[m], mIntrinsecParameters[m])
=============================================================================
