------------------------------ MODULE Platform ------------------------------
(***************************************************************************)
(* The elaboration of a platform (src/core/platform_builder,               *)
(* src/core/vpsimModule/include/vpsimModule/VpsimIp.hpp,                   *)
(* src/vpsim_subsystem.cpp): a description is read, its IPs are built one  *)
(* after the other, then connected, told of each other's addresses and     *)
(* finalized.  Several subsystems may be elaborated in turn; they share    *)
(* the table of all instances.                                             *)
(*                                                                         *)
(* An IP is a record: its instance name (a number, in the order of the     *)
(* names), its class, its domain, its identifier, whether every required   *)
(* attribute is given, the names its attributes refer to, and the          *)
(* attributes the elaboration depends on.  An exception ends the program:  *)
(* failure says why.                                                       *)
(*                                                                         *)
(* History variables: finalized, the instances finalize() was called for;  *)
(* calls, what each model provider library was asked to do; declared, the  *)
(* subsystem after which each declaration of external memory came.         *)
(***************************************************************************)
EXTENDS DynamicComponents, FiniteSets, TLC

CONSTANTS Descriptions,     \* sequences of [ips, links] (sets), one per subsystem
          SystemCCosim0,    \* the instance name IOAccessCosim looks for
          MaxDeclared       \* bound: calls of declare_dmi_ptr

ASSUME PlatformAssumption ==
    /\ SystemCCosim0 \in Nat /\ MaxDeclared \in Nat
    /\ \A d \in Descriptions : \A s \in DOMAIN d : \A ip \in d[s].ips :
           ip.name \in Nat /\ ip.class \in ToSet(RegisteredClasses)

VARIABLES description, subsystem, phase, failure,
          AllInstances,             \* by name
          mLocalIps,                \* of the subsystem being elaborated
          owner,                    \* the subsystem of an instance
          mInPorts, mOutPorts,      \* aliases, in the order of the sockets
          binds, routes,            \* sockets bound; targets in the order of connection
          dmi,                      \* the mapped instances each instance was told of
          toFinalize, wiring, finalized, calls, declared

platformVars == <<description, subsystem, phase, failure, AllInstances, mLocalIps, owner, mInPorts,
                  mOutPorts, binds, routes, dmi, toFinalize, wiring, finalized, calls, declared>>
builtVars == <<AllInstances, mLocalIps, owner>>
linkVars == <<mInPorts, mOutPorts, binds, routes>>
finalVars == <<dmi, toFinalize, wiring, finalized, calls, declared>>

Names == DOMAIN AllInstances
IpOf(n) == NewByName(AllInstances[n].class, AllInstances[n].a)
Class(n) == AllInstances[n].class
Rank(class) == CHOOSE k \in DOMAIN RegisteredClasses : RegisteredClasses[k] = class

(* The order of AllInstances: class names, then instance names. *)
Before(m, n) == \/ Rank(Class(m)) < Rank(Class(n))
                \/ Class(m) = Class(n) /\ m < n
MapIf(S) == SetToSortSeq(S, Before)
MapTypeIf(class, S) == MapIf({n \in S : Class(n) = class})

Put(f, key, value) == (key :> value) @@ f
Fail(why) == phase' = "failed" /\ failure' = why

-----------------------------------------------------------------------------
PlatformInit ==
    /\ description \in Descriptions /\ subsystem = 1 /\ phase = "build" /\ failure = "none"
    /\ AllInstances = <<>> /\ mLocalIps = {} /\ owner = <<>>
    /\ mInPorts = <<>> /\ mOutPorts = <<>> /\ binds = <<>> /\ routes = <<>>
    /\ dmi = <<>> /\ toFinalize = <<>> /\ wiring = <<>> /\ finalized = <<>> /\ calls = <<>>
    /\ declared = <<>>

(* beginBuild, setAttribute and endBuild of one IP: make() checks its      *)
(* attributes and names its sockets.  A new IP has no routes, knows no     *)
(* address and, for a model provider, has called nothing.                  *)
readIp(ip) ==
    /\ phase = "build" /\ ip \in description[subsystem].ips
    /\ description' = [description EXCEPT ![subsystem].ips = @ \ {ip}]
    /\ IF ip.name \in Names
       THEN Fail("Name already used") /\ UNCHANGED <<builtVars, linkVars, finalVars>>
       ELSE LET desc == NewByName(ip.class, ip.a) IN
            /\ AllInstances' = Put(AllInstances, ip.name, ip)
            /\ owner' = Put(owner, ip.name, subsystem)
            /\ mInPorts' = Put(mInPorts, ip.name, desc.inPorts)
            /\ mOutPorts' = Put(mOutPorts, ip.name, desc.outPorts)
            /\ routes' = Put(routes, ip.name, [k \in {"bus", "home", "cache", "mmapped"} |-> <<>>])
            /\ dmi' = Put(dmi, ip.name, <<>>)
            /\ calls' = Put(calls, ip.name, <<>>)
            /\ IF ip.complete
               THEN mLocalIps' = mLocalIps \cup {ip.name} /\ UNCHANGED <<phase, failure>>
               ELSE Fail("Required attribute not provided") /\ UNCHANGED mLocalIps
            /\ UNCHANGED <<binds, toFinalize, wiring, finalized, declared>>
    /\ UNCHANGED subsystem

-----------------------------------------------------------------------------
(* getInPort, getOutPort: the port of that alias, added if there is none.  *)
WithPort(ports, alias) ==
    IF alias \in ToSet(ports) THEN ports ELSE Append(ports, alias)
PortIndex(ports, alias) == CHOOSE k \in DOMAIN ports : ports[k] = alias

(* How a source counts its connections: the addresses a bus or a mesh      *)
(* sends to an output are registered by a counter of its own.              *)
RouteKind(src, dst) ==
    CASE Class(src) = "Interconnect" -> "bus"
      [] Class(src) = "CoherentInterconnect" /\ IpOf(dst).mapped /\ IpOf(dst).idMapped -> "home"
      [] Class(src) = "CoherentInterconnect" /\ ~IpOf(dst).mapped /\ IpOf(dst).idMapped -> "cache"
      [] Class(src) = "CoherentInterconnect" /\ IpOf(dst).mapped /\ ~IpOf(dst).idMapped -> "mmapped"
      [] Class(src) = "CoherentInterconnect" -> "none"
      [] OTHER -> "plain"

(* Mutant: only mapped targets are counted. *)
RouteMappedOnly(src, dst) ==
    LET kind == RouteKind(src, dst) IN
    IF kind = "plain" \/ ~IpOf(dst).mapped THEN routes
    ELSE [routes EXCEPT ![src][kind] = Append(@, dst)]
Route(src, dst) ==
    LET kind == RouteKind(src, dst) IN
    IF kind = "plain" THEN routes ELSE [routes EXCEPT ![src][kind] = Append(@, dst)]

(* connect() of the source; an external processor has no socket of its own. *)
connect(src, outAlias, dst, inAlias) ==
    LET outs == IF Class(src) = "ExternalCPU" THEN mOutPorts[src]
                ELSE WithPort(mOutPorts[src], outAlias)
        ins == WithPort(mInPorts[dst], inAlias)
        from == IF Class(src) = "ExternalCPU" THEN 0 ELSE PortIndex(outs, outAlias)
    IN IF \/ RouteKind(src, dst) = "none"
          \/ Len(outs) > IpOf(src).out \/ Len(ins) > IpOf(dst).in
       THEN Fail("connect") /\ UNCHANGED <<mInPorts, mOutPorts, binds, routes>>
       ELSE /\ routes' = Route(src, dst)
            /\ mOutPorts' = [mOutPorts EXCEPT ![src] = outs]
            /\ mInPorts' = [mInPorts EXCEPT ![dst] = ins]
            /\ binds' = Append(binds, [src |-> src, out |-> from, dst |-> dst,
                                       in |-> PortIndex(ins, inAlias)])
            /\ IF \E b \in ToSet(binds) : \/ b.src = src /\ b.out = from
                                          \/ b.dst = dst /\ b.in = PortIndex(ins, inAlias)
               THEN Fail("bound twice")      \* SystemC refuses it
               ELSE UNCHANGED <<phase, failure>>

(* A link of the description; getChild finds only the IPs of this builder. *)
readLink(l) ==
    /\ phase = "build" /\ description[subsystem].ips = {} /\ l \in description[subsystem].links
    /\ description' = [description EXCEPT ![subsystem].links = @ \ {l}]
    /\ IF {l.src, l.dst} \subseteq mLocalIps
       THEN connect(l.src, l.out, l.dst, l.in)
       ELSE Fail("Child not found") /\ UNCHANGED linkVars
    /\ UNCHANGED <<subsystem, builtVars, finalVars>>

-----------------------------------------------------------------------------
(* The parameters of a model provider, gathered when it is configured.     *)
ParamsOf(p) == {n \in Names : Class(n) \in {"ModelProviderParam1", "ModelProviderParam2"}
                              /\ AllInstances[n].refs["provider"] = p}
(* Mutant: a provider is configured with each address it is told. *)
ConfigureAlways(p, made) == Append(made, [call |-> "configure", of |-> ParamsOf(p)])
Configure(p, made) ==
    IF made # <<>> THEN made ELSE <<[call |-> "configure", of |-> ParamsOf(p)]>>

(* addDmiAddress of a model provider declares what it is told of. *)
Declare(p, mapped) ==
    IF mapped = <<>> THEN calls[p]
    ELSE Configure(p, calls[p])
         \o [k \in DOMAIN mapped |->
                [call |-> IF IpOf(mapped[k]).hasDmi THEN "ram" ELSE "dev", of |-> {mapped[k]}]]

(* Finalized by the builder: its own instances. *)
ToFinalize == mLocalIps

(* Those told of an address: all that need it, the earlier subsystems'     *)
(* too, in the domain of the mapped instance.                              *)
Announced(n) ==
    {m \in mLocalIps : IpOf(m).mapped /\ AllInstances[m].domain = AllInstances[n].domain}

(* finalize() of the builder: addresses first, then the instances. *)
NotifyDmiAddresses ==
    /\ phase = "build" /\ description[subsystem] = [ips |-> {}, links |-> {}]
    /\ phase' = "finalize"
    /\ dmi' = [n \in Names |-> IF IpOf(n).needsDmi THEN dmi[n] \o MapIf(Announced(n)) ELSE dmi[n]]
    /\ calls' = [n \in Names |-> IF Class(n) = "ModelProvider"
                                 THEN Declare(n, MapIf(Announced(n))) ELSE calls[n]]
    /\ toFinalize' = MapIf(ToFinalize)
    /\ UNCHANGED <<description, subsystem, failure, builtVars, linkVars, wiring, finalized,
                   declared>>

(* What finalize() looks up, in turn. *)
Named_(n, attr) == IF attr = "SystemCCosim0" THEN SystemCCosim0 ELSE AllInstances[n].refs[attr]
Outcome(n, f) ==
    IF f.attr # "SystemCCosim0" /\ f.attr \notin DOMAIN AllInstances[n].refs THEN "throw"
    ELSE IF Named_(n, f.attr) \notin Names THEN f.absent
    ELSE IF f.classes # {} /\ Class(Named_(n, f.attr)) \notin f.classes THEN "crash"
    ELSE "found"
(* A GIC reads the cpu_id of every processor of the class in its filter,   *)
(* which the processors of a model provider do not have.                   *)
Filtered(n) == {m \in Names : IpOf(m).processor /\ Class(m) = AllInstances[n].a.filter}
NoCpuId(n) == Class(n) = "GIC" /\ \E m \in Filtered(n) : Class(m) = "ModelProviderCpu"
Outcomes(n) == {Outcome(n, IpOf(n).finds[k]) : k \in DOMAIN IpOf(n).finds}
               \union (IF NoCpuId(n) THEN {"throw"} ELSE {})

Wire(kind, from, to, index) == [kind |-> kind, from |-> from, to |-> to, index |-> index]

(* The interrupt lines of a controller: each Arm processor gets all of     *)
(* them, from the first of its own on.                                     *)
LinesOf(n, cpu) ==
    [i \in 1..AllInstances[n].a.lines |->
        Wire("line", cpu, n, <<AllInstances[cpu].id * AllInstances[n].a.per_cpu + i - 1, i - 1>>)]

finalizeWires(n) ==
    LET ip == AllInstances[n]
        Arms == MapTypeIf("Arm", Names)
    IN CASE Class(n) = "Arm64" /\ ~ip.a.io_only -> <<Wire("cpu", n, ip.refs["gic"], ip.id)>>
         [] Class(n) = "Arm64" /\ ip.a.io_only ->
                [k \in DOMAIN MapTypeIf("Arm64", Names) |->
                    Wire("io", n, MapTypeIf("Arm64", Names)[k], ip.id)]
         [] Class(n) = "ExternalCPU" /\ ip.a.finalize ->
                [k \in 1..ip.a.n_smp_cpus |-> Wire("cpu", n, ip.refs["gic"], ip.id + k - 1)]
         [] Class(n) = "GIC" ->
                LET cpus == MapIf(Filtered(n))
                IN [k \in DOMAIN cpus |-> Wire("cpu", cpus[k], n, AllInstances[cpus[k]].id)]
         [] Class(n) = "ItCtrl" -> FlattenSeq([k \in DOMAIN Arms |-> LinesOf(n, Arms[k])])
         [] OTHER ->
                LET found == SelectSeq(IpOf(n).finds, LAMBDA f : Outcome(n, f) = "found")
                IN [k \in DOMAIN found |-> Wire(found[k].attr, n, Named_(n, found[k].attr), 0)]

finalizeCalls(p) ==
    LET given(class) == MapTypeIf(class, {n \in Names : Class(n) = class
                                                        /\ AllInstances[n].refs["provider"] = p})
        create(class, call) == [k \in DOMAIN given(class) |-> [call |-> call, of |-> {given(class)[k]}]]
    IN Configure(p, calls[p]) \o create("ModelProviderDev", "create_dev")
       \o create("ModelProviderCpu", "create_cpu") \o <<[call |-> "finalize_config", of |-> {}]>>

(* A controller line past the last is written out of its array: the        *)
(* program may go on or stop.                                              *)
PastTheEnd(n) == Class(n) = "ItCtrl"
                 /\ \E k \in DOMAIN finalizeWires(n) : finalizeWires(n)[k].index[1] >= AllInstances[n].a.lines

FinalizeNext ==
    /\ phase = "finalize" /\ toFinalize # <<>>
    /\ LET n == Head(toFinalize) IN
       /\ finalized' = Append(finalized, n)
       /\ \/ /\ Outcomes(n) \subseteq {"found", "skip"}
             /\ wiring' = wiring \o finalizeWires(n)
             /\ calls' = IF Class(n) = "ModelProvider" THEN [calls EXCEPT ![n] = finalizeCalls(n)]
                         ELSE calls
             /\ UNCHANGED <<phase, failure>>
          \/ /\ "throw" \in Outcomes(n) /\ Fail("finalize throws") /\ UNCHANGED <<wiring, calls>>
          \/ /\ "crash" \in Outcomes(n) \/ PastTheEnd(n)
             /\ Fail("crash") /\ UNCHANGED <<wiring, calls>>
    /\ toFinalize' = Tail(toFinalize)
    /\ UNCHANGED <<description, subsystem, builtVars, linkVars, dmi, declared>>

(* The next subsystem has a builder of its own. *)
NextSubsystem ==
    /\ phase = "finalize" /\ toFinalize = <<>>
    /\ IF subsystem < Len(description)
       THEN subsystem' = subsystem + 1 /\ phase' = "build" /\ mLocalIps' = {}
       ELSE phase' = "run" /\ UNCHANGED <<subsystem, mLocalIps>>
    /\ UNCHANGED <<description, failure, AllInstances, owner, linkVars, finalVars>>

(* Memory of the surrounding simulation, given to all instances there are  *)
(* that need it, whether or not they were given it before.  It may come    *)
(* once a subsystem is elaborated, before the next one too.                *)
declare_dmi_ptr(ext) ==
    /\ phase = "run" \/ (phase = "finalize" /\ toFinalize = <<>>)
    /\ Len(declared) < MaxDeclared
    /\ declared' = Append(declared, subsystem)
    /\ dmi' = [n \in Names |-> IF IpOf(n).needsDmi THEN Append(dmi[n], ext) ELSE dmi[n]]
    /\ calls' = [n \in Names |-> IF Class(n) = "ModelProvider"
                                 THEN Append(Configure(n, calls[n]), [call |-> "ram", of |-> {ext}])
                                 ELSE calls[n]]
    /\ UNCHANGED <<description, subsystem, phase, failure, builtVars, linkVars, toFinalize,
                   wiring, finalized>>

(* The first builder deleted collects the statistics of every instance and *)
(* empties the table.                                                      *)
GatherStats ==
    /\ phase = "run" /\ phase' = "over"
    /\ AllInstances' = <<>> /\ owner' = <<>> /\ dmi' = <<>> /\ calls' = <<>>
    /\ mInPorts' = <<>> /\ mOutPorts' = <<>> /\ routes' = <<>> /\ binds' = <<>> /\ wiring' = <<>>
    /\ UNCHANGED <<description, subsystem, failure, mLocalIps, toFinalize, finalized, declared>>

(* The memory declare_dmi_ptr is called with is no instance. *)
External == 0
PlatformNext ==
    \/ \E ip \in description[subsystem].ips : readIp(ip)
    \/ \E l \in description[subsystem].links : readLink(l)
    \/ NotifyDmiAddresses
    \/ FinalizeNext
    \/ NextSubsystem
    \/ declare_dmi_ptr(External)
    \/ GatherStats

PlatformSpec == PlatformInit /\ [][PlatformNext]_platformVars

-----------------------------------------------------------------------------
(* The tables of instances and ports stay consistent: no instance has more *)
(* ports than its class allows, no alias names two of them, and no socket  *)
(* that is bound is missing.                                               *)
PlatformTypeOK ==
    /\ phase \in {"build", "finalize", "run", "failed", "over"}
    /\ (failure # "none") = (phase = "failed")
    /\ DOMAIN mInPorts = Names /\ DOMAIN mOutPorts = Names /\ DOMAIN owner = Names
    /\ \A n \in Names :
           /\ AllInstances[n].name = n
           /\ Len(mInPorts[n]) <= IpOf(n).in /\ IsInjective(mInPorts[n])
           /\ Len(mOutPorts[n]) <= IpOf(n).out /\ IsInjective(mOutPorts[n])
    /\ \A b \in ToSet(binds) : b.in \in DOMAIN mInPorts[b.dst]

BoundTo(n, k) == {b.dst : b \in {c \in ToSet(binds) : c.src = n /\ c.out = k}}
OutAlias == [bus |-> "bus", home |-> "home_out", cache |-> "cache_out", mmapped |-> "mmapped_out"]
MeshSocket(n, kind, k) == PortIndex(mOutPorts[n], <<OutAlias[kind], k - 1>>)
BindsOf(n, kind) == SelectSeq(binds, LAMBDA b : b.src = n /\ RouteKind(n, b.dst) = kind)
InOrder(n, kind) ==
    \A k \in DOMAIN BindsOf(n, kind) : mOutPorts[n][BindsOf(n, kind)[k].out] = <<OutAlias[kind], k - 1>>

(* connect(): what a bus sends to its k-th output is the target bound to   *)
(* its k-th socket.  A coherent mesh registers targets in the order of the *)
(* connections while its sockets are named, so it holds there only when    *)
(* the links come in the order of the aliases.                             *)
RoutesFollowSockets ==
    phase # "failed" =>
    \A n \in Names :
        /\ \A k \in DOMAIN routes[n].bus : BoundTo(n, k) = {routes[n].bus[k]}
        /\ Class(n) = "Interconnect" => Len(routes[n].bus) = Len(mOutPorts[n])
        /\ \A kind \in {"home", "cache", "mmapped"} :
               InOrder(n, kind) =>
                   /\ Len(routes[n][kind]) = Len(BindsOf(n, kind))
                   /\ \A k \in DOMAIN routes[n][kind] :
                          BoundTo(n, MeshSocket(n, kind, k)) = {routes[n][kind][k]}

Done(s) == s < subsystem \/ phase \in {"finalize", "run"}

(* NotifyDmiAddresses(): an instance is never told of the same memory      *)
(* twice, and once its subsystem is finalized it was told of all there are *)
(* in its subsystem and in the later ones, in its own domain.  Of external *)
(* memory it is told as often as it was declared since (declare_dmi_ptr).  *)
Told(n, m) == Cardinality({k \in DOMAIN dmi[n] : dmi[n][k] = m})
DmiToldOnce ==
    \A n \in Names :
        /\ \A m \in Names : Told(n, m) <= 1
        /\ IpOf(n).needsDmi =>
               Told(n, External) = Cardinality({k \in DOMAIN declared : declared[k] >= owner[n]})
        /\ \A m \in Names :
               /\ m \in ToSet(dmi[n]) => IpOf(n).needsDmi /\ IpOf(m).mapped
                                         /\ AllInstances[m].domain = AllInstances[n].domain
               /\ /\ phase # "failed" /\ Done(owner[m]) /\ owner[n] <= owner[m]
                  /\ IpOf(n).needsDmi /\ IpOf(m).mapped
                  /\ AllInstances[m].domain = AllInstances[n].domain
                  => m \in ToSet(dmi[n])

(* Finalize(): an instance is finalized once, after every instance of an   *)
(* earlier subsystem.                                                      *)
FinalizedOnce ==
    /\ IsInjective(finalized)
    /\ phase # "over" => \A j, k \in DOMAIN finalized : j < k => owner[finalized[j]] <= owner[finalized[k]]
    /\ phase = "run" => ToSet(finalized) = Names

CpusOf(g) == SelectSeq(wiring, LAMBDA w : w.kind = "cpu" /\ w.to = g)
Connecting(g) ==
    {n \in Names : \/ Class(n) = "Arm64" /\ ~AllInstances[n].a.io_only /\ AllInstances[n].refs["gic"] = g
                   \/ n \in Filtered(g)}

(* The interrupt controller of a platform indexes what it keeps of a       *)
(* processor by its identifier: the identifiers connected to it are those  *)
(* of the positions, each once.  It holds when the processors have the     *)
(* identifiers 0, 1, ... and no processor that connects itself is also in  *)
(* the controller's filter.                                                *)
GicCpusByIdentifier ==
    phase = "run" =>
    \A g \in {n \in Names : Class(n) = "GIC"} :
        /\ AllInstances[g].a.filter # "Arm64"
        /\ \A n \in Names : Class(n) # "ExternalCPU" /\ owner[n] = owner[g]
        /\ {AllInstances[n].id : n \in Connecting(g)} = 0..(Cardinality(Connecting(g)) - 1)
        => /\ Len(CpusOf(g)) = Cardinality(Connecting(g))
           /\ {CpusOf(g)[k].index : k \in DOMAIN CpusOf(g)} = 0..(Len(CpusOf(g)) - 1)

LineTo(c, line) ==
    LET ws == SelectSeq(wiring, LAMBDA w : w.kind = "line" /\ w.to = c /\ w.index[1] = line)
    IN [cpu |-> ws[Len(ws)].from, number |-> ws[Len(ws)].index[2]]
ArmsInOrder == \A m, n \in Names : Class(m) = "Arm" /\ Class(n) = "Arm" /\ m < n
                                   => AllInstances[m].id < AllInstances[n].id

(* The lines of a processor at the interrupt controller ItCtrl: the ones   *)
(* of its own share raise its interrupts, whatever other processors were   *)
(* given, as long as their names are in the order of their identifiers.    *)
LinesOfProcessor ==
    phase = "run" /\ ArmsInOrder =>
    \A c \in {n \in Names : Class(n) = "ItCtrl"}, cpu \in {n \in Names : Class(n) = "Arm"} :
        LET first == AllInstances[cpu].id * AllInstances[c].a.per_cpu IN
        \A i \in 0..(AllInstances[c].a.per_cpu - 1) :
            owner[cpu] <= owner[c] /\ first + i < AllInstances[c].a.lines
                => LineTo(c, first + i) = [cpu |-> cpu, number |-> i]

Positions(p, call) == {k \in DOMAIN calls[p] : calls[p][k].call = call}

(* A model provider library is configured once, with all its parameters,   *)
(* before it is asked for anything else; its devices and processors are    *)
(* created once each, before its configuration is closed, once.            *)
ProviderProtocol ==
    \A p \in {n \in Names : Class(n) = "ModelProvider"} :
        /\ calls[p] # <<>> => Positions(p, "configure") = {1} /\ calls[p][1].of =
               {n \in ParamsOf(p) : owner[n] <= owner[p]}
        /\ Cardinality(Positions(p, "finalize_config")) <= 1
        /\ IsInjective(SelectSeq(calls[p], LAMBDA c : c.call \in {"create_cpu", "create_dev"}))
        /\ \A j \in Positions(p, "finalize_config"), k \in Positions(p, "create_cpu") : k < j
        /\ phase = "run" =>
               \A n \in Names : /\ Class(n) = "ModelProviderCpu" /\ owner[n] <= owner[p]
                                /\ AllInstances[n].refs["provider"] = p
                                => \E k \in Positions(p, "create_cpu") : calls[p][k].of = {n}

(* Whatever the order the elements were built in, with the exceptions the  *)
(* parts state, sockets, address ranges, processors and interrupt lines fit *)
(* together (VpsimIp.hpp, DynamicComponents.hpp).                          *)
PlatformWired == PlatformTypeOK /\ RoutesFollowSockets /\ GicCpusByIdentifier /\ LinesOfProcessor

(* Every instance is told what it needs, once and in time, over all the    *)
(* subsystems (NotifyDmiAddresses, Finalize, ModelProvider.hpp).           *)
ToldOnce == DmiToldOnce /\ FinalizedOnce /\ ProviderProtocol

(* The message of VirtioProxy's finalize() asks for a valid instance name: *)
(* a proxy that gives the name of a processor is finalized.                *)
VirtioFinalized ==
    (phase = "failed" /\ failure = "finalize throws") =>
        LET n == Last(finalized) IN
        ~(Class(n) = "VirtioProxy" /\ AllInstances[n].refs["provider_instance"] \in Names
          /\ Class(AllInstances[n].refs["provider_instance"]) \in {"Arm", "Arm64"})
=============================================================================
