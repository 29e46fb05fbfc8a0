----------------------------- MODULE MCPlatform -----------------------------
(***************************************************************************)
(* A platform and its monitor, one at a time by the value of focus: small  *)
(* platforms are elaborated in every order of their elements, and a        *)
(* program drives the monitor of a platform of four instances.             *)
(***************************************************************************)
EXTENDS Platform, Monitor

VARIABLE focus
vars == <<focus, platformVars, monitorVars>>

NoRefs == [none |-> 0]
Make(name, class, a) == [name |-> name, class |-> class, domain |-> 0, id |-> 0, complete |-> TRUE,
                         refs |-> NoRefs, a |-> a]
Plain(name, class) == Make(name, class, NoRefs)
Ref(name, class, attr, to) == [Plain(name, class) EXCEPT !.refs = (attr :> to)]
Memory(name, direct) == Make(name, "Memory", [dmi_enable |-> direct])
Arm64(name, id, gic, io) == [Make(name, "Arm64", [io_only |-> io]) EXCEPT !.id = id, !.refs = ("gic" :> gic)]
Arm(name, id) == [Plain(name, "Arm") EXCEPT !.id = id]
Gic(name, filter) == Make(name, "GIC", [filter |-> filter])
Cache(name, level, home) == Make(name, "Cache", [level |-> level, levels_number |-> 3, is_home |-> home,
                                                 l1i_simulate |-> level = 2])
Provided(name, class, p) == Ref(name, class, "provider", p)
Bus(name, nin, nout) == Make(name, "Interconnect", [n_in_ports |-> nin, n_out_ports |-> nout])
Mesh(name) == Make(name, "CoherentInterconnect",
    [n_cache_in |-> 1, n_cache_out |-> 1, n_home_in |-> 1, n_home_out |-> 1, n_mmapped |-> 2, n_device |-> 1])
Link(src, o, dst, i) == [src |-> src, out |-> o, dst |-> dst, in |-> i]
Sub(ips, links) == [ips |-> ips, links |-> links]
P(k) == <<"port", k>>

(* A bus with a default route, and too many links. *)
OnBus == <<Sub({Bus(1, 1, 3), Memory(2, TRUE), Plain(3, "Uart"), Plain(4, "AddressTranslator"),
                Plain(5, "RemoteInitiator")},
               {Link(5, P(0), 1, P(0)), Link(1, P(0), 2, P(0)), Link(1, P(1), 3, P(0)),
                Link(1, P(2), 4, P(0)), Link(4, P(0), 3, P(1))})>>
OnDefault == <<Sub({Bus(1, 1, 3), Memory(2, TRUE), Bus(3, 2, 2), Plain(4, "CallbackRegister32"),
                    Plain(5, "CallbackRegister64")},
                   {Link(1, P(0), 2, P(0)), Link(1, P(1), 3, P(0)), Link(1, P(2), 4, P(0)),
                    Link(3, P(0), 5, P(0)), Link(3, P(0), 4, P(0))})>>
(* A coherent mesh, its caches, homes, memories and controllers. *)
OnMesh == <<Sub({Mesh(1), Cache(2, 2, FALSE), Cache(3, 3, TRUE), Memory(4, TRUE), Plain(5, "Monitor")},
                {Link(1, <<"home_out", 0>>, 3, <<"in_data", 0>>),
                 Link(1, <<"cache_out", 0>>, 2, <<"in_invalidate", 0>>),
                 Link(1, <<"mmapped_out", 0>>, 4, P(0)), Link(1, <<"mmapped_out", 1>>, 5, P(0)),
                 Link(3, <<"out_data", 0>>, 1, <<"home_in", 0>>)})>>
MeshControllers(noc) ==
    <<Sub({Mesh(1), Cache(2, 1, FALSE), Ref(3, "NoCMemoryController", "noc", noc),
           [Ref(4, "CacheIdController", "noc", noc) EXCEPT !.refs = ("noc" :> noc @@ "cache" :> 2)],
           Ref(5, "CacheController", "noc", noc)}, {}),
      Sub({Ref(6, "CpuController", "noc", noc), Ref(7, "NoCDeviceController", "noc", noc),
           Ref(8, "NoCHomeNode", "noc", 9), Ref(10, "NoCSource", "noc", 9), Bus(9, 1, 1)},
          {Link(1, <<"mmapped_out", 0>>, 9, P(0))})>>
(* Processors and interrupt controllers. *)
WithGic(filter) ==
    <<Sub({Gic(1, filter), Arm64(2, 1, 1, FALSE), Arm64(3, 0, 1, FALSE), Arm64(4, 2, 1, TRUE),
           Ref(5, "PL011Uart", "interrupt_parent", 1)}, {Link(2, <<"to_icache", 0>>, 5, P(0))})>>
WithLines(id1, id2) ==
    <<Sub({Make(1, "ItCtrl", [lines |-> 4, per_cpu |-> 2]), Arm(2, id1), Arm(3, id2), Memory(4, FALSE)}, {})>>
ExternalCpus == <<Sub({Gic(1, "Arm"), [Make(2, "ExternalCPU", [finalize |-> TRUE, n_smp_cpus |-> 2])
                                       EXCEPT !.refs = ("gic" :> 1)],
                   Ref(3, "ExternalSimulator", "interrupt_parent", 1), Arm(4, 0)},
                  {Link(2, P(0), 3, P(0))}),
              Sub({Make(5, "SystemCTarget", [parent |-> "none"]), Ref(6, "RemoteTarget", "interrupt_parent", 1)},
                  {})>>
(* Model providers, over two subsystems and two domains. *)
Providers ==
    <<Sub({Plain(1, "ModelProvider"), Provided(2, "ModelProviderCpu", 1), Provided(3, "ModelProviderCpu", 1),
           Provided(4, "ModelProviderParam1", 1), Memory(5, TRUE)}, {}),
      Sub({Memory(6, FALSE), [Memory(7, TRUE) EXCEPT !.domain = 1], Plain(8, "ElfLoader")}, {})>>
Provider ==
    <<Sub({Plain(1, "ModelProvider"), Provided(2, "ModelProviderDev", 1), Provided(3, "ModelProviderParam2", 1),
           Provided(4, "ModelProviderCpu", 1)}, {})>>
(* A GIC that is to connect the processors of a model provider. *)
ProvidedCpus ==
    <<Sub({Gic(1, "ModelProviderCpu"), Plain(2, "ModelProvider"), Provided(3, "ModelProviderCpu", 2),
           Memory(4, TRUE)}, {})>>
(* Cosimulation, loaders, and descriptions that are refused. *)
Cosim(cosim) ==
    <<Sub({Make(cosim, "SystemCCosim", [n_out_ports |-> 1]), Make(2, "IOAccessCosim", [n_out_ports |-> 1]),
           Ref(3, "BlobLoader", "target_memory", 4), Memory(4, TRUE),
           Ref(5, "PythonDevice", "interrupt_parent", 99)}, {})>>
Refused == <<Sub({Plain(1, "Container"), Plain(1, "Uart"),
                  [Plain(2, "Memory") EXCEPT !.complete = FALSE, !.a = [dmi_enable |-> TRUE]],
                  Ref(3, "XuartPs", "interrupt_parent", 1)}, {})>>
Virtio == <<Sub({Ref(1, "VirtioProxy", "provider_instance", 2), Arm(2, 0)}, {})>>

PlatformDescriptions ==
    {OnBus, OnDefault, OnMesh, MeshControllers(1), MeshControllers(9), WithGic("Arm"), WithGic("Arm64"),
     WithLines(0, 1), WithLines(1, 0), ExternalCpus, ProvidedCpus, Providers, Provider, Cosim(50), Cosim(1), Refused, Virtio}

OneRange == {<<0, 2>>}

Init == /\ focus \in {"platform", "monitor"} /\ PlatformInit /\ MonitorInit
        /\ focus = "platform" => MainMemPtr
        /\ focus = "monitor" => description = Refused
Next == \/ focus = "platform" /\ PlatformNext /\ UNCHANGED <<focus, monitorVars>>
        \/ focus = "monitor" /\ MonitorNext /\ UNCHANGED <<focus, platformVars>>
Spec == Init /\ [][Next]_vars /\ MonitorFairness
=============================================================================
