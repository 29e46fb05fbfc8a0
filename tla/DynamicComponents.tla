------------------------- MODULE DynamicComponents -------------------------
(***************************************************************************)
(* The classes a platform is made of, as the builder sees them             *)
(* (src/components/include/components/DynamicComponents.hpp,               *)
(* ModelProvider.hpp).  One definition per class: how many input and       *)
(* output sockets an instance may have, the ones make() names, whether it  *)
(* is memory mapped, is told of the memory mapped ones (needsDmi), can be  *)
(* accessed directly (hasDmi), has an identifier, is a processor, and what *)
(* finalize() looks up by name: the attribute that names it, the classes   *)
(* it may be, and what happens when nothing has that name.  Attributes     *)
(* that only configure the simulated hardware are left out.                *)
(***************************************************************************)
EXTENDS Integers, Sequences, SequencesExt

(* An alias is a kind and a number: cache_out_3 is <<"cache_out", 3>>. *)
Numbered(kind, n) == [i \in 1..n |-> <<kind, i - 1>>]
Named(kind) == <<kind, 0>>

(* The defaults of VpsimIp. *)
Ip == [in |-> 0, out |-> 0, inPorts |-> <<>>, outPorts |-> <<>>, mapped |-> FALSE,
       needsDmi |-> FALSE, hasDmi |-> FALSE, idMapped |-> FALSE, processor |-> FALSE,
       finds |-> <<>>, delayed |-> FALSE]
Target == [Ip EXCEPT !.in = 1, !.mapped = TRUE]     \* MEMORY_MAPPED, N_IN_PORTS(1)

AnyClass == {}
(* Find(attr) in finalize(): what is found is cast to one of the classes.  *)
Finds(attr, classes, absent) == <<[attr |-> attr, classes |-> classes, absent |-> absent]>>
InterruptParent(absent) == Finds("interrupt_parent", AnyClass, absent)
Noc(class) == Finds("noc", {class}, "crash")

-----------------------------------------------------------------------------
DynamicExternalSimulator(a) == [Target EXCEPT !.finds = InterruptParent("throw")]
DynamicSystemCTarget(a) ==
    [Target EXCEPT !.out = 1,
                   !.finds = InterruptParent(IF a.parent = "none" THEN "skip" ELSE "throw")]
DynamicGIC(a) == Target                 \* and connects the processors of class filter
DynamicRemoteInitiator(a) == [Ip EXCEPT !.out = 1]
DynamicRemoteTarget(a) == [Target EXCEPT !.finds = InterruptParent("throw")]
DynamicSystemCCosimulator(a) ==
    [Ip EXCEPT !.out = 2 * a.n_out_ports, !.needsDmi = TRUE,
               !.outPorts = [k \in 1..(2 * a.n_out_ports) |->
                   <<IF k % 2 = 1 THEN "fetch_port" ELSE "data_port", (k - 1) \div 2>>]]
DynamicIOAccessCosimulator(a) ==
    [Ip EXCEPT !.out = a.n_out_ports, !.needsDmi = TRUE,
               !.outPorts = Numbered("dma_port", a.n_out_ports),
               !.finds = Finds("SystemCCosim0", {"SystemCCosim"}, "crash")]
Processor == [Ip EXCEPT !.out = 2, !.needsDmi = TRUE, !.processor = TRUE,
                        !.outPorts = <<Named("to_icache"), Named("to_dcache")>>]
DynamicArm(a) == Processor
DynamicArm64(a) ==
    [Processor EXCEPT !.finds = Finds("gic", IF a.io_only THEN AnyClass ELSE {"GIC"}, "throw")]
(* finalize() reads the attribute provide_instance, which is not one of    *)
(* the class's: provider_instance is.                                      *)
DynamicVirtioProxy(a) == [Target EXCEPT !.finds = Finds("provide_instance", {"Arm", "Arm64"}, "throw")]
DynamicExternalCPU(a) ==
    [Ip EXCEPT !.out = 1, !.finds = IF a.finalize THEN Finds("gic", {"GIC"}, "throw") ELSE <<>>]
DynamicCache(a) ==
    LET ins == <<Named("in_data")>>
               \o (IF a.level = 2 /\ a.l1i_simulate THEN <<Named("in_instruction")>> ELSE <<>>)
               \o (IF a.level < a.levels_number THEN <<Named("in_invalidate")>> ELSE <<>>)
        outs == <<Named("out_data")>>
                \o (IF a.level > 1 /\ ~a.is_home THEN <<Named("out_invalidate")>> ELSE <<>>)
    IN [Ip EXCEPT !.in = Len(ins), !.out = Len(outs), !.inPorts = ins, !.outPorts = outs,
                  !.mapped = a.is_home, !.needsDmi = TRUE, !.idMapped = TRUE, !.delayed = TRUE]
(* Every socket is named by make(), in this order. *)
DynamicCoherenceInterconnect(a) ==
    LET ins == Numbered("cache_in", a.n_cache_in) \o Numbered("home_in", a.n_home_in)
               \o Numbered("device", a.n_device)
        outs == Numbered("cache_out", a.n_cache_out) \o Numbered("home_out", a.n_home_out)
                \o Numbered("mmapped_out", a.n_mmapped)
    IN [Ip EXCEPT !.in = Len(ins), !.out = Len(outs), !.inPorts = ins, !.outPorts = outs,
                  !.delayed = TRUE]
DynamicNoCDeviceController(a) == [Ip EXCEPT !.finds = Noc("CoherentInterconnect")]
DynamicNoCMemoryController(a) == [Ip EXCEPT !.finds = Noc("CoherentInterconnect")]
DynamicCacheController(a) == [Ip EXCEPT !.finds = Noc("CoherentInterconnect")]
DynamicCacheIdController(a) ==
    [Ip EXCEPT !.finds = Noc("CoherentInterconnect") \o Finds("cache", {"Cache"}, "crash")]
DynamicCpuController(a) == [Ip EXCEPT !.finds = Noc("CoherentInterconnect")]
DynamicInterconnect(a) == [Ip EXCEPT !.in = a.n_in_ports, !.out = a.n_out_ports]
DynamicNoCHomeNode(a) == [Ip EXCEPT !.finds = Noc("Interconnect")]
DynamicNoCSource(a) == [Ip EXCEPT !.finds = Noc("Interconnect")]
DynamicMemory(a) == [Target EXCEPT !.hasDmi = a.dmi_enable, !.delayed = TRUE]
DynamicBlobLoader(a) == [Ip EXCEPT !.finds = Finds("target_memory", {"Memory"}, "throw")]
DynamicElfLoader(a) == [Ip EXCEPT !.needsDmi = TRUE]
DynamicUart(a) == Target
DynamicItCtrl(a) == Target              \* and maps its lines to the Arm processors
DynamicPL011Uart(a) == [Target EXCEPT !.finds = InterruptParent("skip")]
DynamicXuartPs(a) == [Target EXCEPT !.finds = InterruptParent("skip")]
DynamicAddressTranslator(a) == [Target EXCEPT !.out = 1]
DynamicTLMCallbackRegister(a) == Target
DynamicSesamController(a) == [Target EXCEPT !.finds = Finds("SystemCCosim0", {"SystemCCosim"}, "skip")]
DynamicPythonDevice(a) == [Target EXCEPT !.finds = InterruptParent("skip")]
DynamicModelProviderCpu(a) == [Ip EXCEPT !.out = 1, !.needsDmi = TRUE, !.processor = TRUE]
DynamicModelProviderDev(a) == Ip
DynamicModelProviderParam1(a) == Ip
DynamicModelProviderParam2(a) == Ip
DynamicModelProvider(a) == [Ip EXCEPT !.needsDmi = TRUE]
Container(a) == Ip

-----------------------------------------------------------------------------
(* The registered classes, in the order of their names: instances are      *)
(* visited by class, then by instance name.                                *)
RegisteredClasses ==
    <<"AddressTranslator", "Arm", "Arm64", "BlobLoader", "Cache", "CacheController",
      "CacheIdController", "CallbackRegister32", "CallbackRegister64", "CoherentInterconnect",
      "Container", "CpuController", "ElfLoader", "ExternalCPU", "ExternalSimulator", "GIC",
      "IOAccessCosim", "Interconnect", "ItCtrl", "Memory", "ModelProvider", "ModelProviderCpu",
      "ModelProviderDev", "ModelProviderParam1", "ModelProviderParam2", "Monitor",
      "NoCDeviceController", "NoCHomeNode", "NoCMemoryController", "NoCSource", "PL011Uart",
      "PythonDevice", "RemoteInitiator", "RemoteTarget", "SystemCCosim", "SystemCTarget",
      "Uart", "VirtioProxy", "XuartPs">>

NewByName(class, a) ==
    CASE class = "AddressTranslator" -> DynamicAddressTranslator(a)
      [] class = "Arm" -> DynamicArm(a)
      [] class = "Arm64" -> DynamicArm64(a)
      [] class = "BlobLoader" -> DynamicBlobLoader(a)
      [] class = "Cache" -> DynamicCache(a)
      [] class = "CacheController" -> DynamicCacheController(a)
      [] class = "CacheIdController" -> DynamicCacheIdController(a)
      [] class \in {"CallbackRegister32", "CallbackRegister64"} -> DynamicTLMCallbackRegister(a)
      [] class = "CoherentInterconnect" -> DynamicCoherenceInterconnect(a)
      [] class = "Container" -> Container(a)
      [] class = "CpuController" -> DynamicCpuController(a)
      [] class = "ElfLoader" -> DynamicElfLoader(a)
      [] class = "ExternalCPU" -> DynamicExternalCPU(a)
      [] class = "ExternalSimulator" -> DynamicExternalSimulator(a)
      [] class = "GIC" -> DynamicGIC(a)
      [] class = "IOAccessCosim" -> DynamicIOAccessCosimulator(a)
      [] class = "Interconnect" -> DynamicInterconnect(a)
      [] class = "ItCtrl" -> DynamicItCtrl(a)
      [] class = "Memory" -> DynamicMemory(a)
      [] class = "ModelProvider" -> DynamicModelProvider(a)
      [] class = "ModelProviderCpu" -> DynamicModelProviderCpu(a)
      [] class = "ModelProviderDev" -> DynamicModelProviderDev(a)
      [] class = "ModelProviderParam1" -> DynamicModelProviderParam1(a)
      [] class = "ModelProviderParam2" -> DynamicModelProviderParam2(a)
      [] class = "Monitor" -> DynamicSesamController(a)
      [] class = "NoCDeviceController" -> DynamicNoCDeviceController(a)
      [] class = "NoCHomeNode" -> DynamicNoCHomeNode(a)
      [] class = "NoCMemoryController" -> DynamicNoCMemoryController(a)
      [] class = "NoCSource" -> DynamicNoCSource(a)
      [] class = "PL011Uart" -> DynamicPL011Uart(a)
      [] class = "PythonDevice" -> DynamicPythonDevice(a)
      [] class = "RemoteInitiator" -> DynamicRemoteInitiator(a)
      [] class = "RemoteTarget" -> DynamicRemoteTarget(a)
      [] class = "SystemCCosim" -> DynamicSystemCCosimulator(a)
      [] class = "SystemCTarget" -> DynamicSystemCTarget(a)
      [] class = "Uart" -> DynamicUart(a)
      [] class = "VirtioProxy" -> DynamicVirtioProxy(a)
      [] class = "XuartPs" -> DynamicXuartPs(a)
=============================================================================
