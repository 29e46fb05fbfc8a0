--------------------------- MODULE MCInterconnect ---------------------------
(* Four questions in one run, by the value of focus: where the mesh sends   *)
(* transactions and what it charges for them, what an access finds on the   *)
(* bus, how the processors that make the accesses keep time, and how the    *)
(* log follows its appointments.  A mesh of 2 x 2 routers: two memories,    *)
(* two homes, two caches and a device, in the systems of ConfigurationsDef. *)
(* The contention interval is a multiple of every queue length a run        *)
(* reaches, as waiting times are divided.                                   *)
EXTENDS CoherenceInterconnect, TlmBus, IssWrapper, LoggerCore

CONSTANTS c0, c1

VARIABLE focus
vars == <<focus, icVars, tlmVars, issVars, loggerVars>>

At(x, y) == [x |-> x, y |-> y]
MemSocketsDef == <<[base |-> 4, size |-> 8] @@ At(0, 0), [base |-> 12, size |-> 8] @@ At(1, 1)>>
HomeSocketsDef == <<[base |-> 4, size |-> 8] @@ At(1, 0), [base |-> 12, size |-> 8] @@ At(0, 1)>>
CacheSocketsDef == <<1, 2>>
CpuCtrlsDef == <<[id |-> 1] @@ At(0, 0), [id |-> 2] @@ At(1, 1), [id |-> 3] @@ At(1, 0)>>

Transaction(cmd, cc, addr, len, src, targets, toHome) ==
    [cmd |-> cmd, cc |-> cc, addr |-> addr, len |-> len, src |-> src, targets |-> targets,
     toHome |-> toHome]
GetS(addr) == Transaction("IGNORE", "GetS", addr, 4, 1, {}, TRUE)
PutM == Transaction("IGNORE", "PutM", 12, 8, 2, {}, TRUE)
FwdGetS == Transaction("IGNORE", "FwdGetS", 4, 4, 3, {1, 2}, FALSE)
Invalidate == Transaction("IGNORE", "Invalidate", 4, 0, 3, {1}, FALSE)
Evict == Transaction("IGNORE", "Evict", 8, 4, 1, {}, TRUE)
ReadBack == Transaction("IGNORE", "ReadBack", 4, 4, 3, {1}, FALSE)
Write(len, src) == Transaction("WRITE", "None", 12, len, src, {}, FALSE)
Read(src, toHome) == Transaction("READ", "None", 8, 8, src, {}, toHome)
Device(cmd, addr, len, dev) == [cmd |-> cmd, addr |-> addr, len |-> len, dev |-> dev]

(* The systems: with and without coherence, a mesh and contention; with    *)
(* one flit or two per buffer; with homes or memory interleaved, or linked *)
(* or registered in another order than that of the sockets; a device on    *)
(* the edge of the mesh, one whose router has no counter, a cache outside. *)
Base == [IsCoherent |-> TRUE, mIsMesh |-> TRUE, mWithContention |-> TRUE, mBufferSize |-> 1,
         mNoc_stats_per_initiator_on |-> FALSE, MemoryInterleaveLength |-> 0, SLCInterleaveLength |-> 4,
         homeLinks |-> <<1, 2>>, memLinks |-> <<1, 2>>, homeCtrls |-> HomeSocketsDef,
         memCtrls |-> MemSocketsDef, cpuCtrls |-> CpuCtrlsDef,
         deviceCtrls |-> <<[id |-> 9] @@ At(0, 1)>>,
         transactions |-> {GetS(4), PutM, FwdGetS, ReadBack, Write(8, 3)}, accesses |-> {}]
AllAccesses == {Device("READ", 4, 6, 9), Device("READ", 4, 0, 9), Device("WRITE", 10, 6, 9),
                Device("WRITE", 12, 6, 9), Device("READ", 16, 4, 9), Device("READ", 4, 6, 8)}
Plain == [Base EXCEPT !.mWithContention = FALSE]
Quiet == [Plain EXCEPT !.cpuCtrls = <<>>, !.deviceCtrls = <<>>, !.transactions = {}]
ConfigurationsDef ==
    {Base, Quiet,
     [Base EXCEPT !.accesses = AllAccesses, !.transactions = {GetS(4), Write(8, 3)}],
     [Base EXCEPT !.mBufferSize = 2, !.SLCInterleaveLength = 0,
                  !.transactions = {GetS(4), Write(8, 3), Write(4, 1)}],
     [Base EXCEPT !.IsCoherent = FALSE, !.SLCInterleaveLength = 0, !.homeCtrls = Reverse(@),
                  !.transactions = {Read(2, TRUE), Read(3, FALSE), Invalidate, Evict, ReadBack, Write(2, 3)}],
     [Base EXCEPT !.MemoryInterleaveLength = 4, !.transactions = {Read(3, FALSE), Write(8, 3)},
                  !.accesses = {Device("WRITE", 12, 6, 9)}],
     [Plain EXCEPT !.mNoc_stats_per_initiator_on = TRUE, !.homeCtrls = Reverse(@),
                   !.memLinks = <<2, 1>>, !.transactions = @ \union {GetS(40)}],
     [Plain EXCEPT !.IsCoherent = FALSE, !.SLCInterleaveLength = 0, !.homeLinks = <<2, 1>>,
                   !.memCtrls = Reverse(@), !.accesses = AllAccesses,
                   !.transactions = {Read(2, TRUE), Invalidate, Evict, Write(8, 3)}],
     [Plain EXCEPT !.mIsMesh = FALSE, !.accesses = AllAccesses],
     [Base EXCEPT !.deviceCtrls = <<[id |-> 9] @@ At(2, 0)>>, !.transactions = {PutM},
                  !.accesses = {Device("READ", 4, 6, 9)}],
     [Base EXCEPT !.deviceCtrls = <<[id |-> 9] @@ At(0, 2)>>, !.transactions = {PutM},
                  !.accesses = {Device("READ", 4, 6, 9)}],
     [Base EXCEPT !.cpuCtrls = Append(@, [id |-> 4] @@ At(3, 0))]}

MemoriesDef == <<[base |-> 2, size |-> 3, dmi |-> TRUE], [base |-> 5, size |-> 2, dmi |-> FALSE]>>
Access(cmd, addr, len) == [cmd |-> cmd, addr |-> addr, len |-> len, ptr |-> TRUE,
                           byteEnable |-> FALSE]
BusAccessesDef ==
    {Access(cmd, addr, len) : cmd \in {"READ", "WRITE"}, addr \in 2 .. 6, len \in {1, 2}}
    \union {Access("WRITE", 2, 0), Access("IGNORE", 3, 1), [Access("READ", 2, 3) EXCEPT !.ptr = FALSE],
            [Access("WRITE", 5, 1) EXCEPT !.byteEnable = TRUE]}
BlockingRangesDef == {{}, {3}, 2 .. 4}

BootDelays == c0 :> 0 @@ c1 :> 1

Init == /\ focus \in {"mesh", "bus", "processors", "log"} /\ IcInit /\ TlmInit /\ IssInit /\ LoggerInit
        /\ focus # "mesh" => config = Quiet
Next == \/ focus = "mesh" /\ IcNext /\ UNCHANGED <<focus, tlmVars, issVars, loggerVars>>
        \/ focus = "bus" /\ TlmNext /\ UNCHANGED <<focus, icVars, issVars, loggerVars>>
        \/ focus = "processors" /\ IssNext /\ UNCHANGED <<focus, icVars, tlmVars, loggerVars>>
        \/ focus = "log" /\ LoggerNext /\ UNCHANGED <<focus, icVars, tlmVars, issVars>>
Spec == Init /\ [][Next]_vars
=============================================================================
