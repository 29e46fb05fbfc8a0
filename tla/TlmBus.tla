------------------------------- MODULE TlmBus -------------------------------
(***************************************************************************)
(* The path of a memory access: the initiator (src/core/InitiatorIf.cpp),  *)
(* the forwarding socket in front of each port, which keeps direct memory  *)
(* regions (src/core/vpsimModule/ForwardSimpleSocket.cpp), the bus         *)
(* (src/components/connect/interconnect.cpp) and a memory behind the       *)
(* target interface (src/core/TargetIf.cpp, components/memory/memory.cpp). *)
(* b_transport never waits: an access is one step.                         *)
(*                                                                         *)
(* Target t is behind the bus's port t.  History variables: written is     *)
(* what was last written at each address, refused the bytes each target    *)
(* refused.                                                                *)
(***************************************************************************)
EXTENDS Integers, SequencesExt, FiniteSetsExt

CONSTANTS BusInitiators,
          Memories,          \* sequence of [base, size, dmi]
          mDefaultRoute,     \* port of addresses no range holds, 0: none
          BusAccesses,       \* [cmd, addr, len, ptr, byteEnable]
          BusValues,
          BlockingRanges,    \* sets of addresses a client may make blocking
          AccessLatency, WordLatency,
          MaxAccesses        \* bound: accesses of a run

ASSUME TlmBusAssumption ==
    /\ Memories # <<>> /\ mDefaultRoute \in 0 .. Len(Memories)
    /\ Memories \in Seq([base : Nat, size : Nat \ {0}, dmi : BOOLEAN])
    /\ \A a \in BusAccesses : a.addr \in Nat /\ a.len \in Nat
    /\ BusValues # {}
    /\ AccessLatency \in Nat /\ WordLatency \in Nat /\ MaxAccesses \in Nat

VARIABLES mLocalMem, mDmiData, blockingTLM, read_count_out, write_count_out,
          mReadCount, mWriteCount, answer, thrown, accesses, written, refused

tlmVars == <<mLocalMem, mDmiData, blockingTLM, read_count_out, write_count_out,
             mReadCount, mWriteCount, answer, thrown, accesses, written, refused>>

BusPorts == DOMAIN Memories
EndAddress(t) == Memories[t].base + Memories[t].size - 1
MemoryAddr == UNION {Memories[t].base .. EndAddress(t) : t \in BusPorts}
Touched(a) == a.addr .. a.addr + a.len - 1
InitialValue == CHOOSE v \in BusValues : TRUE

-----------------------------------------------------------------------------
(* The only port of the bus takes everything.                              *)
get_port(addr, len) ==
    LET hits == {t \in BusPorts : Memories[t].base <= addr /\ addr + len - 1 <= EndAddress(t)}
    IN IF Len(Memories) = 1 THEN 1 ELSE IF hits = {} THEN mDefaultRoute ELSE Min(hits)

(* The checks of the target, in their order; the memory's callbacks accept *)
(* every access.                                                           *)
TargetStatus(t, a) ==
    IF a.addr < Memories[t].base \/ a.addr + a.len > Memories[t].base + Memories[t].size
    THEN "ADDRESS_ERROR"
    ELSE IF a.len > Memories[t].size \/ a.len = 0 THEN "BURST_ERROR"
    ELSE IF a.byteEnable THEN "BYTE_ENABLE_ERROR"
    ELSE IF a.cmd \notin {"READ", "WRITE"} THEN "COMMAND_ERROR"
    ELSE "OK"

(* get_direct_mem_ptr of the socket, the bus and the target: the socket    *)
(* refuses when an address of the access is blocking, the target answers   *)
(* with the whole memory.                                                  *)
GrantedRegion(i, t, a) ==
    IF Touched(a) \intersect blockingTLM[i] # {} \/ ~Memories[t].dmi
       \/ a.addr < Memories[t].base \/ a.addr + a.len - 1 > EndAddress(t)
    THEN <<>>
    ELSE <<[start |-> Memories[t].base, end |-> EndAddress(t), target |-> t]>>

(* The regions that serve an access without the bus: only its first        *)
(* address is asked about.                                                 *)
DmiRegions(i, a) ==
    IF a.addr \in blockingTLM[i] \/ a.cmd \notin {"READ", "WRITE"} THEN {}
    ELSE {k \in DOMAIN mDmiData[i] : mDmiData[i][k].start <= a.addr
                                     /\ a.addr + a.len - 1 <= mDmiData[i][k].end}

(* The bytes at the access's addresses, in a memory that starts at origin. *)
Copy(a, v, origin, mem) ==
    LET offsets == IF a.cmd = "WRITE" /\ a.ptr THEN {y - origin : y \in Touched(a)} ELSE {}
    IN [x \in DOMAIN mem \union offsets |-> IF x \in offsets THEN v ELSE mem[x]]
ReadBytes(a, origin, mem) ==
    IF a.cmd = "READ" /\ a.ptr THEN [x \in Touched(a) |-> mem[x - origin]] ELSE <<>>

-----------------------------------------------------------------------------
TlmInit ==
    /\ mLocalMem = [t \in BusPorts |-> [x \in 0 .. Memories[t].size - 1 |-> InitialValue]]
    /\ mDmiData = [i \in BusInitiators |-> <<>>]
    /\ blockingTLM = [i \in BusInitiators |-> {}]
    /\ read_count_out = [t \in BusPorts |-> 0] /\ write_count_out = [t \in BusPorts |-> 0]
    /\ mReadCount = [t \in BusPorts |-> 0] /\ mWriteCount = [t \in BusPorts |-> 0]
    /\ answer = <<>> /\ thrown = FALSE /\ accesses = 0
    /\ written = [x \in MemoryAddr |-> InitialValue]
    /\ refused = [t \in BusPorts |-> 0]

Reply(i, a, status, bytes, delay) ==
    answer' = [initiator |-> i, access |-> a, status |-> status, bytes |-> bytes, delay |-> delay]
Record(a, v, status) ==
    written' = [x \in MemoryAddr |->
                  IF status = "OK" /\ a.cmd = "WRITE" /\ a.ptr /\ x \in Touched(a) THEN v
                  ELSE written[x]]

(* The socket serves the access from a region it holds.                    *)
dmi_access(i, a, v) ==
    LET region == mDmiData[i][Min(DmiRegions(i, a))]
    IN /\ ~thrown /\ accesses < MaxAccesses /\ DmiRegions(i, a) # {}
       /\ mLocalMem' = [mLocalMem EXCEPT ![region.target] = Copy(a, v, region.start, @)]
       /\ Reply(i, a, "OK", ReadBytes(a, region.start, mLocalMem[region.target]), 0)
       /\ Record(a, v, "OK") /\ accesses' = accesses + 1
       /\ UNCHANGED <<mDmiData, blockingTLM, read_count_out, write_count_out, mReadCount,
                      mWriteCount, thrown, refused>>

(* The access goes over the bus; an answered one may bring a region.       *)
target_mem_access(i, a, v) ==
    LET t == get_port(a.addr, a.len)
        status == TargetStatus(t, a)
        origin == Memories[t].base
        delay == AccessLatency + (IF status = "OK" THEN a.len * WordLatency ELSE 0)
    IN /\ ~thrown /\ accesses < MaxAccesses /\ DmiRegions(i, a) = {}
       /\ accesses' = accesses + 1
       /\ thrown' = (t = 0)
       /\ IF t = 0
          THEN UNCHANGED <<mLocalMem, mDmiData, read_count_out, write_count_out, mReadCount,
                           mWriteCount, answer, written, refused>>
          ELSE /\ IF a.cmd = "WRITE"
                  THEN /\ write_count_out' = [write_count_out EXCEPT ![t] = @ + a.len]
                       /\ UNCHANGED read_count_out
                  ELSE /\ read_count_out' = [read_count_out EXCEPT ![t] = @ + a.len]
                       /\ UNCHANGED write_count_out
               /\ mWriteCount' = [mWriteCount EXCEPT ![t] =
                                    IF status = "OK" /\ a.cmd = "WRITE" THEN @ + a.len ELSE @]
               /\ mReadCount' = [mReadCount EXCEPT ![t] =
                                    IF status = "OK" /\ a.cmd = "READ" THEN @ + a.len ELSE @]
               /\ refused' = [refused EXCEPT ![t] = IF status = "OK" THEN @ ELSE @ + a.len]
               /\ mLocalMem' = [mLocalMem EXCEPT ![t] =
                                  IF status = "OK" THEN Copy(a, v, origin, @) ELSE @]
               /\ Reply(i, a, status,
                        IF status = "OK" THEN ReadBytes(a, origin, mLocalMem[t]) ELSE <<>>, delay)
               /\ Record(a, v, status)
               /\ mDmiData' = IF status = "OK" /\ a.addr \notin blockingTLM[i]
                              THEN [mDmiData EXCEPT ![i] = @ \o GrantedRegion(i, t, a)]
                              ELSE mDmiData
       /\ UNCHANGED blockingTLM

(* The n-th smallest number of a set.                                      *)
Nth(S, n) == CHOOSE k \in S : Cardinality({j \in S : j < k}) = n - 1

(* A client changes the blocking parameter; the update hook drops regions. *)
(* Mutant: the hook drops nothing. *)
updateHookSilent(i, blocking) == mDmiData
updateHook(i, blocking) ==
    LET kept == {k \in DOMAIN mDmiData[i] :
                   (mDmiData[i][k].start .. mDmiData[i][k].end) \intersect blocking = {}}
    IN [mDmiData EXCEPT ![i] = [n \in 1 .. Cardinality(kept) |-> @[Nth(kept, n)]]]
setBlocking(i, s) ==
    /\ ~thrown /\ blockingTLM[i] # s
    /\ blockingTLM' = [blockingTLM EXCEPT ![i] = s]
    /\ mDmiData' = updateHook(i, s)
    /\ answer' = <<>>
    /\ UNCHANGED <<mLocalMem, read_count_out, write_count_out, mReadCount, mWriteCount,
                   thrown, accesses, written, refused>>

TlmNext ==
    \/ \E i \in BusInitiators, a \in BusAccesses, v \in BusValues :
          dmi_access(i, a, v) \/ target_mem_access(i, a, v)
    \/ \E i \in BusInitiators, s \in BlockingRanges : setBlocking(i, s)

TlmSpec == TlmInit /\ [][TlmNext]_tlmVars

-----------------------------------------------------------------------------
(* Type correctness: no write leaves the array of its memory. *)
TlmTypeOK ==
    /\ \A i \in BusInitiators : \A r \in Range(mDmiData[i]) : r.target \in BusPorts
    /\ \A t \in BusPorts : mLocalMem[t] \in [0 .. Memories[t].size - 1 -> BusValues]

(* A read that is answered returns what was last written at its addresses, *)
(* whether it or the writes went over the bus or through a region.         *)
ReadsSeeWrites ==
    (answer # <<>> /\ answer.status = "OK" /\ answer.access.cmd = "READ" /\ answer.access.ptr) =>
        answer.bytes = [x \in Touched(answer.access) |-> written[x]]

(* The bytes the bus counts on a port are those the target counts or       *)
(* refused.                                                                *)
CountersAgree ==
    \A t \in BusPorts : read_count_out[t] + write_count_out[t]
                            = mReadCount[t] + mWriteCount[t] + refused[t]

(* A socket holds each memory at most once, so that its list, which is     *)
(* walked on every access, does not grow.                                  *)
RegionsOnce ==
    \A i \in BusInitiators : \A j, k \in DOMAIN mDmiData[i] :
        mDmiData[i][j].target = mDmiData[i][k].target => j = k

(* Where the whole memory is blocking, no region is held: every access is  *)
(* seen, and delayed, by the bus.                                          *)
BlockingLeavesNoRegion ==
    \A i \in BusInitiators : \A r \in Range(mDmiData[i]) : ~(r.start .. r.end \subseteq blockingTLM[i])

(* The bus refuses no access a memory holds, whatever the ports' order.    *)
MappedAccessAnswered ==
    (answer # <<>> /\ answer.access.len > 0 /\ ~answer.access.byteEnable
       /\ answer.access.cmd \in {"READ", "WRITE"}
       /\ \E t \in BusPorts : Touched(answer.access) \subseteq Memories[t].base .. EndAddress(t))
      => answer.status = "OK"

(* Direct regions and transactions show one memory, under any change of the *)
(* blocking addresses, and every byte is counted (ForwardSimpleSocket.cpp, *)
(* interconnect.cpp, TargetIf.cpp).                                        *)
BusSeesOneMemory == /\ TlmTypeOK /\ ReadsSeeWrites /\ CountersAgree
                    /\ RegionsOnce /\ BlockingLeavesNoRegion /\ MappedAccessAnswered
=============================================================================
