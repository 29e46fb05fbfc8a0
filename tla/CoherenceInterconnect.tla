------------------------ MODULE CoherenceInterconnect ------------------------
(***************************************************************************)
(* The interconnect between caches, home nodes, memories and devices       *)
(* (src/components/connect/CoherenceInterconnect.cpp): where a transaction *)
(* is sent, and what its way costs.  Transactions of the caches' protocol  *)
(* are those of CoherentCaches; here only their route counts.              *)
(*                                                                         *)
(* Where a transaction is sent is decided by the lists that connect fills  *)
(* (HomeOutputs, MMappedOutputs, CacheOutputs), what it costs by the lists *)
(* that the controllers fill when they are finalized (mHomeIDs, ...): two  *)
(* orders that a description chooses independently.                        *)
(*                                                                         *)
(* With contention, the flits that enter the mesh during an interval are   *)
(* kept with their routes; when a flit with a date outside the interval    *)
(* arrives, the waiting times of all of them are computed and the mesh is  *)
(* emptied.  A router is a record of a position and an output port.        *)
(*                                                                         *)
(* Undefined behaviour (an index past the routers' counters, an iterator   *)
(* moved before the first flit of a buffer, a member never initialised)    *)
(* ends a run like a failed assertion or an exception: failed.             *)
(*                                                                         *)
(* History: route and pieces, where the last transaction and the last      *)
(* device access were sent and the places they were charged for; in mesh,  *)
(* sent, the flits that entered, plain, the transactions charged without   *)
(* contention, calls, delivered, the bytes each memory was asked for, and  *)
(* again, the flits and hops that statistics computed before their         *)
(* interval ended.                                                         *)
(***************************************************************************)
EXTENDS Integers, SequencesExt, FiniteSetsExt

CONSTANTS MeshX, MeshY,
          HomeSockets, MemSockets,  \* the component bound to each socket: [base, size, x, y]
          CacheSockets,             \* the identifier of the cache bound to each socket
          Configurations,           \* the systems a run starts from, see below
          FlitSize, MWordLengthInByte,
          RouterLatency, LinkLatency, ContentionInterval, VirtualChannels,
          NocLatency,               \* ACCESS_LATENCY, of an interconnect that is no mesh
          AccessTime,               \* the delay of a memory access
          Stamps,                   \* dates of transactions
          MaxSent,                  \* bound: flits that enter the mesh
          MaxCalls,                 \* bound: transactions
          MaxStatsReads             \* bound: statistics of the flits read

(* A configuration holds the attributes IsCoherent, mIsMesh,               *)
(* mWithContention, mBufferSize, mNoc_stats_per_initiator_on,              *)
(* MemoryInterleaveLength and SLCInterleaveLength (0: none); the order in  *)
(* which the sockets are connected (homeLinks, memLinks); the controllers  *)
(* in the order in which they are finalized (homeCtrls, memCtrls: [base,   *)
(* size, x, y]; cpuCtrls, deviceCtrls: [id, x, y]); and what the caches    *)
(* send (transactions: [cmd, cc, addr, len, src, targets, toHome]) and the *)
(* devices (accesses: [cmd, addr, len, dev]).                              *)
Disjoint(sockets) ==
    \A i, j \in DOMAIN sockets : i # j => \/ sockets[i].base + sockets[i].size <= sockets[j].base
                                          \/ sockets[j].base + sockets[j].size <= sockets[i].base
Reorders(seq, of) == Len(seq) = Len(of) /\ Range(seq) = Range(of)
ASSUME MeshAssumption ==
    /\ MeshX \in Nat \ {0} /\ MeshY \in Nat \ {0}
    /\ Disjoint(HomeSockets) /\ Disjoint(MemSockets)
    /\ \A c \in Configurations :
           /\ c.mBufferSize \in Nat \ {0}
           /\ Reorders(c.homeCtrls, HomeSockets) /\ Reorders(c.memCtrls, MemSockets)
           /\ Reorders(c.homeLinks, [i \in DOMAIN HomeSockets |-> i])
           /\ Reorders(c.memLinks, [i \in DOMAIN MemSockets |-> i])
    /\ FlitSize \in Nat \ {0} /\ MWordLengthInByte \in Nat \ {0}
    /\ {RouterLatency, LinkLatency, NocLatency, AccessTime, MaxSent, MaxCalls, MaxStatsReads} \subseteq Nat
    /\ ContentionInterval \in Nat \ {0} /\ VirtualChannels \in Nat \ {0}

VARIABLES config,
          HomeOutputs, MMappedOutputs, CacheOutputs,     \* as connected
          mAddressIDs, mHomeIDs, mCpuIDs, mDeviceIDs,    \* as registered
          RamBaseAddr, RamLastAddr,
          mesh,            \* the flits of the interval and the statistics
          route, pieces, failed

outputs == <<HomeOutputs, MMappedOutputs, CacheOutputs>>
registers == <<mAddressIDs, mHomeIDs, mCpuIDs, mDeviceIDs, RamBaseAddr, RamLastAddr>>
icVars == <<config, outputs, registers, mesh, route, pieces, failed>>

Place(c) == [x |-> c.x, y |-> c.y]
Nowhere == [x |-> -1, y |-> -1]
(* The counters of the routers are vectors of MeshX * MeshY elements.      *)
Routers == 0 .. MeshX * MeshY - 1
Router(p) == p.x + p.y * MeshX
(* noc maps a hop to the waiting times of the flits in its output buffer,  *)
(* last is packet_latency, the latency of the flit computed last, sum is   *)
(* AverageLatency, that of all the flits computed, waits and passed are    *)
(* RouterTotalLatency and RouterPacketsCount.                              *)
NoBytes == [i \in DOMAIN MemSockets |-> 0]
EmptyMesh ==
    [noc |-> <<>>, packetBuffer |-> <<>>, interval_start |-> 0, last |-> 0, sum |-> 0,
     TotalDistance |-> 0, TotalLatency |-> 0, PacketsCount |-> 0,
     mReadCount |-> NoBytes, mWriteCount |-> NoBytes, initTotalStats |-> <<>>,
     waits |-> [r \in Routers |-> 0], passed |-> [r \in Routers |-> 0], undefined |-> FALSE,
     sent |-> 0, plain |-> 0, calls |-> 0, again |-> [reads |-> 0, flits |-> 0, hops |-> 0],
     delivered |-> [who \in {"cache", "device"} |-> [cmd \in {"READ", "WRITE"} |-> NoBytes]]]

(* The members that set_contention's caller sets with it, and the zero     *)
(* times they keep without it.                                             *)
Link == IF config.mWithContention THEN LinkLatency ELSE 0
Interval == IF config.mWithContention THEN ContentionInterval ELSE 0

-----------------------------------------------------------------------------
(* Where things are.  An address is looked up among the registered ranges, *)
(* or falls on the controllers in turn if memory is interleaved; a lookup  *)
(* that finds nothing throws: Nowhere.                                     *)
InRam(a) == RamBaseAddr <= a /\ a < RamLastAddr
Holds(c, a) == c.base <= a /\ a < c.base + c.size
FirstHolding(ctrls, a) ==
    LET hits == {i \in DOMAIN ctrls : Holds(ctrls[i], a)}
    IN IF hits = {} THEN 0 ELSE Min(hits)
Interleaved(ctrls, length, a) == (((a - RamBaseAddr) \div length) % Len(ctrls)) + 1

PlaceOf(ctrls, i) == IF i = 0 THEN Nowhere ELSE Place(ctrls[i])
MemoryIndex(a) == IF config.MemoryInterleaveLength # 0 /\ InRam(a)
                  THEN Interleaved(mAddressIDs, config.MemoryInterleaveLength, a)
                  ELSE FirstHolding(mAddressIDs, a)
get_noc_pos_by_address(a) == PlaceOf(mAddressIDs, MemoryIndex(a))
get_home_pos_by_address(a) ==
    PlaceOf(mHomeIDs, IF config.SLCInterleaveLength = 0 THEN FirstHolding(mHomeIDs, a)
                      ELSE IF InRam(a) THEN Interleaved(mHomeIDs, config.SLCInterleaveLength, a)
                      ELSE 0)
get_noc_pos_by_id(ids, id) ==
    PlaceOf(ids, IF \E i \in DOMAIN ids : ids[i].id = id
                 THEN Min({i \in DOMAIN ids : ids[i].id = id}) ELSE 0)

(* The socket a transaction is sent through; 0 is a failed assertion.  The *)
(* range connected k-th has port k, whichever socket the link was for.     *)
Spans(c, a, len) == c.base <= a /\ a + len - 1 <= c.base + c.size - 1
FirstSpanning(ctrls, a, len) ==
    LET hits == {i \in DOMAIN ctrls : Spans(ctrls[i], a, len)}
    IN IF hits = {} THEN 0 ELSE Min(hits)
(* Mutant: the interleaving of homes starts at address 0. *)
sendTransactionToHomeFromZero(a, len) ==
    IF Len(HomeOutputs) = 1 THEN 1
    ELSE IF config.SLCInterleaveLength = 0 THEN FirstSpanning(HomeOutputs, a, len)
    ELSE IF InRam(a) THEN ((a \div config.SLCInterleaveLength) % Len(mHomeIDs)) + 1
    ELSE 0
sendTransactionToHome(a, len) ==
    IF Len(HomeOutputs) = 1 THEN 1
    ELSE IF config.SLCInterleaveLength = 0 THEN FirstSpanning(HomeOutputs, a, len)
    ELSE IF InRam(a) THEN Interleaved(mHomeIDs, config.SLCInterleaveLength, a)
    ELSE 0
sendTransactionToMMapped(a, len) == FirstSpanning(MMappedOutputs, a, len)
sendTransactionToCache(targets) == {i \in DOMAIN CacheOutputs : CacheOutputs[i] \in targets}

-----------------------------------------------------------------------------
(* Distances and routes: along x, then along y.                            *)
Abs(n) == IF n < 0 THEN -n ELSE n
Distance(p, q) == Abs(p.x - q.x) + Abs(p.y - q.y) + 1

Between(from, to) ==
    IF from <= to THEN [k \in 1 .. to - from |-> from + k - 1]
                  ELSE [k \in 1 .. from - to |-> from - k + 1]
ComputeRoute(src, dst) ==
    LET alongX == Between(src.x, dst.x)
        alongY == Between(src.y, dst.y)
    IN [k \in DOMAIN alongX |-> [x |-> alongX[k], y |-> src.y,
                                 port |-> IF dst.x < src.x THEN "W" ELSE "E"]]
       \o [k \in DOMAIN alongY |-> [x |-> dst.x, y |-> alongY[k],
                                    port |-> IF dst.y < src.y THEN "N" ELSE "S"]]
       \o <<[x |-> dst.x, y |-> dst.y, port |-> "L"]>>

Buffer(net, hop) == IF hop \in DOMAIN net THEN net[hop] ELSE <<>>
Put(net, hop, id, wait) ==
    (hop :> ((id :> wait) @@ Buffer(net, hop))) @@ net

-----------------------------------------------------------------------------
(* The waiting times of the flits of an interval, in the order of their    *)
(* arrival: acc is what the walk along a flit's route has computed so far. *)
QueueWaitingTime(wait, n) ==
    IF n \div VirtualChannels = 0 THEN 0
    ELSE Max({0, wait + RouterLatency + Link - Interval \div (n \div VirtualChannels)})

(* Head of line blocking: the flit in front goes elsewhere, and the buffer *)
(* it goes to is full.  The wait is then that of a flit a buffer's size    *)
(* further ahead, taken from this buffer and looked up in the other with   *)
(* operator[], which inserts a flit that does not pass there.              *)
HeadOfLine(net, packets, flit, k, front) ==
    LET hop == flit.path[k]
        frontPath == packets[front].path
        after == frontPath[(CHOOSE j \in DOMAIN frontPath : frontPath[j] = hop) + 1]
        full == config.mBufferSize * VirtualChannels
        ahead(i) == {j \in DOMAIN net[hop] : i <= j /\ j < front}
        blocking == IF config.mBufferSize = 1 THEN {front}
                    ELSE {i \in DOMAIN net[hop] : Cardinality(ahead(i)) = full - 1 /\ i < front}
        free == [noc |-> net, wait |-> 0, undefined |-> FALSE]
    IN IF hop.port = "L" THEN free
       ELSE IF hop \notin Range(frontPath) THEN [free EXCEPT !.undefined = TRUE]
       ELSE IF flit.path[k + 1] = after THEN free
       ELSE IF Cardinality({i \in DOMAIN net[after] : i < front}) < full THEN free
       ELSE IF blocking = {} THEN [free EXCEPT !.undefined = TRUE]
       ELSE LET i == CHOOSE b \in blocking : TRUE
            IN IF i \in DOMAIN net[after] THEN [free EXCEPT !.wait = net[after][i]]
               ELSE [free EXCEPT !.noc = Put(net, after, i, 0)]

(* The flit in front of a flit in a buffer, and the wait behind it: none   *)
(* if the two met in an earlier router, unless it waited again since.      *)
InFront(net, hop, id) == Max({i \in DOMAIN net[hop] : i < id})
Wait(acc, hop, front) ==
    IF front # acc.prev THEN QueueWaitingTime(acc.noc[hop][front], Cardinality(DOMAIN acc.noc[hop]))
    ELSE IF acc.noc[hop][front] = acc.prevWait THEN 0 ELSE acc.noc[hop][front]
Queued(acc, hop, id, front, wait, blocked) ==
    [noc |-> Put(blocked.noc, hop, id, wait + blocked.wait),
     total |-> acc.total + wait + blocked.wait,
     waits |-> [acc.waits EXCEPT ![Router(hop)] = @ + wait + blocked.wait],
     prev |-> front,
     prevWait |-> IF front = acc.prev THEN acc.prevWait ELSE acc.noc[hop][front],
     undefined |-> acc.undefined \/ blocked.undefined
                   \/ ~config.mWithContention]    \* mVirtualChannels was never set
Visit(packets, flit, acc, k) ==
    LET hop == flit.path[k]
        behind(front, wait) ==
            Queued(acc, hop, flit.id, front, wait,
                   HeadOfLine(Put(acc.noc, hop, flit.id, wait), packets, flit, k, front))
        follow(front) == behind(front, Wait(acc, hop, front))
    IN IF \A i \in DOMAIN acc.noc[hop] : i >= flit.id
       THEN [acc EXCEPT !.noc = Put(@, hop, flit.id, 0)]
       ELSE follow(InFront(acc.noc, hop, flit.id))

PacketLatency(wait, hops) == hops * RouterLatency + (hops + 1) * Link + wait

ComputePacketLatency(m) ==
    LET start(a) == [noc |-> a.noc, waits |-> a.waits, total |-> 0, prev |-> 0, prevWait |-> 0,
                     undefined |-> a.undefined]
        walk(a, flit) == FoldLeft(LAMBDA b, k : Visit(m.packetBuffer, flit, b, k), start(a),
                                  [k \in DOMAIN flit.path |-> k])
        add(a, end, latency) == [a EXCEPT !.noc = end.noc, !.waits = end.waits, !.last = latency,
                                          !.sum = @ + latency, !.undefined = end.undefined]
        close(a, flit, end) == add(a, end, PacketLatency(end.total, Len(flit.path)))
    IN FoldLeft(LAMBDA a, flit : close(a, flit, walk(a, flit)), m, m.packetBuffer)

-----------------------------------------------------------------------------
(* The flits of a transaction enter the mesh, one packet per destination.  *)
Enter(m, src, dst, nbFlits) ==
    LET path == ComputeRoute(src, dst)
        flits == [i \in 1 .. nbFlits |-> [id |-> Len(m.packetBuffer) + i, path |-> path]]
        queue(net, hop) == FoldLeft(LAMBDA n, f : Put(n, hop, f.id, 0), net, flits)
        passes(r) == {k \in DOMAIN path : Router(path[k]) = r}
    IN [m EXCEPT !.noc = FoldLeft(queue, @, path),
                 !.packetBuffer = @ \o flits,
                 !.TotalDistance = @ + nbFlits * Len(path),
                 !.passed = [r \in Routers |-> @[r] + nbFlits * Cardinality(passes(r))],
                 !.undefined = @ \/ \E k \in DOMAIN path : Router(path[k]) \notin Routers,
                 !.sent = @ + nbFlits]

(* A flit whose date is outside the interval starts a new one.             *)
(* Mutant: the routers keep the flits of the interval that ended. *)
StartIntervalFull(m, ts) ==
    LET done == ComputePacketLatency(m)
    IN IF m.packetBuffer = <<>> THEN [m EXCEPT !.interval_start = ts]
       ELSE IF m.interval_start <= ts /\ ts <= m.interval_start + Interval THEN m
       ELSE [done EXCEPT !.packetBuffer = <<>>, !.interval_start = ts,
                         !.PacketsCount = @ + Len(m.packetBuffer)]
StartInterval(m, ts) ==
    LET done == ComputePacketLatency(m)
    IN IF m.packetBuffer = <<>> THEN [m EXCEPT !.interval_start = ts]
       ELSE IF m.interval_start <= ts /\ ts <= m.interval_start + Interval THEN m
       ELSE [done EXCEPT !.noc = <<>>, !.packetBuffer = <<>>, !.interval_start = ts,
                         !.PacketsCount = @ + Len(m.packetBuffer)]
NetworkTimingModel(m, ts, src, dsts, nbFlits) ==
    FoldLeft(LAMBDA a, dst : Enter(a, src, dst, nbFlits), StartInterval(m, ts), dsts)

(* GetDestinations counts the bytes a memory is asked for.                 *)
CountBytes(m, cmd, a, len) ==
    CASE cmd = "READ" -> [m EXCEPT !.mReadCount[MemoryIndex(a)] = @ + len]
      [] cmd = "WRITE" -> [m EXCEPT !.mWriteCount[MemoryIndex(a)] = @ + len]
      [] OTHER -> m

(* Without contention the distance is charged at once, the largest one of  *)
(* several, and to its initiator if that is asked for.                     *)
computeNoCLatency(src, dsts) == Max({0} \union {Distance(src, dst) : dst \in Range(dsts)})
FillInitTotalStats(stats, id, dist) ==
    LET old == IF id \in DOMAIN stats THEN stats[id] ELSE [packets |-> 0, dist |-> 0, lat |-> 0]
    IN (id :> [packets |-> old.packets + 1, dist |-> old.dist + dist,
               lat |-> old.lat + dist * RouterLatency]) @@ stats
computeNoCPerformance(m, id, dist) ==
    [m EXCEPT !.TotalDistance = @ + dist, !.TotalLatency = @ + dist * RouterLatency,
              !.PacketsCount = @ + 1, !.plain = @ + 1,
              !.initTotalStats = IF config.mNoc_stats_per_initiator_on
                                 THEN FillInitTotalStats(@, id, dist) ELSE @]

-----------------------------------------------------------------------------
IcInit ==
    /\ config \in Configurations
    /\ HomeOutputs = <<>> /\ MMappedOutputs = <<>> /\ CacheOutputs = <<>>
    /\ mAddressIDs = <<>> /\ mHomeIDs = <<>> /\ mCpuIDs = <<>> /\ mDeviceIDs = <<>>
    /\ RamBaseAddr = 2 ^ 16 /\ RamLastAddr = 0
    /\ mesh = EmptyMesh /\ route = <<>> /\ pieces = <<>> /\ failed = FALSE

(* connect, in the order of the links.  A cache's identifier goes to the   *)
(* entry of the socket's alias, a range to the next entry of its list.     *)
Connected == /\ Len(CacheOutputs) = Len(CacheSockets)
             /\ Len(HomeOutputs) = Len(HomeSockets) /\ Len(MMappedOutputs) = Len(MemSockets)
set_cache_id ==
    /\ Len(CacheOutputs) < Len(CacheSockets)
    /\ CacheOutputs' = Append(CacheOutputs, CacheSockets[Len(CacheOutputs) + 1])
    /\ UNCHANGED <<config, HomeOutputs, MMappedOutputs, registers, mesh, route, pieces, failed>>
set_home_output ==
    /\ Len(HomeOutputs) < Len(HomeSockets)
    /\ HomeOutputs' = Append(HomeOutputs, HomeSockets[config.homeLinks[Len(HomeOutputs) + 1]])
    /\ UNCHANGED <<config, CacheOutputs, MMappedOutputs, registers, mesh, route, pieces, failed>>
set_mmapped_output ==
    /\ Len(HomeOutputs) = Len(HomeSockets) /\ Len(MMappedOutputs) < Len(MemSockets)
    /\ MMappedOutputs' = Append(MMappedOutputs, MemSockets[config.memLinks[Len(MMappedOutputs) + 1]])
    /\ UNCHANGED <<config, CacheOutputs, HomeOutputs, registers, mesh, route, pieces, failed>>

(* finalize() of the controllers: each registers itself, one class after   *)
(* the other.  A coordinate past the mesh throws, one on its edge does     *)
(* not; without a mesh it is compared with members that were never set.    *)
Accepted(c) == IF config.mIsMesh THEN {c.x <= MeshX /\ c.y <= MeshY} ELSE BOOLEAN
Register(ids, ctrls) ==
    /\ Connected /\ ~failed /\ Len(ids) < Len(ctrls)
    /\ \E ok \in Accepted(ctrls[Len(ids) + 1]) :
           /\ ids' = IF ok THEN Append(ids, ctrls[Len(ids) + 1]) ELSE ids
           /\ failed' = ~ok
    /\ UNCHANGED <<config, outputs, mesh, route, pieces>>
register_home_ctrl ==
    /\ Register(mHomeIDs, config.homeCtrls)
    /\ UNCHANGED <<mAddressIDs, mCpuIDs, mDeviceIDs, RamBaseAddr, RamLastAddr>>
register_cpu_ctrl ==
    /\ mHomeIDs = config.homeCtrls /\ Register(mCpuIDs, config.cpuCtrls)
    /\ UNCHANGED <<mAddressIDs, mHomeIDs, mDeviceIDs, RamBaseAddr, RamLastAddr>>
register_device_ctrl ==
    /\ mCpuIDs = config.cpuCtrls /\ Register(mDeviceIDs, config.deviceCtrls)
    /\ UNCHANGED <<mAddressIDs, mHomeIDs, mCpuIDs, RamBaseAddr, RamLastAddr>>
register_mem_ctrl ==
    LET c == config.memCtrls[Len(mAddressIDs) + 1]
    IN /\ mDeviceIDs = config.deviceCtrls /\ Register(mAddressIDs, config.memCtrls)
       /\ RamBaseAddr' = IF failed' THEN RamBaseAddr ELSE Min({RamBaseAddr, c.base})
       /\ RamLastAddr' = IF failed' THEN RamLastAddr ELSE Max({RamLastAddr, c.base + c.size})
       /\ UNCHANGED <<mHomeIDs, mCpuIDs, mDeviceIDs>>

Ready == /\ mAddressIDs = config.memCtrls /\ ~failed
         /\ mesh.sent < MaxSent /\ mesh.calls < MaxCalls
Outcome(m, found, where, parts) ==
    /\ failed' = (m.undefined \/ ~found)
    /\ IF failed' THEN UNCHANGED <<mesh, route, pieces>>
       ELSE mesh' = [m EXCEPT !.calls = @ + 1] /\ route' = where /\ pieces' = parts
    /\ UNCHANGED <<config, outputs, registers>>

-----------------------------------------------------------------------------
(* A transaction of a cache. *)
ToHomes == {"GetS", "GetM", "PutS", "PutM", "Evict"}
ToCaches == {"FwdGetS", "FwdGetM", "PutI", "InvS", "InvM"}
isDownstream(t) == \/ t.cmd = "READ"
                   \/ t.cmd = "IGNORE" /\ t.cc \in {"GetS", "GetM", "FwdGetS", "FwdGetM"}
isIdMapped(t) == t.cmd = "IGNORE"
                 /\ IF config.IsCoherent THEN t.cc \in ToCaches ELSE t.cc = "Invalidate"
(* The flits of a transaction with data.  A read carries a command that    *)
(* was never set, which may be that of one with data.                      *)
nbFlits(t) == IF t.cmd = "WRITE" \/ t.cc \in {"PutS", "PutM"} THEN {t.len \div FlitSize}
              ELSE IF t.cmd = "READ" THEN {1, t.len \div FlitSize}
              ELSE {1}

GetDestinations(t) ==
    LET ids == IF config.IsCoherent THEN t.targets ELSE Range(CacheOutputs)
    IN IF isIdMapped(t) THEN [i \in 1 .. Cardinality(ids) |->
                                  get_noc_pos_by_id(mCpuIDs, SetToSeq(ids)[i])]
       ELSE IF t.toHome THEN <<get_home_pos_by_address(t.addr)>>
       ELSE <<get_noc_pos_by_address(t.addr)>>

(* What the way of a transaction costs; an unknown place throws.           *)
Cost(m, places, latency) == [mesh |-> m, places |-> places, latency |-> latency]
Charge(t, ts, n, src, dsts) ==
    LET counted == IF isIdMapped(t) \/ t.toHome THEN mesh ELSE CountBytes(mesh, t.cmd, t.addr, t.len)
        queued(m) == Cost(m, Range(dsts), m.last)
        direct(dist) == Cost(computeNoCPerformance(mesh, t.src, dist), Range(dsts), dist * RouterLatency)
    IN IF ~config.mIsMesh THEN Cost(mesh, {}, NocLatency)
       ELSE IF Nowhere \in {src} \union Range(dsts) THEN Cost([mesh EXCEPT !.undefined = TRUE], {}, 0)
       ELSE IF config.mWithContention THEN queued(NetworkTimingModel(counted, ts, src, dsts, n))
       ELSE direct(computeNoCLatency(src, dsts))

(* The kind of socket and which ones; an assertion demands targets.        *)
Send(t) ==
    LET one(i) == IF i = 0 THEN {} ELSE {i}
    IN IF t.cmd # "IGNORE" /\ (config.IsCoherent \/ ~t.toHome)
       THEN [to |-> "mmapped", sockets |-> one(sendTransactionToMMapped(t.addr, t.len))]
       ELSE IF t.cmd # "IGNORE" \/ t.cc \in ToHomes
       THEN [to |-> "home", sockets |-> one(sendTransactionToHome(t.addr, t.len))]
       ELSE [to |-> "caches", sockets |-> sendTransactionToCache(t.targets)]

(* What Cache.hpp sends: reads and writes of a coherent system come from   *)
(* homes, and an eviction of a system that is not from the others.         *)
Sendable(t) ==
    IF config.IsCoherent
    THEN IF t.cmd = "IGNORE" THEN t.cc \in ToCaches \union ToHomes \union {"ReadBack"} ELSE ~t.toHome
    ELSE t.cmd = "IGNORE" => t.cc \in {"Invalidate", "ReadBack"} \/ (t.cc = "Evict" /\ t.toHome)

(* A transaction is charged, then sent.                                    *)
Sent(t, cost, send) ==
    Outcome(IF send.to = "mmapped" /\ send.sockets # {}
            THEN [cost.mesh EXCEPT !.delivered["cache"][t.cmd][Max(send.sockets)] = @ + t.len]
            ELSE cost.mesh,
            IF send.to = "caches" THEN t.targets # {} ELSE send.sockets # {},
            [cc |-> t.cc, to |-> send.to, sockets |-> send.sockets, charged |-> cost.places,
             delay |-> IF isDownstream(t) THEN cost.latency ELSE 0],
            pieces)
b_transport(t, ts) ==
    /\ Ready /\ Sendable(t)
    /\ \E n \in nbFlits(t) :
           Sent(t, Charge(t, ts, n, get_noc_pos_by_id(mCpuIDs, t.src), GetDestinations(t)), Send(t))

(* A device's access is cut into words (a read) or flits (a write), each   *)
(* of which is a transaction with memory; a read's flits leave memory once *)
(* the accesses of the words before are done.  Without a mesh it goes to   *)
(* memory as it is.                                                        *)
Pieces(len, unit) == (len \div unit) + (IF len % unit # 0 THEN 1 ELSE 0)

b_transport_device(d, ts) ==
    LET unit == IF ~config.mIsMesh THEN d.len
                ELSE IF d.cmd = "READ" THEN MWordLengthInByte ELSE FlitSize
        addrs == IF ~config.mIsMesh THEN <<d.addr>>
                 ELSE [i \in 1 .. Pieces(d.len, unit) |-> d.addr + (i - 1) * unit]
        device == get_noc_pos_by_id(mDeviceIDs, d.dev)
        place(i) == get_noc_pos_by_address(addrs[i])
        socket(i) == sendTransactionToMMapped(addrs[i], unit)
        arrive(a, m, delay) == [mesh |-> m, delay |-> Max({a.delay, delay + m.last})]
        leave(a, i) == arrive(a, NetworkTimingModel(a.mesh, ts + i * AccessTime, place(i), <<device>>, 1),
                                 i * AccessTime)
        read(a, i) == FoldLeft(LAMBDA b, f : leave(b, i), a,
                               [f \in 1 .. Pieces(MWordLengthInByte, FlitSize) |-> f])
        write(a, i) == arrive(a, NetworkTimingModel(CountBytes(a.mesh, "WRITE", addrs[i], FlitSize), ts,
                                                    device, <<place(i)>>, 1), AccessTime)
        deliver(a, i) == [a EXCEPT !.mesh.delivered["device"][d.cmd][socket(i)] = @ + unit]
        piece(a, i) == IF ~config.mIsMesh THEN deliver([a EXCEPT !.delay = AccessTime + NocLatency], i)
                       ELSE deliver(IF d.cmd = "READ" THEN read(a, i) ELSE write(a, i), i)
        known == /\ device # Nowhere
                 /\ \A i \in DOMAIN addrs : /\ socket(i) # 0
                                            /\ config.mIsMesh => place(i) # Nowhere
        done(a) == Outcome(a.mesh, known, route,
                           [asked |-> d, given |-> addrs, unit |-> unit, delay |-> a.delay,
                            sockets |-> [i \in DOMAIN addrs |-> socket(i)],
                            charged |-> IF config.mIsMesh THEN [i \in DOMAIN addrs |-> place(i)] ELSE <<>>])
        start == [mesh |-> mesh, delay |-> 0]
    IN /\ Ready
       /\ done(IF known THEN FoldLeft(piece, start, [i \in DOMAIN addrs |-> i]) ELSE start)

(* getTotalLatencyWithContention computes and counts the flits of the      *)
(* current interval, which stay in the mesh.                               *)
Counted(m) ==
    LET hops == FoldLeft(LAMBDA n, f : n + Len(f.path), 0, m.packetBuffer)
    IN /\ failed' = m.undefined
       /\ mesh' = IF m.undefined THEN mesh
                  ELSE [m EXCEPT !.PacketsCount = @ + Len(m.packetBuffer),
                                 !.again = [reads |-> @.reads + 1, hops |-> @.hops + hops,
                                            flits |-> @.flits + Len(m.packetBuffer)]]
readStatistics ==
    /\ mAddressIDs = config.memCtrls /\ ~failed
    /\ config.mIsMesh /\ config.mWithContention /\ mesh.again.reads < MaxStatsReads
    /\ Counted(ComputePacketLatency(mesh))
    /\ UNCHANGED <<config, outputs, registers, route, pieces>>

IcNext ==
    \/ set_cache_id \/ set_home_output \/ set_mmapped_output
    \/ register_home_ctrl \/ register_cpu_ctrl \/ register_device_ctrl \/ register_mem_ctrl
    \/ \E t \in config.transactions, ts \in Stamps : b_transport(t, ts)
    \/ \E d \in config.accesses, ts \in Stamps : b_transport_device(d, ts)
    \/ readStatistics

IcSpec == IcInit /\ [][IcNext]_icVars

-----------------------------------------------------------------------------
(* Type correctness. *)
IcTypeOK ==
    /\ \A i \in DOMAIN mAddressIDs : mAddressIDs[i] = config.memCtrls[i]
    /\ \A i \in DOMAIN mHomeIDs : mHomeIDs[i] = config.homeCtrls[i]
    /\ mesh.last \in Nat /\ mesh.sum \in Nat /\ mesh.PacketsCount \in Nat /\ ~mesh.undefined
    /\ \A f \in Range(mesh.packetBuffer) : f.path # <<>>

(* ComputePacketLatency looks a flit up in the buffers along its route and *)
(* the flit before it in packetBuffer by its number, without testing that  *)
(* it is there (the WARNING of the code): every router holds the flits of  *)
(* the interval that pass it, and a flit's number is its index.            *)
FlitsInRouters ==
    /\ \A i \in DOMAIN mesh.packetBuffer : mesh.packetBuffer[i].id = i
    /\ \A i \in DOMAIN mesh.packetBuffer : \A hop \in Range(mesh.packetBuffer[i].path) :
           i \in DOMAIN Buffer(mesh.noc, hop)
(* A router holds no other flits.  Not so with buffers of several flits:   *)
(* the lookup of a head of line inserts some, which stay if the flits are  *)
(* computed to read the statistics (CoherenceInterconnect.cpp:652).        *)
NoStrayFlits ==
    \A hop \in DOMAIN mesh.noc : \A i \in DOMAIN mesh.noc[hop] :
        i \in DOMAIN mesh.packetBuffer /\ hop \in Range(mesh.packetBuffer[i].path)

Step(port) == CASE port = "E" -> <<1, 0>> [] port = "W" -> <<-1, 0>>
                [] port = "S" -> <<0, 1>> [] port = "N" -> <<0, -1>>

(* A route is a chain of neighbouring routers inside the mesh or on its    *)
(* edge, each left by the port that faces the next one, that ends at a     *)
(* local port.                                                             *)
RoutesConnected ==
    \A f \in Range(mesh.packetBuffer) :
        /\ \A k \in DOMAIN f.path : f.path[k].x \in 0 .. MeshX /\ f.path[k].y \in 0 .. MeshY
        /\ Last(f.path).port = "L"
        /\ \A k \in 1 .. Len(f.path) - 1 :
              /\ f.path[k].port # "L"
              /\ <<f.path[k + 1].x, f.path[k + 1].y>>
                   = <<f.path[k].x + Step(f.path[k].port)[1], f.path[k].y + Step(f.path[k].port)[2]>>

Total(f) == FoldSet(LAMBDA i, n : n + f[i], 0, DOMAIN f)

(* The hops the interconnect reports are those its routers report and      *)
(* those charged without contention, a router latency each; and these are  *)
(* the hops of the initiators, if they are reported.                       *)
DistanceConserved ==
    LET stats == mesh.initTotalStats
        plainHops == mesh.TotalDistance - Total(mesh.passed)
    IN /\ mesh.TotalLatency = RouterLatency * plainHops
       /\ (config.mNoc_stats_per_initiator_on /\ ~config.mWithContention) =>
             /\ Total([id \in DOMAIN stats |-> stats[id].packets]) = mesh.plain
             /\ Total([id \in DOMAIN stats |-> stats[id].dist]) = plainHops
             /\ Total([id \in DOMAIN stats |-> stats[id].lat]) = mesh.TotalLatency

(* The latency charged to the flits of the ended intervals is that of      *)
(* their hops and links plus what the routers report as waiting, and each  *)
(* flit is counted once, and once more by each reading of the statistics   *)
(* during its interval.                                                    *)
LatencyAccounted ==
    LET inFlight == FoldLeft(LAMBDA n, f : n + Len(f.path), 0, mesh.packetBuffer)
        hops == Total(mesh.passed) - inFlight + mesh.again.hops
        flits == mesh.PacketsCount - mesh.plain
    IN /\ flits + Len(mesh.packetBuffer) = mesh.sent + mesh.again.flits
       /\ mesh.sum = hops * RouterLatency + (hops + flits) * Link + Total(mesh.waits)

(* The mesh loses and doubles nothing: the flits, the hops and the         *)
(* latencies of routers and interconnect agree over intervals, readings of *)
(* the statistics and sizes of the buffers, from the first transaction on  *)
(* (CoherenceInterconnect.cpp:505, 766).                                   *)
MeshAccounted ==
    /\ IcTypeOK
    /\ mesh.calls > 0 =>
           /\ FlitsInRouters /\ RoutesConnected /\ DistanceConserved /\ LatencyAccounted
           /\ (config.mBufferSize = 1 \/ mesh.again.reads = 0) => NoStrayFlits

(* Where the components behind the sockets of a transaction are.           *)
PlacesOf(to, sockets) ==
    CASE to = "home" -> {Place(HomeSockets[i]) : i \in sockets}
      [] to = "mmapped" -> {Place(MemSockets[i]) : i \in sockets}
      [] OTHER -> {get_noc_pos_by_id(mCpuIDs, CacheSockets[i]) : i \in sockets}

(* The orders that must agree: that of the links and that of the sockets,  *)
(* unless homes are interleaved; then that of the controllers.             *)
HomesInOrder == IF config.SLCInterleaveLength = 0 THEN HomeOutputs = HomeSockets ELSE mHomeIDs = HomeSockets
MemoriesInOrder == config.MemoryInterleaveLength = 0 /\ MMappedOutputs = MemSockets

(* A transaction reaches the components whose distance it was charged for, *)
(* for each of these and no other reason not: homes or memories were       *)
(* linked or registered in another order than their sockets, memory is     *)
(* interleaved, a ReadBack is charged by its address and sent to caches,   *)
(* an Invalidate is charged for all caches and sent to some.               *)
PlacesAgree ==
    (route # <<>> /\ config.mIsMesh) =>
        LET reached == PlacesOf(route.to, route.sockets)
        IN CASE route.to = "home" -> HomesInOrder => reached = route.charged
             [] route.to = "mmapped" -> MemoriesInOrder => reached = route.charged
             [] route.cc = "ReadBack" -> TRUE
             [] OTHER -> IF config.IsCoherent THEN reached = route.charged ELSE reached \subseteq route.charged

(* The pieces of a device's access cover it, overstep it by less than one  *)
(* piece, and each reaches the memory it was charged for.                  *)
DevicePiecesCover ==
    pieces # <<>> =>
        LET asked == pieces.asked.addr .. pieces.asked.addr + pieces.asked.len - 1
            given == UNION {a .. a + pieces.unit - 1 : a \in Range(pieces.given)}
        IN /\ asked \subseteq given /\ Cardinality(given \ asked) <= Max({0, pieces.unit - 1})
           /\ MemoriesInOrder => \A i \in DOMAIN pieces.charged :
                                     pieces.charged[i] = Place(MemSockets[pieces.sockets[i]])

(* The counters of the memories hold the bytes each was asked for: all     *)
(* that caches ask with contention, and what devices write.                *)
BytesCounted ==
    LET caches(cmd) == IF config.mWithContention THEN mesh.delivered["cache"][cmd] ELSE NoBytes
        device == IF config.mIsMesh THEN mesh.delivered["device"]["WRITE"] ELSE NoBytes
        writes == [s \in DOMAIN MemSockets |-> caches("WRITE")[s] + device[s]]
        at(s) == CHOOSE i \in DOMAIN mAddressIDs : mAddressIDs[i] = MemSockets[s]
    IN config.mIsMesh /\ mAddressIDs = config.memCtrls =>
           /\ Total(mesh.mReadCount) = Total(caches("READ"))
           /\ Total(mesh.mWriteCount) = Total(writes)
           /\ MemoriesInOrder => \A s \in DOMAIN MemSockets :
                 mesh.mReadCount[at(s)] = caches("READ")[s] /\ mesh.mWriteCount[at(s)] = writes[s]

(* What is charged for is what is done: the places, the pieces of a        *)
(* device's access, the bytes (CoherenceInterconnect.cpp:179, 938).        *)
SentWhereCharged == PlacesAgree /\ DevicePiecesCover /\ BytesCounted

(* What a reader would expect of the interconnect: every transaction       *)
(* reaches what it was charged for.  It does not, for the reasons that     *)
(* PlacesAgree lists.                                                      *)
AlwaysSentWhereCharged ==
    (route # <<>> /\ config.mIsMesh) => PlacesOf(route.to, route.sockets) = route.charged
=============================================================================
