# A verification project for VPSim

VPSim is a SystemC/TLM simulator of multi-core platforms. This directory holds
TLA+ models of its core logic, TLC runs that check them on small instances, and
proofs, checked by TLAPS, that lift what the runs show to every instance: of the
coherent caches and their replacement, the co-simulation and its lock-free queue,
the remote pair, the processors' clocks, the bus path, the interrupt controller, the
UARTs, the two schedulers and the monitor.

`PROJECT.json` lists the components, the runs, the mutants that show each
property can fail, the map from definitions to source lines, the findings, the
hazards and the theorems. This file explains them. Paths are relative to the
repository.

## 1. The system and its parts

| Part | State it keeps | Operations | Talks to |
|---|---|---|---|
| Coherent caches (`CacheBase.hpp`, `Cache.hpp`) | per level: lines with a state, a directory that is never trimmed | `accessCpuCache`, `accessL2Cache`, `accessCoherentHome`, for a set of commands each | blocking calls up and down, through `CoherenceInterconnect` |
| Caches without coherence (`CacheBase.hpp`) | lines, sharers of an exclusive or inclusive cache | `accessNonCoherentCache`: Read, Write, Evict, Invalidate, ReadBack | the same sockets, calls nested in both directions |
| Cache sets (`CacheSet.hpp`) | ways, a rank per way, the next victim | `accessSet` | called by every cache access |
| Co-simulation (`MainMemCosim.hpp`) | a priority queue of requests, epoch counters, a ring of delays, mutexes | callbacks of the ISS, `FillBiases`, `Stop`, the thread `Run` | ISS (SystemC thread) on one side, caches on the other |
| Device accesses (`IOAccessCosim.hpp`, `readerwriterqueue.h`) | a lock-free queue of accomplished accesses | enqueue (thread of `Run`), dequeue (ISS) | MainMemCosim |
| Coherent mesh (`CoherenceInterconnect.cpp`) | controllers, routers with flits of an interval, statistics | registration, `b_transport`, device accesses, statistics | caches, homes, memories, devices |
| Bus path (`InitiatorIf`, `ForwardSimpleSocket`, `interconnect`, `TargetIf`, `memory`) | direct memory regions, counters, memory | accesses, change of the blocking addresses | initiators and targets |
| ISS wrappers and quantum keeper (`compute/`, `quantum.cpp`) | local time, pending interrupts, timers per processor | the plugin calls of the simulator, waits, timeouts | SystemC kernel |
| Parameters (`core/vpsimModule`) | containers of (address space, value), a graph of modules with imported and exported sets, appointments | set, merge, trim, translate; refresh of the graph; the thread `schedule` | all modules, flags kept by the ISS wrappers |
| Logger (`core/logger`) | registered loggers, appointments of debug levels | construct, destroy, enable, `addAppointment`, the thread `schedule` | everything that logs |
| Elaboration (`PlatformBuilder`, `VpsimIp`, `DynamicComponents`, `ModelProvider`) | registries of instances, ports, address announcements, calls to provider libraries | reading, connecting, `NotifyDmiAddresses`, `Finalize` | everything, once, for several subsystems in turn |
| Monitor (`SesamController.cpp`, `DynamicSesamController`) | string buffers, benchmark flags, segments of statistics, logs | two registers, the commands, delayed captures | a program on the simulated CPU, MainMemCosim, statistics |
| Interrupt controller (`gic.cpp`) | registers, pending bits, a queue per CPU; a virtual half with list registers | register reads and writes, `update_irq`, `comb_logic` | devices, CPUs, under one mutex |
| UARTs (`PL011Uart.cpp`, `xuartps.cpp`, `CommonUartInterface.cpp`) | registers, flags, waiting bytes, a timeout | register accesses, the polling thread | interrupt controller, console |
| Remote pair (`RemoteTransaction.hpp`) | a request, an answer, two socket streams | `remoteRead`, `remoteWrite`, `poll`, `interrupt` | another simulator process |

What is hard in it:

* **protocols**: one CPU access is a chain of evictions, forwards and
  invalidations over three levels; each level decides from a directory that
  only messages keep up to date. About thirty `assert`s say what may happen.
  Without coherence, calls nest up and down over sets that are in the middle of
  an access;
* **interleaving**: the ISS side and `Run` meet in two counters they read and
  write without a lock, a ring of mutexes, a priority queue and a lock-free
  queue; devices and CPUs meet in the GIC; SystemC threads keep copies over
  their waits while others insert;
* **ordering**: requests are pushed out of order, captures are reported late,
  elaboration depends on the order of links and names;
* **limits**: time stamps are unsigned and wrap, queues are bounded, ranges
  are split at their ends, victims are elected while ranks change;
* **failure**: the other process of a remote pair dies, or stops reading;
* **liveness**: threads and processes wait for one another, a refresh runs
  through a graph with loops, a line must be raised and come down again.

The hazards are listed line by line, with the properties aimed at each, in
`PROJECT.json`.

## 2. Plan

Done: the caches, `MainMemCosim` and its queue, replacement, the caches without
coherence, parameters, schedulers, bus, mesh, ISS wrappers, elaboration, monitor,
GIC, UARTs and the remote pair, all model-checked; proofs about twelve of these
parts (section 5).

Left, the most important first:

1. the virtual half of the GIC with its list registers;
2. a composition of the GIC with a UART whose handler reads the data.

Abstract specifications worth stating next: a coherent memory (one value per
address, a read returns the last write) that `CoherentCaches` with values
implements, and an agenda that the two schedulers implement (their invariants in
`SchedulerProofs` already have its shape).

## 3. Modules and code

MC modules put several questions into one run: a variable `focus`, chosen in
`Init` and never changed, says which component moves; the others stay in one
initial state. The states of a run are therefore the sum, not the product, of
those of its components.

### CoherentCaches (proofs: CoherentCachesProofs; instances: MCCoherentCaches)

Models `accessCpuCache`, `accessL2Cache` and `accessCoherentHome`, with the
commands GetS, GetM, PutS, PutM, PutI, FwdGetS and FwdGetM. All calls are
blocking and come from one thread (`MainMemCosim::Run`), so a CPU's `Read` or
`Write`, with everything it causes, is one step. `line[a]` gathers what all
levels know of address `a`:

* `core[c].l1`, `core[c].l2`: the state of the line in the L1 and L2 of CPU `c`;
* `core[c].d2`: the entry of that L2's directory; `NoEntry` is
  `Directory.find(addr) == Directory.end()`. An L2 serves one L1, so owner and
  sharers follow from the state;
* `home`, `dir`: the home's line and directory entry;
* `dirty`, `failed`: history. `dirty` says that memory lacks a value that was
  written; `failed` names the asserts that did not hold. With `Debug` a failed
  assert stops the program, without it execution goes on as a release build's.

Operators on one line (`CoreFwdGetS`, `HomeGetM`, ...) are the branches of the
code's `switch` statements; operators on the whole state (`L2Evict`, `L1Room`,
...) return the set of states a step may lead to, one per choice of victims. Any
valid way may be the victim, or a free one taken, so every replacement policy
is covered. `ExclusiveHome` selects `InclusionOfHigher==Exclusive` at the home.

Left out: data, latencies, hit and traffic counters, `NotifyEviction`, accesses
that straddle lines (two accesses in the code too), interleaving over several
homes (addresses of different homes never meet).

### CacheSet, SetReplacement, NonCoherentCache (proofs: CacheSetProofs; instances: MCCacheSet)

`SetReplacement` holds the pass over the ways as operators on ranks; `CacheSet`
is `accessSet` with `locateLineInSet` and `updateReplacementData` under LRU and
MRU, for callers that leave the line valid (`Access`) or not (`Remove`). `recent`
is history: the true order of use, to which each access moves its way to the
front.

`NonCoherentCache` is `accessNonCoherentCache` for a level-1 cache per CPU over a
shared one, for the three inclusion policies, write back with allocation. The
code's one template is given level by level: the requests the shared cache serves
(`SharedRead`, `SharedWrite`, `SharedEvict`), then what a cache of level 1 does
with them (`ReadLine`, `WriteLine`). An access with all its nested calls is one
step. `current` is one bit per copy, whether it holds what was written last; a
read that an exclusive cache passes to a cache above brings no data, since the
copy is commented out in the code (`CacheBase.hpp:297`). Programs do not share
lines they write, since nothing keeps such lines coherent in this mode.

A back-invalidation of a Modified copy would write it to the shared cache, which
may back-invalidate again, without a bound on the depth. What it leads to is the
parameter `InvalidateModified`. It is never reached, as the directory never names a
cache whose copy is Modified: the run's `MCInvalidateModified` fails an assert of
`ExclusionExact`, and the proofs hold for any `InvalidateModified`.

### MainMemCosim (proofs: CosimProofs; instances: MCMainMemCosim, MCCosimThreads, MCCosimProgress)

Two threads with program counters `isspc` and `runpc`; a step ends where the
code takes or releases a mutex, or reads or writes what the other thread uses.
`PQ` is a set of requests, popped by `compare_Req` (ties in any order).
`mTimes[s]` is the set of requests whose delays slot `s` adds up: what matters
is whose delays a quantum is charged, not their sum. `Notify`,
`NotifyFetchMiss`, `NotifyIO`, `GetDelay`, `StartBenchmark`, `EndBenchmark`,
`FillBiases` and `Stop` are calls on the SystemC thread. Time stamps are taken
modulo `TIMES`, the width of `uint64_t` scaled down. One simulator is registered,
as in every platform of the repository. The counters are aligned words read
again after each `usleep`; every read and write of them is taken as atomic.

### ReaderWriterQueue, FifoQueue (proofs: QueueProofs; instances: MCCosimThreads)

`ReaderWriterQueue` is the lock-free queue of `readerwriterqueue.h`, one step per
access to what the other thread may write: the blocks, their indices, the
private copies of indices, and growth by allocation. The fences of the code order
the stores of a thread, so interleaving the accesses is enough. `FifoQueue` is
what it promises; `FifoSpec` is the refinement, with the queue mapped to the
elements between the front and the tail over all blocks. An element counts as
enqueued when a tail index or the tail block moves, as dequeued when a front
index moves. Elements are numbered in the order of their enqueues; `MaxAllocs` is
when `malloc` starts to fail. The sizes are `size_t` in the code; `PowersOfTwo`
keeps the blocks to 2^30 slots, far below where their arithmetic would wrap.

### RemoteLink (proofs: CosimProofs; instances: MCCosimProgress)

`RemoteTarget` and `RemoteInitiator`, two processes joined by a stream of
requests and answers and one of interrupts. A step is one `read` or `write`.
Data beyond `PREALLOC_SIZE` travels as a second message, the tail. The remote
process may die at any moment: `read()` then fails or returns 0, and the code
takes 0 for a message, so what it holds is the answer before. Left out: a
`read` that returns part of a message.

### Gic, Uart (proofs: InterruptProofs; instances: MCGic, MCInterrupts)

`Gic` is the physical half of `gic.cpp`. Every call holds `mGicLock` and ends with
`comb_logic`, so every call is one step; the registers are one record on which
the handlers are functions. `TakeInterrupt`, `ReadIAR` and `EndOfInterrupt` are
the guest's interrupt handler, which is external. The initial state is the one
software has configured; registers may be rewritten `MaxWrites` times. `owed` is
history: how often an interrupt was raised for a CPU minus how often that CPU
acknowledged it. Left out: the virtual interfaces and the maintenance interrupt,
the priorities' registers (constant), and `mRoundRobin`.

`Uart` is the PL011 and the xuartps: the registers that enable, disable, clear and
report interrupts, and `interruptLoop` of `CommonUartInterface`, which polls.

### AddrSpace, ModuleParameters, ParameterSet, VpsimModule, ParamScheduler (proofs: SchedulerProofs; instances: MCParameters)

`ParameterSet` is the containers of parameters, translated entry by entry, beside a
reference that gives each address its value by itself. The search for the value of a
space that is cut in parts starts one entry further for each part
(`parameterSet.cpp:80`) and may start past the end of the vector: the answer is then
any value or a crash (`Crash`), and `ReadsPastEndOnlyIf` bounds when that can be; `VpsimModule` is the graph
in which modules import, add and export such sets (there as functions on
addresses, which the first model justifies), with the recursion of
`refreshParameters` as an agenda. The modifier a module may apply to what it exports
(`vpsimModule.cpp:91`, `:95`, `:152`) is left out, that is, the identity: only the
tests attach one; `ParamScheduler` is the multiset of
appointments and its thread.

### ScThread, LoggerCore, IssWrapper, TlmBus, CoherenceInterconnect (proofs: SchedulerProofs, InitiatorProofs; instances: MCInterconnect)

`ScThread` is how a SystemC thread waits for a time or an event (external);
`ParamScheduler` and `LoggerCore` use it. `LoggerCore` is the registry of loggers and
the scheduler of debug levels, which keeps a copy of its next appointment over
a wait; `times`, `done` and `crowded` are history: how often each appointment and each
date was applied, and the dates for which an appointment was made when they had
come. `IssWrapper` is the calls the simulator of a processor makes, the quantum
keeper and the waits; one SystemC thread runs at a time. `TlmBus` is an access
from the initiator through the forwarding socket, with its direct memory
regions, and the bus to a memory, one step since nothing waits.

In `IssWrapper` a timeout asked for a date that has passed is an unsigned difference
that wraps (`issWrapper.hpp:148`); as a delay it is beyond what `sc_time` holds, and
the timer comes at once or never. A processor may wait for an event straight after an
atomic section that took it past its next synchronisation (`overdue`): the wait is
then computed from a negative rest, and its clock may go back (`issWrapper.hpp:109`).
Whether the external simulator does either is open, so both are allowed.

`CoherenceInterconnect` is where the interconnect sends a transaction and what it
charges. The lists that decide the first are filled by `connect` in the order of the
links (`HomeOutputs`, `MMappedOutputs`, `CacheOutputs`), those that decide the second
by the controllers' `finalize` (`mHomeIDs`, `mAddressIDs`, `mCpuIDs`, `mDeviceIDs`); a
description chooses both orders, so they are part of a configuration, with the
attributes (coherent or not, mesh or not, contention, buffer size, interleaving,
statistics per initiator) and the transactions sent. `Configurations` is a constant
and `config` a variable that never changes, so one run starts from all of them.
`Sendable` is what `Cache.hpp` sends. A transaction is charged and then sent in one
step. With contention the flits of an interval stay in the buffers of the routers
they pass until one arrives outside it; `HeadOfLine` inserts the flits that the
lookup of `CoherenceInterconnect.cpp:655` does. A lookup that throws, a failed assert
and undefined behaviour (an index past the routers' counters, which the coordinates
`x = mX` and `y = mY` that registration accepts may give; an iterator moved before the
first flit; virtual channels used and never set) end the run in `failed`. A read
carries a coherence command nobody initialised, so it may count as one with data
(`nbFlits`). Without a mesh, coordinates are compared with members that were never
set, and registration may throw or not. Times are whole numbers.

Left out: direct memory requests and the other stubs, printing, the per-port counters
nothing adds to.

### DynamicComponents, Platform, Monitor (proofs: MonitorProofs; instances: MCPlatform)

`DynamicComponents` describes each class a platform may instantiate: sockets,
address, what `finalize()` looks up. `Platform` elaborates a description: instances
and links in any order, connections, announcement of addresses, finalisation
and the calls to provider libraries, over several subsystems. The host program may
declare external memory at any time between subsystems and again after them
(`declare_dmi_ptr`, `MaxDeclared` times, under the same name or another); readers are
told each time it is called. A GIC whose filter is a class that has no `cpu_id`
(`ModelProviderCpu`) throws (`NoCpuId`). `Monitor` is the two
registers, the commands, the segments of statistics and the captures that the
co-simulation's thread makes late.

## 4. Runs

Most runs check a few properties, each the conjunction of named parts that
stand together in the module, with a comment of their own.

| Run | Bounds | Shows |
|---|---|---|
| ExclusiveHome | 3 CPUs, 3 addresses, one way in the home, L1/L2 of 1/2, 2/1 and 1/1 ways | `TypeOK`, `SingleWriter`, `HomeDirectoryExact`, `L2DirectoryExact`, `AssertsHold`, `LossJustified` |
| SharedHome | 2 CPUs, 3 addresses, the same shapes, no asserts in the build | `OtherAssertsHold`, `DirtyDataHeld` |
| CosimOrder | epochs: 2 slots, 4 epochs, 3 requests; queue: blocks of 2 slots, capacity 3 or 4, one allocation, 7 elements | `ThreadsInStep` (slots, epochs and captures are never those the other thread works on), `PlayedInOrder`, `CaptureCovers`; `QueueAnswersTrue`, and the refinement `FifoSpec` |
| CosimProgress | epochs: 2 slots, 3 epochs, 2 requests; link: 2 addresses, one mapped, 2 values, 2 accesses, 2 interrupt changes, room for one in the stream | `ThreadsGoOn` (FillBiases and Stop return, complete epochs are played); `LinkInStep`, `LinkGoesOn` |
| Replacement | set: 4 ways, 5 tags; hierarchy: two CPUs with one and two ways over a shared cache of two, two lines and one line of their own and a common one, three policies | `ReplacementFollowsUse`; `NewestKept`, `ExclusionExact`, `CleanIncluded` |
| Interrupts | GIC: 2 CPUs, one SGI, PPI and SPI, 2 raised, 1 register write; UART: two kinds, 2 bytes, timeout of 2 polls | `QueuesInOrder`, `NoPhantomInterrupt`, `QueueServed`; `UartFlagsAgree`, `UartLineFollows` |
| Parameters | containers: 3 addresses, 2 values, 3 sets, 1 combination; graph: the loop of `vpsimModule_test.cpp`, 2 settings; schedule: 3 appointments, 2 modules, dates to 2 | `ContainerExact`, `GraphSettled`, `RefreshEnds`, `ParamsOnDate`, `AppliedInTheEnd` |
| Interconnect | twelve systems on a mesh of 2 x 2 (two homes, two memories, two caches, a device; section 3), 5 transactions and 5 flits, one reading of the statistics, buffers of one flit or two; bus: 2 memories, 3 accesses; 2 processors (one held by `wait_for_interrupt`, which never boots; two running ones are too many states, and meet only in `current`), quantum 3, one timer; 2 loggers, 2 appointments | `MeshAccounted`, `SentWhereCharged`; `BusSeesOneMemory`; `TimeKept`, `ClockNotBack`; `AppointmentsKept` |
| Platform | 16 descriptions of one or two subsystems, 2 external declarations; monitor: 4 instances, 2 applications, 4 commands, counts to 2 | `PlatformWired`, `ToldOnce`; `ReportsOfBenchmark`, `NextBenchmarkAccepted` |
| SharedHomeModifiedOnce, InterruptDisable, Inclusion | as above, smaller | three disagreements, section 6 |

Why the bounds are enough. *Caches*: two CPUs give a reader and a writer, the
third a sharer that is neither; more addresses than ways at every level make
every eviction happen, and the shapes make an L1 both smaller and larger than
the L2 below it. Addresses are interchangeable (symmetry); CPUs are not, since
their caches differ. The proofs remove these bounds. *Hierarchy*: each CPU has
more lines than ways somewhere, and they compete in the shared cache.
*Co-simulation*: `EPOCHS` is the code's 2; with four epochs each slot is used
twice and collected while the other is filled; three requests are enough for one
popped, one put back and one pushed meanwhile, or for a benchmark around an
access. *Queue*: blocks of two slots hold one element each, so seven elements go
around the circle of blocks more than once, and one allocation makes the circle
grow under the consumer; the proofs remove these bounds too. *Link*: two accesses let a message of the first be
taken for the second; two interrupt changes with room for one make the remote
side wait in `write()`. *Sets*: with four ways there are ways on both sides of an
accessed one. *GIC*: two raised interrupts give a front and one behind it, or the
same one from two senders. *Graph*: the loop with a memory behind each bus is the
smallest graph in which two modules can confirm a value to each other.
*Schedules*: three appointments give one applied, one inserted before and one
after it. *Mesh*: 2 x 2 has routes along each axis, both, and none, and coordinates on its
edge that alias another router or have none; the date of a transaction falls in or
outside the interval; five flits fill a buffer of two, block a head of line and insert
a stray flit; two homes and two memories are the least that can be linked, registered
and interleaved in different orders. The interval, 840, is divided by every length a
queue reaches, so that waits are whole. *Platform*: every class occurs in
some description, every reference is found, missing or of a wrong class in one.
*Monitor*: four commands are a benchmark, its end, and another one with its end.

Deadlock is checked where the system runs for ever; Parameters, Interconnect and
Platform stop when their bounds are spent or the program has ended.

Fairness. Each assumption is weak fairness of something the code runs in a loop:

* `MainMemCosim`: each thread's own steps (`IssStep`: the rest of `FillBiases` and
  `Stop` once called; `RunStep`). The operating system schedules both threads,
  both poll with `usleep`, and a mutex is never contended for ever, since its
  holder does a bounded amount of work. The ISS is not assumed to call anything.
  The queue of accomplished device accesses must not be full when the ISS side
  waits; its capacity is 4096*4096 and the runs keep `QSize` at `MaxReqs`;
* `RemoteLink`: the steps of each process (`localStep`, `farStep`), scheduled by
  their systems; accesses, interrupts and deaths are not assumed to happen;
* `Gic`: each CPU's handler: a CPU whose line is raised takes the interrupt, and a
  handler goes on;
* `Uart`: `interruptLoop`, which wakes after every poll period;
* `VpsimModule`: `refreshParameters` and the handlers, which run to their end
  within one call;
* `ParamScheduler`: the thread once it is runnable, and the SystemC kernel;
* `Monitor`: the captures, which the thread of `MainMemCosim` makes as long as the
  program runs (`ThreadsGoOn` shows it does).

Every property of a passing run has a mutant: an operator next to the
definition it replaces, commented "Mutant", which breaks the code the way a slip
would. No run uses them.

## 5. Proofs

Each proof module states an inductive invariant of named parts, shows that `Init`
gives it and every action keeps it, one lemma per action, and reads the
properties off it. The constants are arbitrary: numbers of CPUs, addresses, ways,
requests, appointments and the `Max...` bounds of the runs are under no other
assumption than the named `ASSUME`s of the modules, which TLC evaluates on
every instance. The invariants were checked by TLC before they were proved.

| Module | Theorems that state a property of a run | Others |
|---|---|---|
| `CoherentCachesProofs` | `TypeCorrect`, `Coherence`, `HomeDirectory`, `L2Directory`, `ExclusiveAsserts`, `OtherAsserts`, `DirtyKept`, `LossesJustified` (`LossJustified`) | `InductiveInvariant` |
| `CacheSetProofs` | `ReplacementIsByUse` (`ReplacementFollowsUse`), `ExclusionIsExact` (`ExclusionExact`), `NewestIsKept` (`NewestKept`), `CleanAreIncluded` (`CleanIncluded`) | `SetInvariance`, `HierarchyInvariance` |
| `CosimProofs` | `InOrder` (`PlayedInOrder`), `InStep` (`ThreadsInStep`), `Covers` (`CaptureCovers`), `LinkStaysInStep` (`LinkInStep`) | `Invariance`, `TypeCorrect`, `EpochWindowHolds`, `SlotExclusive`, `BiasesExact` |
| `QueueProofs` | `QueueAnswers` (`QueueAnswersTrue`), `QueueIsFifo` (`FifoSpec`) | `QueueInvariance` |
| `InitiatorProofs` | `TimeIsKept` (`TimeKept`), `ClockNeverBack` (`ClockNotBack`), `OneMemory` (`BusSeesOneMemory`) | `IssInvariance`, `BusInvariance` |
| `InterruptProofs` | `QueuesStayInOrder` (`QueuesInOrder`), `NothingPhantom` (`NoPhantomInterrupt`), `UartStaysConsistent` (`UartFlagsAgree`) | `GicInvariance` |
| `SchedulerProofs` | `ParamsAlwaysOnDate` (`ParamsOnDate`), `AppointmentsAlwaysKept` (`AppointmentsKept`) | `ParamInvariance`, `LoggerInvariance` |
| `MonitorProofs` | `ReportsAreOfBenchmark` (`ReportsOfBenchmark`) | `MonitorInvariance` |

### Coherent caches

From the assumptions that `NULL_IDX` is no CPU and that the two switches are
Booleans, in both modes of the home. `ExclusiveAsserts`: with an exclusive home no
assert fails. `OtherAsserts`: in any mode only two asserts can, those of
`HomeModifiedOnce` and `SharersCanAnswer` (section 6). `DirtyKept`: without an
exclusive home, `DirtyDataHeld`.

The inductive invariant. `SingleWriter` alone is not inductive: whether a step
keeps it depends on whom the home tells, that is on the directory. `IInv` says
of each line: the L2's directory entry is the L1's state, and L2 line and entry
are not both Modified (`CoreInv`); the home's entry is exact (`DirInv`); an
exclusive home holds no line its clients share, nor a Modified one its clients
own (`HomeInv`); only the two known asserts failed (`FailedInv`); dirty data has
a holder (`DirtyInv`). It is a statement about single lines, since lines meet
only in the choice of victims.

The argument. A step is a chain of operators, and inside the chain the invariant
is broken: an L1 victim is gone from the L1 while the L2 still lists it. The
lemmas therefore come in two layers: "Facts" lemmas say exactly what an operator
changes when it is called in the state the chain calls it in; "Inv" lemmas say
that a complete link (an eviction at one level, a fill) takes consistent lines to
consistent lines and leaves alone what the next link relies on (`L2RoomInv`,
`L1RoomInv`: making room for an address does not touch that address at the
levels above). `ReadLineInv` and `WriteLineInv` put the links together.

`LossesJustified` is about steps: the same lemmas say of each link which L1s it
leaves alone (all of them, when an L2 or the home makes room), so that `ReadLoss`
and `WriteLoss` can name the only L1s that may lose a line in an access.

### Replacement

`SetInv` adds to the property that the order of use holds every way (`InPlace`),
so the ranks are a permutation, and that under MRU free ways are handed out in
turn (`FreeInTurn`), without which a free way could be taken twice. The lemmas
`AccessedRanks`, `VictimLRU` and `VictimMRU` say what one pass over the ways does to a
permutation of any length: the accessed way moves to the front, those before it
move back by one, and the elected victim is at one of the ends.

### Caches without coherence

From `HierarchyAssumption`: caches are numbered above the shared one, every cache has
a way, no line is private to two CPUs, or to one and common. Nothing is assumed of
`InvalidateModified`.

The properties are not inductive: what an eviction of the shared cache does to the
level above depends on the directory, and what a miss brings depends on the copies
below. `HierarchyInv` says, besides the types:

* `OneWay`, `OwnLines`: a line is in at most one way of a cache, and a cache of level
  1 holds only lines of its CPU;
* `ExclusiveInv`: the property of an exclusive cache itself;
* `InclusiveInv`: the directory of an inclusive cache names every cache that holds the
  line clean and none with a Modified copy (a cache that dropped a clean line may stay
  named), and a line with sharers is in the shared cache;
* `DataInv`: a clean shared copy is what memory holds, a copy of a private line at
  level 1 is current, and the line is current below (`Below`) unless its CPU holds it
  Modified.

The argument. The hierarchy is one record, and a lemma per call says which fields of
it change and how (`...Fields`); `Served` sums up what a request of level 1 may do to
the rest of the hierarchy: it replaces one line of the shared cache, takes it from
the caches the directory named, and leaves every other way of level 1 alone. `RoomInv`
(the way of a miss is free), `FilledInv` (the line is fetched), `ReadInv`, `WrittenInv`
(other copies outdated, the inclusive cache told) and `WriteInv` carry the invariant
along an access.

### Co-simulation

`IInv` places the two threads: which epoch `Run` announced and whether it has a
request in hand (`ControlInv`); between which epochs the pending requests lie and,
by program counter, how far the counters are apart (`EpochInv`); what each slot
holds (`SlotInv`); and that nothing pending sorts before the request in hand or
played last (`OrderInv`). `SlotsApart`, two epochs less than a ring apart have
different slots, turns distances into exclusion. All of it holds even when stamps
wrap, since epochs do not.

Captures do need the stamps. `TimesFit` says that there is a longest quantum with
which all epochs fit below `TIMES` (64 bits of nanoseconds are centuries of
simulated time), and that no benchmark starts at time zero, where its start would be
stamped before zero: `CaptureEntire` fails there, section 6. Then `TimeInv` bounds
the time, `BenchInv` says that at most one start and end are on their way and in
order, and `RoiInv` that counted accesses sort between them.

### Lock-free queue

From `QueueAssumption`: the block size is a power of two, as the constructor
asserts, capacities are positive and have their power of two in the range. Any
block size, capacity, number of elements and number of allocations that succeed.

Neither "the contents are consecutive" nor the answers are inductive: each thread
decides from a copy of the other's index and, between two accesses, from what it
read before. `QInv` says that there are positions `pos` of the blocks behind the
front block and numbers `lo` of elements enqueued before those of each block, with

* `QRing`: the links are one circle, in the order of the positions;
* `QCount`: blocks between the front and the tail block are full and blocks behind
  the tail block empty; what the consumer has seen is no more than what a block holds
  (`Seen`), what the producer takes for used no less (`Used`): old copies err on
  the safe side;
* `QData`: the slots of a block hold the numbers after `lo`, and each block goes on
  where the one before it ends;
* `QProd`, `QNew`, `QCons`: what each thread knows at each of its steps, the block
  that is allocated and not yet linked, and that the element in hand is the front one.

The argument. A step touches one index or link, so a lemma says which distances
change, and one lemma per access (`moveTailStep`, `linkStep`, `takeStep`...) chooses
the new `pos` and `lo`: they change only when a block is linked or the front block
moves. `FullHolds` gives the capacity: if the tail block is full and the block after
it is the front block, the full blocks together hold `maxSize` or more, by the number
of blocks the constructor reserves. `Contents` is a recursive function over the circle; that
it is a run of consecutive numbers, which the refinement needs, is shown without
induction over data, from a least counterexample (`LeastOf`, from the natural
numbers being well-founded). Then `moveTail` and `moveTailBlock` append the next
number, `moveFront` takes the head, and every other access leaves the run as it is.

### Remote pair

`StreamsInStep` and `AnswersMatch` speak of the time between accesses; `Phase` says
for every state in which of six phases the one access is (in the stream, half
taken, served, answered, half read, at rest), what both streams hold there, and
what the remote side performed. The seventh, `Orphaned`, is after the death of the
remote process, in which complete and half answers may still be taken.

### Clocks of the processors

`AheadInv` adds to `AheadLessThanQuantum` that the next synchronisation is at most a
quantum away for every processor, whatever it waits for, and that one that boots
or idles has no time of its own. `OwedInv` ties the interrupt not yet seen to the
flag `mWasInterrupted` that `waitForEvent` tests. `TimeoutNotLate` is about the
timeouts asked for in time: a later request, in time or for a past date, leaves the
earlier notification in place. `ClockNeverBack` follows per action from the invariant:
a wait starts with the end it will have, and an early wake is not before it; the one
exception, stated in `ClockNotBack`, is a wait for an event started unsynchronised
after an atomic section (`WaitsUnsynchronised`).

### Bus path

`BusInv` adds to the property that every memory holds what was written last at each
of its addresses (`MemoriesHold`), that a region is the whole memory of its target,
and that the counters are numbers. `OneMemory` assumes `MapDisjoint`, that no address
lies in two memories: `interconnect` does not check its map (the NoC, which is not
compiled, does, `NoCBase.cpp:320`), and with an
overlap two accesses to one address may reach different memories, since the bus
looks for a memory that holds the whole access. The lemmas say that a served access
changes the bytes of one memory and no other (`ServedKeeps`), that a granted region
was not held before, else it would have served the access (`GrantedKeeps`), and that
what the update hook keeps is each region once (`NthFacts`).

### Interrupts

`CpusInOrder` relates queue, acknowledge register, line and handler of each CPU:
the register shows the front, and what is handled is the front. That gives
`NoThrow`. `NoPhantomInterrupt` is the difficult one: completing an interrupt makes
the next entry's number pending again, and `comb_logic` may queue it once more, with
the origin recorded by then. `OwedAccounts` counts: of what a CPU is owed, one is for
the entry that waits, and a second one for an entry that may still come back
(`Returning`). `AscendingFacts` and `QueuedFacts` say what the loop of `comb_logic`
queues, for any set of interrupts. That the priority mask has a largest value, which
lets every interrupt through and is the one the model starts with, is part of
`IrqAssumption`.

For the UARTs the invariant adds what each kind does with the common registers: what
software wants of a PL011 is its mask, and a xuartps leaves raw and mask empty.

### Schedulers

The danger in both is what the thread keeps over its wait. `ParamInv`: what is
scheduled and what was applied are in order, the latter first (`ParamsInOrder`); the
appointment the thread refers to is scheduled and the first of its date
(`ReferenceIsFirst`); a thread nobody woke waits for the first date (`ParamWaits`).

`LoggerInv` is weaker where the code is: the copy is still in the list (`CopyKept`),
and where it is not the first, the thread is about to run, at a date at which the
copy is not due or which is crowded (`CopyIsFirst`). So an appointment is applied
twice, or left out, only at a crowded date, and the counts of each date agree all
the same: the number applied is the cardinality of those that left.

### Monitor

From `MonitorAssumption`, for any instances and any division of them into those
captured at once, late, or without statistics, with and without a cosimulation.
Whether a report is right is decided by steps of the cosimulation's thread that come
after the command that asked for it, so the property says too little of the states in
between. `MonitorInv` adds

* `ProgramInv`: strings are opened before they are added to, and the byte that runs a
  command is the last of what the program has left to write;
* `CaptureInv`: which notifications are on their way, by `delayedCaptureRunning` and
  `mInBenchmark`: at most a start and an end, in that order, and an end that is
  pending carries the number the next benchmark will have, so its part goes to the
  file of its own benchmark. This is where the refusal of a benchmark during a capture
  is needed;
* `SegmentInv`: at which instances the segment has begun; there its last entry is the
  count at that moment, elsewhere there is none, else the next report would be a
  difference to an older one;
* `LogInv`: every file has one value of each instance, except that the file of the
  benchmark just ended may still wait for its late part.

`SegmentsTyped` bounds the segments by the commands executed. The programs are composed
of parts (`Quiet`, `Joined`), so that no lemma enumerates the commands.

### Only model-checked

* `PlatformWired`, `ToldOnce`: what an instance is told and the order it is finalized in
  are sorted sequences of the instances (`MapIf`), and that a finite set can be sorted
  is an induction over the set;
* `GraphSettled`: what a module exports folds over its ports, and what is upstream of it
  is a closure over the graph, both again an induction over data;
* `MeshAccounted` and `SentWhereCharged`: sums over the routers of a route, folds,
  about which a proof needs induction over data;
* `ContainerExact`: its module uses RECURSIVE operators, with which the prover loses
  its SMT backend;
* liveness under fairness (`ThreadsGoOn`, `LinkGoesOn`, `QueueServed`,
  `UartLineFollows`, `RefreshEnds`, `AppliedInTheEnd`, `NextBenchmarkAccepted`), out of
  this prover's reach.

## 6. Where the code disagrees with itself

Three runs end with a counterexample; `PROJECT.json` quotes the lines.

* **Two Modified records of one line** (`HomeModifiedOnce`). A non-exclusive home
  that holds a line Modified grants it with GetM and keeps its own line Modified;
  the next request fails the assert at `CacheBase.hpp:785`.
* **Disabling an interrupt has no effect** (`DisableWorks`). The disable branch
  subtracts `0x100` where it should subtract `0x180`; only the register changes.
* **A line above an inclusive cache that the cache lacks** (`InclusionKept`). The
  inclusive cache takes a forwarded write for a write-back and forgets the
  writer.

Other statements of the repository are definitions of the modules that no run
checks, since they fail too; each gives a counterexample when it is the
INVARIANT of the configuration named.

| Definition | Configuration | What happens |
|---|---|---|
| `SharersCanAnswer` | SharedHome | a non-exclusive home that evicted a shared line asks its sharers; the assert at `CacheBase.hpp:551` expects an owner. Harmless in a release build, as SharedHome shows |
| `WriteBackComplete` | ExclusiveHome | a GetS miss that the owner answers (`CacheBase.hpp:816`) downgrades the owner and writes nothing; later evictions treat the line as clean, and the write never reaches memory |
| `VictimIsLeastRecent` | Replacement | LRU elects its victim before it resets the rank of the accessed way: the line just used may go (`CacheSet.hpp:182`) |
| `CaptureEntire` | CosimOrder with `FirstBench = 0` | a benchmark started at time zero is stamped `_epoch_sc_time - 1`, which wraps (`MainMemCosim.hpp:110`): it starts after its end |
| `BlockingAnswerExactByDefault` | Parameters | with the default a configuration file may set, the answer for a space depends on what lies beyond the container's end |
| `ExportedIsUpToDate` | Parameters | a refresh empties the modules upstream and may stop before it reaches them |
| `SyncAtMultiples` | Interconnect | `sync` is said to wait for multiples of the quantum (`quantum.cpp:38`); as built it waits for all of the local time, wherever that ends |
| `SearchStaysInside` | Parameters | the search for the answer of a space in several parts starts past the end of the container's vector and dereferences what lies there, whatever the default (`parameterSet.cpp:80`) |
| `NoStrayFlits` | Interconnect | with buffers of more than one flit, the wait of a blocked flit is looked up with `operator[]`, which inserts a flit that does not pass that router (`CoherenceInterconnect.cpp:655`); a reading of the statistics leaves it there, and it counts in later waits |
| `AlwaysSentWhereCharged` | Interconnect | a transaction is charged for another component than it reaches: homes or memories linked or registered in another order than their sockets, interleaved memory (charged by turns, sent by range), a ReadBack (charged by its address, sent to caches, `:870`), an Invalidate without coherence (charged for all caches, sent to some) |
| `VirtioFinalized` | Platform | the proxy reads the attribute `provide_instance`, which it does not have, and throws for every platform (`DynamicComponents.hpp:951`) |

Modelled as the code does it, with the properties stated around it:
an appointment inserted at the current date leaves in the place of the one applied
(`loggerScheduler.cpp:45`); statistics read twice charge the flits of the open
interval twice (`CoherenceInterconnect.hpp:180`); segments of statistics subtract
the last difference (`DynamicComponents.hpp:1317`); a second benchmark may start
inside one when there is no co-simulation; memories of a subsystem are
not told to the readers of later ones (`VpsimIp.hpp:435`); an exclusive cache
gives a modified line back as a clean one; a timeout of the xuartps that runs
keeps its line up; a processor that is to boot on an interrupt calls
`wait(true)`, which waits for ever (`issWrapper.cpp:326`); the remote side waits in `write()` for room in the interrupt
stream while the local side waits for its answer, which `AccessEnds` excepts; at
the end of a stream, the answer before is taken for the answer, which `AnswersMatch`
excepts; a timeout asked for a past date comes at once or never (`issWrapper.hpp:150`),
and a wait for an event after an unsynchronised atomic section may take the clock back;
a controller at `x = mX` or `y = mY` is accepted and counted as another router or none
(`CoherenceInterconnect.cpp:305`); links to a coherent mesh out of the order of the
aliases give an output the range of another (`DynamicComponents.hpp:1718`); the second
Arm processor's lines are written past the arrays of `ItCtrl` (`ItCtrl.cpp:56`);
processors whose identifiers have a gap, or are connected twice by the filter `Arm64`,
do not have the position of their identifier in the GIC (`DynamicComponents.hpp:262`);
`removeMonitor` replaces every range it should keep by the one it removes
(`issWrapper.hpp:226`); the branch of IDR that disables the xuartps' timeout tests a bit
of IER (`xuartps.cpp:173`), so `UartFlagsAgree` leaves the timeout's flag out;
`IOAccessCosim` uses the co-simulation it finds by the name `SystemCCosim0` untested
(`DynamicComponents.hpp:540`).

Noticed and not modelled:

* caches: `initSet` allocates `lineSize` wrappers for `Associativity` ways
  (`CacheSet.hpp:152`); FIFO replacement returns no line;
* GIC: a software interrupt replaces origin and targets of the same one sent
  before (`gic.cpp:386`); one raised between its acknowledge and its completion is
  merged with it (`:182`); `getVIntEntry` reads CPU 0's list registers for every
  CPU (`:223`);
* mesh: the bus's second coordinate is read from `mesh_x`
  (`DynamicComponents.hpp:2017`);
* the programs of all processors share the monitor's one string buffer
  (`SesamController.cpp:103`);
* UARTs: RX trigger and RX full share one flag;
* sockets: messages are not read in a loop, and the buffer size of the remote side
  is not initialised;
* RTC: `watchThread` calls `getNextWatchdog` after its wait; if the last watchdog
  was cancelled meanwhile, the map it reads the first element of is empty
  (`rtc.cpp:43`). The comment in `getNextWatchdog` assumes it is not.

## 7. Not modelled

* The NoC (`Router`, `NoC*`, `Mesh`, `Ring`, `dijkstra`, `SyncFifo`, `TrafficGen`) and
  the DDS points: no target of the repository compiles them.
* The console of the monitor: its `SC_THREAD` is commented out.
* The virtual half of the GIC: the code that drives it, a hypervisor, is outside
  the repository; planned.
* Write-through and write-around caches without coherence: the first forwards a
  line without the data written, the second goes on with a line it did not
  prepare, so there is little to state of them.
* Timer (its functions are empty) and RTC (no component instantiates it).
* `ExternalSimulator`, `VirtioTlm`, `AddressTranslator`, the loading of ISS libraries
  and what they do: each access is a call of a library or an access at another
  address.
* Storage and files (ELF loader, blobs), the polled UART and `ChannelManager`: pure
  I/O. The atomics and semaphores under the queue: wrappers of the compiler's.
* Data races on the plain counters of `MainMemCosim` beyond atomic reads and
  writes.
