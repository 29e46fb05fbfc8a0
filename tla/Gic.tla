-------------------------------- MODULE Gic ---------------------------------
(***************************************************************************)
(* The interrupt controller (gic.cpp), its physical half: the distributor, *)
(* the interface of each CPU and the queue of interrupts the model keeps   *)
(* for each CPU instead of the pending/active state of a real controller.  *)
(* Devices call update_irq and CPUs write registers, each under mGicLock,  *)
(* and each such call ends with comb_logic: every call is one step.        *)
(*                                                                         *)
(* The registers of the controller are one record, so that comb_logic and  *)
(* the handlers are operators from records to records.  The CPUs run the   *)
(* usual handler (external): on an interrupt, acknowledge and complete     *)
(* until the acknowledged identifier is the spurious one.  With split      *)
(* completion (EOImode) the write that completes is the one to 0x1000; the *)
(* other has no effect.                                                    *)
(***************************************************************************)
EXTENDS Integers, Sequences, FiniteSets, SequencesExt

CONSTANTS
  CPU,        \* identifiers of the CPUs, numbers
  SGI,        \* software interrupts used (below 16)
  PPI,        \* private interrupts used (16 to 31)
  SPI,        \* shared interrupts used (32 to N_GIC_INTERRUPTS - 1)
  Priority,   \* priority of each interrupt
  Masks,      \* values of the priority mask of a CPU
  MaxRaised,  \* bound: interrupts raised by devices and by software
  MaxWrites   \* bound: writes to the other registers

Irq == SGI \cup PPI \cup SPI

ASSUME IrqAssumption ==
  /\ CPU \subseteq Nat /\ 0 \in CPU
  /\ SGI \subseteq 0 .. 15 /\ PPI \subseteq 16 .. 31 /\ SPI \subseteq 32 .. 511
  /\ Masks \subseteq Nat /\ Priority \in [Irq -> Nat]
  /\ \E m \in Masks : \A n \in Masks : n <= m  \* a register of one byte
  /\ MaxRaised \in Nat /\ MaxWrites \in Nat

\* What a CPU reads from its acknowledge register: the interrupt and, for a
\* software interrupt, the CPU that sent it.
AckValue == Irq \X CPU

Spurious == <<1023, 0>>

\* The content of an acknowledge register that was never written.
Unset == <<>>

VARIABLES
  gic,       \* the registers and queues of the controller
  thrown,    \* a runtime_error has left the controller, mGicLock is still held
  handler,   \* external: where the interrupt handler of each CPU is
  acked,     \* external: the value each CPU acknowledged last
  raised,    \* number of interrupts raised so far
  writes,    \* number of writes to other registers so far
  owed       \* history: times an interrupt was raised minus times acknowledged

vars == <<gic, thrown, handler, acked, raised, writes, owed>>

State ==
  [isEnabled : BOOLEAN,                      \* distributor control
   cpuTakesInterrupts : [CPU -> BOOLEAN],    \* CPU interface control
   mask    : [CPU -> Masks],                 \* getCpuPriorityMask
   enabled : [CPU -> SUBSET Irq],            \* mEnableStatus, the true ones
   enableReg : SUBSET Irq,                   \* the enable registers, as read back
   pending : [CPU -> SUBSET Irq],            \* mPendingInterrupts
   target  : [Irq -> SUBSET CPU],            \* the target registers
   origin  : [CPU -> [SGI -> CPU]],          \* mInterruptOrigins
   queue   : [CPU -> Seq(AckValue)],         \* mCpuQueue
   iar     : [CPU -> AckValue \cup {Spurious, Unset}],  \* acknowledge registers
   line    : [CPU -> BOOLEAN]]               \* what update_irq last told the CPU

-----------------------------------------------------------------------------
(***************************************************************************)
(* comb_logic                                                              *)
(***************************************************************************)

On(g, c) == g.isEnabled /\ g.cpuTakesInterrupts[c]

ackValue(g, c, i) ==
  <<i, IF i \in SGI THEN g.origin[c][i] ELSE 0>>

\* The interrupts the loop over mEnableStatus finds ready for c.
Ready(g, c) ==
  {i \in g.enabled[c] \cap g.pending[c] :
     c \in g.target[i] /\ ~(Priority[i] > g.mask[c])}

\* The interrupts of a set in the order in which the loop meets them.
Ascending(irqs) ==
  [n \in 1 .. Cardinality(irqs) |->
     CHOOSE i \in irqs : Cardinality({j \in irqs : j < i}) = n - 1]

\* The queue of c with them added in ascending order, unless they are in it.
Queued(g, c) ==
  LET new   == {i \in Ready(g, c) : ackValue(g, c, i) \notin Range(g.queue[c])}
      order == Ascending(new)
  IN  g.queue[c] \o [n \in 1 .. Len(order) |-> ackValue(g, c, order[n])]

\* Mutant of comb_logic: a line is raised only for what this call queued.
comb_logicEdge(g) ==
  LET queue == [c \in CPU |-> IF On(g, c) THEN Queued(g, c) ELSE g.queue[c]]
      line  == [c \in CPU |-> On(g, c) /\ queue[c] # g.queue[c]]
  IN  [g EXCEPT !.queue = queue,
                !.line  = line,
                !.iar   = [c \in CPU |-> IF On(g, c) /\ queue[c] # <<>>
                                         THEN Head(queue[c]) ELSE @[c]]]

\* A CPU that takes interrupts gets its ready interrupts queued, its line is
\* raised while the queue is not empty, and its acknowledge register shows the
\* front.  The line of any other CPU is lowered and its queue is left alone.
comb_logic(g) ==
  LET queue == [c \in CPU |-> IF On(g, c) THEN Queued(g, c) ELSE g.queue[c]]
      line  == [c \in CPU |-> On(g, c) /\ queue[c] # <<>>]
  IN  [g EXCEPT !.queue = queue,
                !.line  = line,
                !.iar   = [c \in CPU |-> IF line[c] THEN Head(queue[c]) ELSE @[c]]]

-----------------------------------------------------------------------------
(***************************************************************************)
(* The handlers.                                                           *)
(***************************************************************************)

setInterruptPending(g, cpus, i, val) ==
  [g EXCEPT !.pending = [c \in CPU |->
     CASE c \notin cpus -> @[c]
       [] c \in cpus /\ val -> @[c] \cup {i}
       [] c \in cpus /\ ~val -> @[c] \ {i}]]

softwareUnchanged == UNCHANGED <<handler, acked>>

\* The history after cpus are owed one more acknowledgement of a.
OneMore(cpus, a) ==
  [owed EXCEPT ![a] = [c \in CPU |-> IF c \in cpus THEN @[c] + 1 ELSE @[c]]]

\* A device raises or lowers a shared interrupt, or a CPU a private one of its
\* own, which then replaces the targets of that interrupt for all CPUs.
update_irq(i, val, cpus) ==
  /\ ~thrown
  /\ \/ i \in SPI /\ cpus = CPU
     \/ i \in PPI /\ Cardinality(cpus) = 1
  /\ raised' = IF val THEN raised + 1 ELSE raised
  /\ raised' <= MaxRaised
  /\ gic' = comb_logic(setInterruptPending(
              IF i \in PPI THEN [gic EXCEPT !.target[i] = cpus] ELSE gic,
              cpus, i, val))
  /\ owed' = IF val THEN OneMore(cpus, <<i, 0>>) ELSE owed
  /\ softwareUnchanged /\ UNCHANGED <<thrown, writes>>

\* Mutant of SendSGI: the origin of the previous sender is kept.
SendSGIKeepsOrigin(c, s, cpus) ==
  /\ ~thrown
  /\ raised < MaxRaised /\ raised' = raised + 1
  /\ gic' = comb_logic(setInterruptPending([gic EXCEPT !.target[s] = cpus],
                                           cpus, s, TRUE))
  /\ owed' = OneMore(cpus, <<s, c>>)
  /\ softwareUnchanged /\ UNCHANGED <<thrown, writes>>

\* writeDist to 0xF00: CPU c sends the software interrupt s to the CPUs its
\* target list or its policy names.
SendSGI(c, s, cpus) ==
  /\ ~thrown
  /\ raised < MaxRaised /\ raised' = raised + 1
  /\ gic' = comb_logic(setInterruptPending(
              [gic EXCEPT !.target[s] = cpus,
                          !.origin = [d \in CPU |-> IF d \in cpus
                                                    THEN [@[d] EXCEPT ![s] = c]
                                                    ELSE @[d]]],
              cpus, s, TRUE))
  /\ owed' = OneMore(cpus, <<s, c>>)
  /\ softwareUnchanged /\ UNCHANGED <<thrown, writes>>

\* The CPUs a write of c to an enable or disable register is for: the registers
\* of the private and software interrupts are banked.
Bank(c, i) == IF i \in SPI THEN CPU ELSE {c}

registerWrite ==
  /\ ~thrown
  /\ writes < MaxWrites /\ writes' = writes + 1
  /\ softwareUnchanged /\ UNCHANGED <<thrown, raised, owed>>

\* writeDist to 0x100..0x17C.
Enable(c, i) ==
  /\ gic' = comb_logic([gic EXCEPT !.enableReg = @ \cup {i},
                                   !.enabled = [d \in CPU |->
              IF d \in Bank(c, i) THEN @[d] \cup {i} ELSE @[d]]])
  /\ registerWrite

\* writeDist to 0x180..0x1FC: the number of the interrupt is computed from the
\* distance to 0x100, not to 0x180, and is 1024 too high: the status of an
\* interrupt that does not exist is made false and that of the one written is
\* left alone.  (From then on comb_logic reads mPendingInterrupts past its end
\* for the former, and drops what it read, as the status is false.)
Disable(i) ==
  /\ gic' = comb_logic([gic EXCEPT !.enableReg = @ \ {i}])
  /\ registerWrite

\* Any other register is plain memory: the controls, masks and targets.
WriteRegister ==
  /\ \/ \E b \in BOOLEAN : gic' = comb_logic([gic EXCEPT !.isEnabled = b])
     \/ \E c \in CPU, b \in BOOLEAN :
          gic' = comb_logic([gic EXCEPT !.cpuTakesInterrupts[c] = b])
     \/ \E c \in CPU, m \in Masks : gic' = comb_logic([gic EXCEPT !.mask[c] = m])
     \/ \E i \in SPI, cpus \in SUBSET CPU :
          gic' = comb_logic([gic EXCEPT !.target[i] = cpus])
  /\ registerWrite

\* Mutant of Completed: the acknowledge register is not moved on.
CompletedStale(g, c, i) ==
  LET rest == Tail(g.queue[c])
      g1   == setInterruptPending(g, {c}, i, FALSE)
      g2   == IF rest = <<>> THEN g1
              ELSE setInterruptPending(g1, {c}, Head(rest)[1], TRUE)
  IN  [g2 EXCEPT !.queue[c] = rest]

\* The effect of completing i, the front of the queue.  The interrupt behind it
\* is made pending again, whatever has happened to it since it was queued.
Completed(g, c, i) ==
  LET rest == Tail(g.queue[c])
      g1   == setInterruptPending(g, {c}, i, FALSE)
      g2   == IF rest = <<>> THEN g1
              ELSE setInterruptPending(g1, {c}, Head(rest)[1], TRUE)
  IN  [g2 EXCEPT !.queue[c] = rest,
                 !.iar[c] = IF rest = <<>> THEN Spurious ELSE Head(rest)]

\* writeCpu to 0x10 (0x1000 with split completion): what is completed must be
\* the front of the queue.
EndOfInterrupt(c) ==
  /\ ~thrown /\ handler[c] = "handling"
  /\ LET i  == acked[c][1]
         ok == gic.queue[c] # <<>> /\ Head(gic.queue[c])[1] = i
     IN  /\ thrown' = ~ok
         /\ gic' = IF ok THEN comb_logic(Completed(gic, c, i))
                   ELSE IF gic.queue[c] = <<>> THEN gic
                   ELSE setInterruptPending(gic, {c}, i, FALSE)
  /\ handler' = [handler EXCEPT ![c] = "reading"]
  /\ UNCHANGED <<acked, raised, writes, owed>>

\* The CPU takes the interrupt its line announces.
TakeInterrupt(c) ==
  /\ handler[c] = "idle" /\ gic.line[c]
  /\ handler' = [handler EXCEPT ![c] = "reading"]
  /\ UNCHANGED <<gic, thrown, acked, raised, writes, owed>>

\* readCpu of 0xC: the acknowledge register is plain memory too.
ReadIAR(c) ==
  /\ ~thrown /\ handler[c] = "reading"
  /\ acked' = [acked EXCEPT ![c] = gic.iar[c]]
  /\ IF gic.iar[c] = Spurious
     THEN handler' = [handler EXCEPT ![c] = "idle"] /\ UNCHANGED owed
     ELSE /\ handler' = [handler EXCEPT ![c] = "handling"]
          /\ owed' = [owed EXCEPT ![gic.iar[c]][c] = @ - 1]
  /\ UNCHANGED <<gic, thrown, raised, writes>>

-----------------------------------------------------------------------------

\* The controller once software has configured it: the software and the shared
\* interrupts are enabled, the shared ones go to CPU 0, nothing has been raised.
Configured ==
  [isEnabled |-> TRUE,
   cpuTakesInterrupts |-> [c \in CPU |-> TRUE],
   mask    |-> [c \in CPU |-> CHOOSE m \in Masks : \A n \in Masks : n <= m],
   enabled |-> [c \in CPU |-> SGI \cup SPI],
   enableReg |-> SGI \cup SPI,
   pending |-> [c \in CPU |-> {}],
   target  |-> [i \in Irq |-> IF i \in SPI THEN {0} ELSE {}],
   origin  |-> [c \in CPU |-> [s \in SGI |-> 0]],
   queue   |-> [c \in CPU |-> <<>>],
   iar     |-> [c \in CPU |-> Unset],
   line    |-> [c \in CPU |-> FALSE]]

Init ==
  /\ gic = Configured
  /\ thrown = FALSE
  /\ handler = [c \in CPU |-> "idle"]
  /\ acked = [c \in CPU |-> Spurious]
  /\ raised = 0
  /\ writes = 0
  /\ owed = [a \in AckValue |-> [c \in CPU |-> 0]]

HandlerStep(c) == TakeInterrupt(c) \/ ReadIAR(c) \/ EndOfInterrupt(c)

Next ==
  \/ \E i \in PPI \cup SPI, val \in BOOLEAN, cpus \in SUBSET CPU : update_irq(i, val, cpus)
  \/ \E c \in CPU, s \in SGI, cpus \in SUBSET CPU \ {{}} : SendSGI(c, s, cpus)
  \/ \E c \in CPU, i \in Irq : Enable(c, i)
  \/ \E i \in Irq : Disable(i)
  \/ WriteRegister
  \/ \E c \in CPU : HandlerStep(c)

\* Software goes on with the handler it is in, and a CPU whose line is raised
\* takes the interrupt.
Fairness == \A c \in CPU : WF_vars(HandlerStep(c))

Spec == Init /\ [][Next]_vars /\ Fairness

-----------------------------------------------------------------------------
(***************************************************************************)
(* Properties                                                              *)
(***************************************************************************)

\* The types of the registers, the queues and the handlers (gic.hpp).
TypeOK ==
  /\ gic \in State
  /\ thrown \in BOOLEAN
  /\ handler \in [CPU -> {"idle", "reading", "handling"}]
  /\ acked \in [CPU -> AckValue \cup {Spurious}]
  /\ raised \in 0 .. MaxRaised /\ writes \in 0 .. MaxWrites
  /\ owed \in [AckValue -> [CPU -> Int]]

\* A CPU that completes what it acknowledged always completes the front of its
\* queue, whatever devices, other CPUs and its own register writes did in
\* between: neither runtime_error of writeCpu is thrown (with mGicLock held).
NoThrow == ~thrown

\* No CPU is given an interrupt more often than it was raised for it, nor a
\* software interrupt in the name of a CPU that did not send it, although
\* completing an interrupt makes the next one pending again with whatever
\* origin is recorded by then.
NoPhantomInterrupt == \A a \in AckValue, c \in CPU : owed[a][c] >= 0

\* comb_logic, run over and over on the same pending interrupts, never queues
\* one twice: each queue stays below the number of interrupts.
QueueNoDuplicate == \A c \in CPU : IsInjective(gic.queue[c])

\* The queues of the CPUs stay in order under every interleaving of devices, CPUs and
\* register writes: completions match, nothing is queued twice (gic.cpp).
QueuesInOrder == TypeOK /\ NoThrow /\ QueueNoDuplicate

\* A CPU with queued interrupts gets to handle one, unless software stops the
\* interrupts of that CPU: the line is never left low over a queue that waits,
\* whatever is written or raised for other CPUs in between.
QueueServed ==
  \A c \in CPU :
    gic.queue[c] # <<>> ~> handler[c] = "handling" \/ ~On(gic, c)

\* What the comments of writeDist say of its writes: a shared interrupt that
\* software disabled, and that reads back as disabled, is not queued.
DisableWorks ==
  [][\A c \in CPU : \A a \in Range(gic'.queue[c]) \ Range(gic.queue[c]) :
       a[1] \in SPI => a[1] \in gic'.enableReg]_vars
=============================================================================
