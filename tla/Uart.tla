-------------------------------- MODULE Uart --------------------------------
(***************************************************************************)
(* The serial ports (PL011Uart.cpp, xuartps.cpp): the registers software   *)
(* writes and reads, and the thread of CommonUartInterface that drives the *)
(* interrupt line from them once a poll period.  What comes in is bytes    *)
(* that wait, in the channel or in mInFifo (inputReady empties the one     *)
(* into the other); software (external) reads one only when there is one.  *)
(* An interrupt is "RX", "TX" or, for xuartps, the receive timeout "TO";   *)
(* xuartps has two bits for RX, which software enables and disables        *)
(* together.                                                               *)
(***************************************************************************)
EXTENDS Integers

CONSTANTS
  MaxInput,    \* bound: bytes that wait
  MaxTimeout   \* bound: value of RXTOUT

ASSUME UartAssumption == MaxInput \in Nat \ {0} /\ MaxTimeout \in Nat \ {0}

VARIABLES
  kind,                                       \* the device
  input,                                      \* bytes that wait
  raw, mask,                                  \* PL011: registers 0x3C and 0x38
  ierTimeout,                                 \* xuartps: bit 8 of the last write to IER
  mIntEnable, mOutIntEnable, mOutInt,
  mHasTimeout, mToIntEnable, mTimeoutCounter,
  mInterrupting, line,                        \* line: what update_irq was called with last
  wanted                                      \* history: what software enabled

uartVars == <<kind, input, raw, mask, ierTimeout, mIntEnable, mOutIntEnable, mOutInt,
              mHasTimeout, mToIntEnable, mTimeoutCounter, mInterrupting, line, wanted>>
timeoutVars == <<mHasTimeout, mToIntEnable, mTimeoutCounter>>
lineVars == <<mInterrupting, line>>

UartInit ==
  /\ kind \in {"PL011", "xuartps"}
  /\ input = 0 /\ raw = {} /\ mask = {} /\ ierTimeout = FALSE /\ wanted = {}
  /\ mIntEnable = FALSE /\ mOutIntEnable = FALSE /\ mOutInt = TRUE
  /\ mHasTimeout = FALSE /\ mToIntEnable = FALSE /\ mTimeoutCounter = 0
  /\ mInterrupting = FALSE /\ line = FALSE

\* A byte arrives (external).
Arrive ==
  /\ input < MaxInput /\ input' = input + 1
  /\ UNCHANGED <<kind, raw, mask, ierTimeout, mIntEnable, mOutIntEnable, mOutInt, timeoutVars,
                 lineVars, wanted>>

\* readByte, from register 0 of the PL011 and FIFO of xuartps.
readByte ==
  /\ input > 0 /\ input' = input - 1
  /\ UNCHANGED <<kind, raw, mask, ierTimeout, mIntEnable, mOutIntEnable, mOutInt, timeoutVars,
                 lineVars, wanted>>

-----------------------------------------------------------------------------
(* The PL011. *)

\* A read of 0x3C or 0x40.
readStatus ==
  /\ kind = "PL011"
  /\ raw' = IF input > 0 THEN raw \cup {"RX"} ELSE raw
  /\ UNCHANGED <<kind, input, mask, ierTimeout, mIntEnable, mOutIntEnable, mOutInt, timeoutVars,
                 lineVars, wanted>>

\* Mutant of writeData: what is sent raises the status and not the interrupt.
writeDataQuiet ==
  /\ kind = "PL011"
  /\ raw' = raw \cup {"TX"}
  /\ UNCHANGED <<kind, input, mask, ierTimeout, mIntEnable, mOutIntEnable, mOutInt, timeoutVars,
                 lineVars, wanted>>

writeData ==
  /\ kind = "PL011"
  /\ raw' = raw \cup {"TX"}
  /\ mOutInt' = (mOutInt \/ mOutIntEnable)
  /\ UNCHANGED <<kind, input, mask, ierTimeout, mIntEnable, mOutIntEnable, timeoutVars,
                 lineVars, wanted>>

writeMask(bits) ==
  /\ kind = "PL011"
  /\ mask' = bits /\ wanted' = bits
  /\ mOutIntEnable' = ("TX" \in bits)
  /\ mOutInt' = (mOutInt \/ "TX" \in bits)
  /\ mIntEnable' = ("RX" \in bits)
  /\ UNCHANGED <<kind, input, raw, ierTimeout, timeoutVars, lineVars>>

writeClear(bits) ==
  /\ kind = "PL011"
  /\ raw' = raw \ bits
  /\ mOutInt' = (mOutInt /\ "TX" \in raw')
  /\ UNCHANGED <<kind, input, mask, ierTimeout, mIntEnable, mOutIntEnable, timeoutVars,
                 lineVars, wanted>>

-----------------------------------------------------------------------------
(* xuartps. *)

readISR ==
  /\ kind = "xuartps"
  /\ mOutInt' = FALSE
  /\ UNCHANGED <<kind, input, raw, mask, ierTimeout, mIntEnable, mOutIntEnable, timeoutVars,
                 lineVars, wanted>>

writeFIFO ==
  /\ kind = "xuartps"
  /\ mOutInt' = TRUE
  /\ UNCHANGED <<kind, input, raw, mask, ierTimeout, mIntEnable, mOutIntEnable, timeoutVars,
                 lineVars, wanted>>

writeIER(bits) ==
  /\ kind = "xuartps"
  /\ ierTimeout' = ("TO" \in bits) /\ wanted' = wanted \cup bits
  /\ mOutIntEnable' = (mOutIntEnable \/ "TX" \in bits)
  /\ mIntEnable' = (mIntEnable \/ "RX" \in bits)
  /\ mToIntEnable' = (mToIntEnable \/ "TO" \in bits)
  /\ mHasTimeout' = (mHasTimeout \/ "TO" \in bits)
  /\ UNCHANGED <<kind, input, raw, mask, mOutInt, mTimeoutCounter, lineVars>>

\* The timeout goes by the bit of the other register: it is disabled when the last
\* write to IER enabled it.
writeIDR(bits) ==
  /\ kind = "xuartps"
  /\ wanted' = wanted \ bits
  /\ mOutIntEnable' = (mOutIntEnable /\ "TX" \notin bits)
  /\ mIntEnable' = (mIntEnable /\ "RX" \notin bits)
  /\ mToIntEnable' = (mToIntEnable /\ ~ierTimeout)
  /\ mHasTimeout' = (mHasTimeout /\ ~ierTimeout)
  /\ UNCHANGED <<kind, input, raw, mask, ierTimeout, mOutInt, mTimeoutCounter, lineVars>>

writeRXTOUT(n) ==
  /\ kind = "xuartps"
  /\ mTimeoutCounter' = n /\ mHasTimeout' = (n # 0)
  /\ UNCHANGED <<kind, input, raw, mask, ierTimeout, mIntEnable, mOutIntEnable, mOutInt,
                 mToIntEnable, lineVars, wanted>>

-----------------------------------------------------------------------------
(* interruptLoop, one turn of it. *)

Cause == (mOutIntEnable /\ mOutInt) \/ (mIntEnable /\ input > 0)

Raise ==
  /\ Cause /\ line' = TRUE /\ mInterrupting' = TRUE /\ UNCHANGED mTimeoutCounter

CountDown ==
  /\ mTimeoutCounter' = IF mTimeoutCounter = 0 THEN 0 ELSE mTimeoutCounter - 1
  /\ line' = (line \/ (mTimeoutCounter' = 0 /\ mToIntEnable))
  /\ UNCHANGED mInterrupting

Lower == line' = FALSE /\ mInterrupting' = FALSE /\ UNCHANGED mTimeoutCounter

pollUnchanged ==
  UNCHANGED <<kind, input, raw, mask, ierTimeout, mIntEnable, mOutIntEnable, mOutInt,
              mHasTimeout, mToIntEnable, wanted>>

\* Mutant of interruptLoop: the line is lowered only if it was raised for a cause.
interruptLoopLowerRaised ==
  /\ \/ Raise
     \/ ~Cause /\ mHasTimeout /\ input = 0 /\ CountDown
     \/ ~Cause /\ ~(mHasTimeout /\ input = 0) /\ mInterrupting /\ Lower
  /\ pollUnchanged

interruptLoop ==
  /\ \/ Raise
     \/ ~Cause /\ mHasTimeout /\ input = 0 /\ CountDown
     \/ ~Cause /\ ~(mHasTimeout /\ input = 0) /\ Lower
  /\ pollUnchanged

UartNext ==
  \/ Arrive \/ readByte \/ readStatus \/ writeData \/ readISR \/ writeFIFO \/ interruptLoop
  \/ \E bits \in SUBSET {"RX", "TX"} : writeMask(bits) \/ writeClear(bits)
  \/ \E bits \in SUBSET {"RX", "TX", "TO"} : writeIER(bits) \/ writeIDR(bits)
  \/ \E n \in 0 .. MaxTimeout : writeRXTOUT(n)

\* The thread wakes after every poll period.
UartFairness == WF_uartVars(interruptLoop)

UartSpec == UartInit /\ [][UartNext]_uartVars /\ UartFairness

-----------------------------------------------------------------------------
\* The types of the registers and flags; the timeout counts down to zero and not below
\* (xuartps::interruptLoop).
UartTypeOK ==
  /\ kind \in {"PL011", "xuartps"} /\ input \in 0 .. MaxInput
  /\ raw \subseteq {"RX", "TX"} /\ mask \subseteq {"RX", "TX"} /\ wanted \subseteq {"RX", "TX", "TO"}
  /\ {ierTimeout, mIntEnable, mOutIntEnable, mOutInt, mHasTimeout, mToIntEnable, mInterrupting,
      line} \subseteq BOOLEAN
  /\ mTimeoutCounter \in 0 .. MaxTimeout

\* The flags of the polling thread agree with the registers software sees: receive and
\* transmit are polled if software enabled them, and a masked transmit status is a
\* pending transmit interrupt, in whatever order data, mask and clear were written
\* (PL011Uart::write, xuartps::write).  The flag of the timeout is left out: IDR clears
\* it by a bit of IER (xuartps.cpp:173).
FlagsAgree ==
  /\ mOutIntEnable = ("TX" \in wanted) /\ mIntEnable = ("RX" \in wanted)
  /\ "TX" \in raw \cap mask => mOutInt

\* Registers, flags and timeout stay consistent in any order of accesses and polls
\* (PL011Uart, xuartps).
UartFlagsAgree == UartTypeOK /\ FlagsAgree

\* An interrupt software waits for, by the registers.
Pending ==
  \/ "TX" \in wanted /\ (IF kind = "PL011" THEN "TX" \in raw ELSE mOutInt)
  \/ "RX" \in wanted /\ input > 0

\* An interrupt software waits for reaches the line unless software takes its cause
\* away first, whatever the timeout does meanwhile (interruptLoop).
UartRaised == Pending ~> line \/ ~Pending

\* A line without a cause is lowered, the one the timeout raised too, unless a
\* timeout runs: then nothing lowers it (interruptLoop).
UartLowered == line /\ ~Cause /\ ~mHasTimeout ~> ~line \/ Cause \/ mHasTimeout

\* The line follows its causes, up and down (interruptLoop).
UartLineFollows == UartRaised /\ UartLowered
=============================================================================
