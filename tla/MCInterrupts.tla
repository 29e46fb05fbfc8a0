---------------------------- MODULE MCInterrupts ----------------------------
(***************************************************************************)
(* The way of an interrupt, in two questions by the value of focus: a      *)
(* serial port that drives a line, and the interrupt controller.           *)
(***************************************************************************)
EXTENDS MCGic, Uart

VARIABLE focus
interruptVars == <<focus, vars, uartVars>>

\* The part that is not in focus stays in one of its initial states.
InterruptsInit ==
  /\ focus \in {"gic", "uart"} /\ Init /\ UartInit
  /\ focus = "gic" => kind = "PL011"
InterruptsNext ==
  \/ focus = "gic" /\ Next /\ UNCHANGED <<focus, uartVars>>
  \/ focus = "uart" /\ UartNext /\ UNCHANGED <<focus, vars>>

\* A part that is not in focus has no fair step that changes it.
InterruptsFairness == Fairness /\ UartFairness
InterruptsSpec == InterruptsInit /\ [][InterruptsNext]_interruptVars /\ InterruptsFairness
=============================================================================
