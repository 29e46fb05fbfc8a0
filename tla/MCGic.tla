------------------------------- MODULE MCGic --------------------------------
(***************************************************************************)
(* Two CPUs and one interrupt of each kind; the mask value 1 lets only the *)
(* software interrupt through.                                             *)
(***************************************************************************)
EXTENDS Gic

MCCPU == {0, 1}
MCSGI == {2}
MCPPI == {27}
MCSPI == {40}
MCMasks == {1, 2}
MCPriority == [i \in Irq |-> IF i = 2 THEN 1 ELSE 2]
=============================================================================
