-------------------------- MODULE MCCoherentCaches --------------------------
(***************************************************************************)
(* Model-checking instances of CoherentCaches.  CPUs with caches of        *)
(* different shapes: the L1 of CPU 1 is smaller than its L2, so that dirty *)
(* lines stay in the L2, and the L1 of CPU 2 outlives its L2, so that the  *)
(* L2 evicts lines its L1 keeps.  Addresses are interchangeable, the CPUs  *)
(* are not.                                                                *)
(***************************************************************************)
EXTENDS CoherentCaches, TLC

MCCPU2   == 1 .. 2
MCCPU3   == 1 .. 3
MCL1Ways == <<1, 2, 1>>
MCL2Ways == <<2, 1, 1>>

Symmetry == Permutations(Addr)

=============================================================================
