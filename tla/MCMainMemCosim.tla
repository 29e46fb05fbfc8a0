--------------------------- MODULE MCMainMemCosim ---------------------------
(***************************************************************************)
(* Model-checking instances of MainMemCosim.                               *)
(***************************************************************************)
EXTENDS MainMemCosim

MCOffsets == {0, 1}
MCSteps   == {0, 1}

=============================================================================
