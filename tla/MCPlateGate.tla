------------------------------ MODULE MCPlateGate ------------------------------
(***************************************************************************)
(* Two prints of a printer, interchangeable.                               *)
(***************************************************************************)
EXTENDS PlateGate, TLC

CONSTANTS a, b

PrintSymmetry == Permutations({a, b})
=============================================================================
