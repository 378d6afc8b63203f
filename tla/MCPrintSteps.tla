---------------------------- MODULE MCPrintSteps ----------------------------
(***************************************************************************)
(* An instance of PrintSteps for TLC.                                      *)
(***************************************************************************)
EXTENDS PrintSteps, TLC

\* The objects are alike.
MCSymmetry == Permutations(Objects)
=============================================================================
