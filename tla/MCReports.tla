----------------------------- MODULE MCReports ------------------------------
(***************************************************************************)
(* An instance of Reports for TLC.                                         *)
(***************************************************************************)
EXTENDS Reports, TLC

Symmetry == Permutations(Names)
=============================================================================
