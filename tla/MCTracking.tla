----------------------------- MODULE MCTracking -----------------------------
(***************************************************************************)
(* Instances of Tracking for TLC.                                          *)
(***************************************************************************)
EXTENDS Tracking, TLC

\* Session threads of an app are interchangeable.
SlotSymmetry == Permutations(Slots)
=============================================================================
