---------------------------- MODULE MCBroadcast -----------------------------
(***************************************************************************)
(* Instances of Broadcast for TLC.                                         *)
(***************************************************************************)
EXTENDS Broadcast, TLC

\* Connections differ by their id only.
ClientSymmetry == Permutations(Clients)
=============================================================================
