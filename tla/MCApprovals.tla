---------------------------- MODULE MCApprovals ----------------------------
(***************************************************************************)
(* Instances of Approvals for TLC.                                         *)
(***************************************************************************)
EXTENDS Approvals, TLC

Symmetry == Permutations(Handlers) \cup Permutations(Processes)
=============================================================================
