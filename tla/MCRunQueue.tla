---------------------------- MODULE MCRunQueue ----------------------------
(***************************************************************************)
(* Instances of RunQueue for TLC.                                          *)
(***************************************************************************)
EXTENDS MemoryRuns, TLC

\* Every worker under the id that docker-compose.yml gives to all of them.
SharedId == [w \in Workers |-> "recovery-worker"]
SharedIds == {"recovery-worker"}

Symmetry == Permutations(Workers)
=============================================================================
