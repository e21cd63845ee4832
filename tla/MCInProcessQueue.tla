-------------------------- MODULE MCInProcessQueue --------------------------
(***************************************************************************)
(* Instances of InProcessQueue for TLC.                                    *)
(***************************************************************************)
EXTENDS InProcessQueue, TLC

\* All drives belong to the one RunRecoveryWorker of the process.
SharedId == [w \in Workers |-> "inprocess"]
SharedIds == {"inprocess"}

\* Bound: leases are renewed in time, and neither a cancelled run nor a drive
\* that has died is followed further.  What a dead drive leaves behind is not
\* a matter of NoRetryLeftBehind, and a cancel only takes work away.
Followed ==
  /\ \A w \in Workers : drive[w] # "died"
  /\ \A r \in Runs : run[r].status # "CANCELLED"
  /\ \A r \in Runs, n \in AttemptNumber :
       attempt[r][n].status = "RUNNING" => attempt[r][n].lease > 0

Symmetry == Permutations(Workers) \cup Permutations(Runs)
=============================================================================
