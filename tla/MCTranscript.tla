---------------------------- MODULE MCTranscript ----------------------------
(***************************************************************************)
(* Instances of Transcript for TLC.  The initial state chooses which       *)
(* workers are deployed; one that is not never leaves "idle".              *)
(***************************************************************************)
EXTENDS Transcript, TLC

VARIABLE deployed

\* Every worker under the id that docker-compose.yml gives to all of them.
SharedId == [w \in Workers |-> "recovery-worker"]
SharedIds == {"recovery-worker"}

Symmetry == Permutations(Workers)

DeployedInit ==
  /\ TranscriptInit
  /\ deployed \in {Workers} \cup {{w} : w \in Workers}

DeployedNext ==
  /\ TranscriptNext
  /\ \A w \in Workers \ deployed : pc'[w] = "idle"
  /\ UNCHANGED deployed

deployedVars == <<allVars, deployed>>
DeployedSpec == DeployedInit /\ [][DeployedNext]_deployedVars

Alone == \E w \in Workers : deployed = {w}

\* With one worker deployed, crashes included, the reply of a completed run is
\* the one of the attempt that completed it (ReplyOfLastAttempt): no attempt
\* that died after its write speaks for a later one.
LoneReplyOfLastAttempt == Alone => ReplyOfLastAttempt

\* With one worker deployed nothing rewrites the reply of a run that has
\* completed or failed (FinishedReplyStable): what a client reads is final.
LoneReplyStable ==
  [][Alone => \A r \in Runs :
       run[r].status \in {"COMPLETED", "FAILED"} => reply'[r] = reply[r]]_deployedVars

\* What the reader of the thread finds is the outcome of the run, and, without
\* a second worker on it, that of its last attempt.
ThreadTellsOutcome ==
  /\ TranscriptInv
  /\ LoneReplyOfLastAttempt
=============================================================================
