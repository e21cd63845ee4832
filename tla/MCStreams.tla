------------------------------ MODULE MCStreams ------------------------------
\* A run that may be retried and another run of its thread; a client follows
\* the first run, or the whole thread (whose stream uses no notifier).
EXTENDS Streams

Tries == [r \in Runs |-> IF r = "r1" THEN 2 ELSE 1]

FollowedInit ==
  StreamsInit /\ \A c \in Clients : follows[c] = "thread" <=> backend = "polling"
MCSpec == FollowedInit /\ [][StreamsNext]_allVars /\ StreamsFairness
=============================================================================
