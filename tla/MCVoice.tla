------------------------------- MODULE MCVoice -------------------------------
\* Two questions in a row, whose runs take one attempt each.
EXTENDS Voice

Once == [r \in Runs |-> 1]
InOrder == <<"r1", "r2">>
=============================================================================
