--------------------------- MODULE MCAuthSession ---------------------------
(***************************************************************************)
(* AuthSession for TLC.                                                    *)
(***************************************************************************)
EXTENDS AuthSession, FiniteSets

\* Concurrent requests and all the pairs are for the runs SessionSurvives is
\* about; after a failure or a restart one request at a time beside the boot
\* effect and one pair fewer are enough.
CalmOrFew ==
    \/ Calm
    \/ issued < MaxTokens /\ Cardinality({c \in Requests : client[c] # Idle}) <= 1

=============================================================================
