SPECIFICATION FairAuth
CONSTANTS
    Requests = {q1, q2}
    Boots = {b1}
    MaxTokens = 3
    MaxFailures = 1
    MaxRestarts = 1
CONSTRAINT CalmOrFew
INVARIANTS SessionSurvives AuthInv
PROPERTY BootEnds
CHECK_DEADLOCK FALSE
