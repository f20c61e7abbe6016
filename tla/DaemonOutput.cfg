SPECIFICATION OutputSpec
CONSTANTS
    Tasks = {t1}
    Daemons = {d1}
    MaxQueue = 2
    MaxInbox = 1
    MaxRuns = 2
    MaxLosses = 1
    Chunks <- MCChunks
    TAIL_LIMIT = 5
    KeptLines = 2
    KeptSymbols = 4
    MaxOutput = 6
    MaxTemplate = 4
    MaxPrompt = 2
INVARIANTS
    DaemonTypeOK ResultEndsRun NoResultWhileRunning OutputInv
    PromptIsOneArgument FreshPromptNoticed FailoverJustified CapacityNoticed
PROPERTY RequestIsFresh
CHECK_DEADLOCK FALSE
