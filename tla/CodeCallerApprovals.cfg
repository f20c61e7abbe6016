SPECIFICATION System
CONSTANTS
    Tasks = {t1}
    s1 = s1  s2 = s2  s3 = s3  ann = ann  bob = bob
    Servers = {s1}
    OwnerOf <- MCOwnerOf
    Rank <- MCRank
    NoServer = NoServer
    Slots = {c1, c2}
    JobIds = {j1}
    JobTries = 1
    MaxRequeues = 1
    ReportedStatuses = {"RUNNING"}
    SubmittedTypes = {"CODEX"}
    MaxAttempts = 2
    MaxWire = 1
    MaxStimuli = 6
    MaxFlips = 0
    MaxCrashes = 0
    MaxQueue = 2
    MaxRuns = 1
    MaxLosses = 0
SYMMETRY Symmetry
INVARIANTS RejectionKills DecisionInv
CHECK_DEADLOCK FALSE
