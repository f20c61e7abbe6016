SPECIFICATION FairSpec
CONSTANTS
    Tasks = {t1}
    s1 = s1  s2 = s2  s3 = s3  ann = ann  bob = bob
    Servers = {s1, s2}
    OwnerOf <- MCOwnerOf
    Rank <- MCRank
    NoServer = NoServer
    Slots = {c1}
    JobIds = {j1, j2, j3, j4}
    JobTries = 1
    MaxRequeues = 1
    ReportedStatuses = {"RUNNING"}
    SubmittedTypes = {"CODEX"}
    MaxAttempts = 6
    MaxWire = 1
    MaxStimuli = 2
    MaxFlips = 1
    MaxCrashes = 0
PROPERTIES QueuedTaskTried SilentTaskReclaimed
CHECK_DEADLOCK FALSE
