SPECIFICATION FairSpec
CONSTANTS
    Tasks = {t1}
    s1 = s1  s2 = s2  s3 = s3  ann = ann  bob = bob
    Servers = {s1}
    OwnerOf <- MCOwnerOf
    Rank <- MCRank
    NoServer = NoServer
    Slots = {c1}
    JobIds = {j1, j2, j3}
    JobTries = 2
    MaxRequeues = 1
    ReportedStatuses = {"RUNNING"}
    SubmittedTypes = {"CODEX"}
    MaxAttempts = 6
    MaxWire = 1
    MaxStimuli = 1
    MaxFlips = 1
    MaxCrashes = 0
PROPERTY ExhaustedTaskFails
CHECK_DEADLOCK FALSE
