SPECIFICATION Spec
CONSTANTS
    Tasks = {t1}
    s1 = s1  s2 = s2  s3 = s3  ann = ann  bob = bob
    Servers = {s1, s2, s3}
    OwnerOf <- MCOwnerOf
    Rank <- MCRank
    NoServer = NoServer
    Slots = {c1, c2}
    JobIds = {j1, j2}
    JobTries = 2
    MaxRequeues = 1
    ReportedStatuses = {"RUNNING"}
    SubmittedTypes = {"CODEX", "CLAUDE"}
    MaxAttempts = 2
    MaxWire = 1
    MaxStimuli = 3
    MaxFlips = 1
    MaxCrashes = 1
SYMMETRY Symmetry
CONSTRAINT RacesOrFaults
INVARIANTS TypeOK OwnerIsolation TimedOutServerRetired NoOrphanDispatching IInv
 
CHECK_DEADLOCK FALSE
