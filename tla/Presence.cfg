SPECIFICATION FairPresence
CONSTANTS
    ann = ann
    bob = bob
    nobody = nobody
    r1 = r1
    r2 = r2
    r3 = r3
    c1 = c1
    c2 = c2
    Users = {ann, bob}
    Requests = {r1, r3}
    OwnerEmail <- MCOwnerEmail
    Slots = {c1, c2}
    MaxServers = 3
    MaxLosses = 2
    EnvFiles <- MCEnvFiles
    MaxSockets = 2
    MaxCrashes = 1
CONSTRAINT OnboardingOrConnecting
INVARIANTS RegistrationTypeOK CredentialMatchesServer CredentialHandedOnce
    PresenceTypeOK EnvHoldsCredential OnlineMeansConnected PresenceInv
PROPERTIES RegistrationEnds OnlineOnceConnected
CHECK_DEADLOCK FALSE
