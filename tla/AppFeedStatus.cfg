SPECIFICATION FeedSpec
CONSTANTS
    Tasks = {t1}
    MaxOps = 1
    MaxWrites = 2
    MaxRows = 0
    MaxActs = 1
PROPERTY StatusReflected
CHECK_DEADLOCK FALSE
