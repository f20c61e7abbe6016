SPECIFICATION FeedSpec
CONSTANTS
    Tasks = {t1}
    MaxOps = 2
    MaxWrites = 2
    MaxRows = 2
    MaxActs = 3
INVARIANTS FeedTypeOK BehindOnlyIfExcused FeedInv
PROPERTIES BusyClears FeedReturns ApprovalPushed
CHECK_DEADLOCK FALSE
