SPECIFICATION FairSpec
CONSTANTS
    MaxJobs = 2
    Syncs = {s}
    Retention = 1
    HistoryMax = 1
    MaxRestarts = 1
    Requests <- MCRequests
    SyncRequests <- MCSyncRequests
    None = None
INVARIANTS TableBounded HistoryInOrder ActionsInv OneInstaller SlotOwned SucceededIsDone
CHECK_DEADLOCK FALSE
PROPERTIES ImplementsJobQueue SlotFreed SyncAnswered
