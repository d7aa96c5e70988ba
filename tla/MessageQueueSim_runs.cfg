CONSTANTS
    NumRuns = 2
    QUEUE_SIZE = 2
    MaxItems = 3
    MaxLater = 1
    Failures = {"open", "fork", "exec", "kill"}
    Id = 120
    MaxFailures = 1
SPECIFICATION FairSpec
INVARIANTS TypeOK ReportOffByOneAtMost StaleOnlyAfterFailedFork DeliveredInOrder QueueLostOnlyToClone
PROPERTY EveryRunEnds
