CONSTANTS
    NumRuns = 1
    QUEUE_SIZE = 1
    MaxItems = 1
    MaxLater = 1
    Failures = {"exec"}
    Id = 120
    MaxFailures = 1
SPECIFICATION Spec
INVARIANT WorkersFindQueue
