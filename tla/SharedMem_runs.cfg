CONSTANTS
    Producers = {0}
    Consumers = {0, 1}
    Size = 2
    Items = {0, 1, 2}
    Garbage = Garbage
    IdStride = 10
    Failures = {"open", "fork", "exec", "kill"}
    Id = 120
    MaxFailures = 3
SPECIFICATION ShmFairSpec
INVARIANTS ShmTypeOK FinalReport FifoOrder
PROPERTIES RegionFreed ImplementsQueue
CHECK_DEADLOCK FALSE
