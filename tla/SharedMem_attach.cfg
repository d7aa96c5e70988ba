CONSTANTS
    Producers = {0}
    Consumers = {0, 1}
    Size = 1
    Items = {0, 1}
    Garbage = Garbage
    IdStride = 10
    Failures = {}
    Id = 120
    MaxFailures = 0
SPECIFICATION ShmSpec
INVARIANT WorkersAttach
