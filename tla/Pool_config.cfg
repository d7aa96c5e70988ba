CONSTANTS
    CoreCount = 1
    MAX_WORKER_COUNT = 4
    Configs <- AnyShareFactor
    MinPriority = 1
    MaxPriority = 9
    Callers = {c1, c2}
    MaxCalls = 1
SPECIFICATION Spec
INVARIANT QueuesAssigned
