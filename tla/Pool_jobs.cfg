CONSTANTS
    CoreCount = 2
    MAX_WORKER_COUNT = 4
    Configs <- JobsConfigs
    MinPriority = 8
    MaxPriority = 9
    Callers = {c1, c2}
    MaxCalls = 3
SPECIFICATION FairSpec
INVARIANTS TypeOK QueuesAssigned RoundRobinBalanced PicksInScope PriorityReserved
PROPERTIES LeastJobsConverges DestructorEnds
