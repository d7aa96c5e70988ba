CONSTANTS
    Producers = {0, 1}
    Consumers = {0, 1}
    Size = 2
    Items = {0, 1, 10}
    Garbage = Garbage
    IdStride = 10
SPECIFICATION SimFairSpec
INVARIANTS SimTypeOK NoUseAfterDelete ReportIsExact EachItemOnce MutualExclusion TokenConservation CountersAgree CountIsTokens
PROPERTIES NothingPushedAfterProducers Terminates
