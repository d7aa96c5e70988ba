CONSTANTS
    Producers = {p1}
    Consumers = {c1}
    Size = 2
    Items = {i1, i2}
    Garbage = Garbage
    MaxPush = 6
SPECIFICATION MCFairSpec
INVARIANTS TypeOK NoSlotRace FifoOrder
PROPERTIES EveryItemDelivered ImplementsFifo
