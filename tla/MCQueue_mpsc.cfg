CONSTANTS
    Producers = {p1, p2}
    Consumers = {c1}
    Size = 2
    Items = {i1, i2, i3}
    Garbage = Garbage
    MaxPush = 3
SPECIFICATION MCSpec
INVARIANT PoppedWerePushed
