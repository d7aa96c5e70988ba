CONSTANTS
    Clients = {c1, c2, c3}
    Fds = {5, 6}
    ItemSize = 2
    WORK_TIMES_TO_CHECK_TIME = 1
    MaxItems = 2
    SocketBuffer = 3
SPECIFICATION FairSpec
INVARIANTS TypeOK Framing EventsFresh OnlyDroppedLoseItems
PROPERTY ClientsReleased
