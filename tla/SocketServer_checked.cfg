CONSTANTS
    Clients = {c1}
    Fds = {5}
    ItemSize = 2
    WORK_TIMES_TO_CHECK_TIME = 2
    MaxItems = 2
    SocketBuffer = 4
SPECIFICATION Spec
INVARIANT EveryItemChecked
