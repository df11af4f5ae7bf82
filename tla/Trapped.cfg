\* The on_close of a client traps in the keep alive check.
SPECIFICATION TrapSpec
CONSTANTS
    Anonymous = anonymous
    Principal = {anonymous, p1, p2}
    ClientNonce = {n1}
    Gateway = {g1}
    InitParams <- MCTwoMessages
    CLIENT_KEEP_ALIVE_TIMEOUT = 1
    MESSAGES_TO_DELETE_COUNT = 1
    MaxTimerDelay = 0
    Maintenance = {}
    MaxTime = 6
    MaxNonce = 2
    MaxNonceInOnClose = 6
    MaxIncoming = 1
    MaxTraps = 1
INVARIANTS
    TrappedClientsAreDisconnected
SYMMETRY MCSymmetry
\* The bounds on time and messages stop the model.
CHECK_DEADLOCK FALSE
