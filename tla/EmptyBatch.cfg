\* Polls with batches of no messages.
SPECIFICATION Spec
CONSTANTS
    Anonymous = anonymous
    Principal = {p1}
    ClientNonce = {n1}
    Gateway = {g1}
    InitParams <- MCEmptyBatch
    CLIENT_KEEP_ALIVE_TIMEOUT = 1
    MESSAGES_TO_DELETE_COUNT = 1
    MaxTimerDelay = 0
    Maintenance = {}
    MaxTime = 3
    MaxNonce = 2
    MaxNonceInOnClose = 2
    MaxIncoming = 0
INVARIANTS
    EndOfQueueIsReached
SYMMETRY MCSymmetry
\* The bounds on time and messages stop the model.
CHECK_DEADLOCK FALSE
