\* A client that answers its acknowledgement is removed by a check that is late.
SPECIFICATION Spec
CONSTANTS
    Anonymous = anonymous
    Principal = {p1}
    ClientNonce = {n1}
    Gateway = {g1}
    InitParams <- MCLongInterval
    CLIENT_KEEP_ALIVE_TIMEOUT = 1
    MESSAGES_TO_DELETE_COUNT = 1
    MaxTimerDelay = 2
    Maintenance = {}
    MaxTime = 6
    MaxNonce = 2
    MaxNonceInOnClose = 2
    MaxIncoming = 1
PROPERTIES
    AnsweredAckKeepsClient
SYMMETRY MCSymmetry
\* The bounds on time and messages stop the model.
CHECK_DEADLOCK FALSE
