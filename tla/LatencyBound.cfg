\* An acknowledgement and its answer that take all the latency which is allowed.
SPECIFICATION SystemSpec
CONSTANTS
    Anonymous = anonymous
    Principal = {p1}
    ClientNonce = {n1}
    Gateway = {g1}
    InitParams <- MCTwoMessages
    CLIENT_KEEP_ALIVE_TIMEOUT = 2
    MESSAGES_TO_DELETE_COUNT = 1
    MaxTimerDelay = 0
    Maintenance = {}
    MaxTime = 6
    MaxNonce = 2
    MaxNonceInOnClose = 0
    MaxIncoming = 10
    Latency = 1
    MaxSent = 0
INVARIANTS
    AllowedLatencyKeepsClients
SYMMETRY MCSymmetry
\* The bounds on time and messages stop the model.
CHECK_DEADLOCK FALSE
