\* The canister is upgraded under a gateway that goes on polling.
SPECIFICATION UpgradedSystemSpec
CONSTANTS
    Anonymous = anonymous
    Principal = {p1, p2}
    ClientNonce = {n1}
    Gateway = {g1}
    InitParams <- MCTwoMessages
    CLIENT_KEEP_ALIVE_TIMEOUT = 2
    MESSAGES_TO_DELETE_COUNT = 1
    MaxTimerDelay = 0
    Maintenance = {"upgrade"}
    MaxTime = 2
    MaxNonce = 3
    MaxNonceInOnClose = 0
    MaxIncoming = 10
    Latency = 1
    MaxSent = 1
INVARIANTS
    NextMessageIsPolled
SYMMETRY MCSymmetry
\* The bounds on time and messages stop the model.
CHECK_DEADLOCK FALSE
