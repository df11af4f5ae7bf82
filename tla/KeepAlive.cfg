\* Acknowledgements, keep alives and checks on time, some undone by a trap.
SPECIFICATION TrapSpec
CONSTANTS
    Anonymous = anonymous
    Principal = {anonymous, p1, p2}
    ClientNonce = {n1}
    Gateway = {g1}
    InitParams <- MCTwoMessages
    CLIENT_KEEP_ALIVE_TIMEOUT = 1
    MESSAGES_TO_DELETE_COUNT = 1
    MaxTimerDelay = 0
    Maintenance = {"wipe"}
    MaxTime = 8
    MaxNonce = 2
    MaxNonceInOnClose = 6
    MaxIncoming = 1
    MaxTraps = 2
INVARIANTS
    LoopKeysAreRegistered
    ClientsAreAcknowledged
    TrapsOnlyDelay
PROPERTIES
    AnsweredAckKeepsClient
SYMMETRY MCSymmetry
\* The bounds on time and messages stop the model.
CHECK_DEADLOCK FALSE
