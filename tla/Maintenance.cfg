\* init with other parameters, upgrades and wipes.
SPECIFICATION Spec
CONSTANTS
    Anonymous = anonymous
    Principal = {p1, p2}
    ClientNonce = {n1}
    Gateway = {g1}
    InitParams <- MCIntervals
    CLIENT_KEEP_ALIVE_TIMEOUT = 1
    MESSAGES_TO_DELETE_COUNT = 1
    MaxTimerDelay = 0
    Maintenance = {"init", "upgrade", "wipe"}
    MaxTime = 4
    MaxNonce = 2
    MaxNonceInOnClose = 4
    MaxIncoming = 0
INVARIANTS
    RegistryConsistent
    LoopKeysAreRegistered
    GatewayCounts
    QueuesInOrder
    CertTreeMatchesQueues
    ServedMessagesAreCertified
    TimersAreTracked
PROPERTIES
    ImplementsService
SYMMETRY MCSymmetry
\* The bounds on time and messages stop the model.
CHECK_DEADLOCK FALSE
