\* Sessions come, move between two gateways, replace each other and go; one gateway is
\* removed while the other serves.
SPECIFICATION Spec
CONSTANTS
    Anonymous = anonymous
    Principal = {p1, p2}
    ClientNonce = {n1, n2}
    Gateway = {g1, g2}
    InitParams <- MCOneMessage
    CLIENT_KEEP_ALIVE_TIMEOUT = 1
    MESSAGES_TO_DELETE_COUNT = 2
    MaxTimerDelay = 0
    Maintenance = {}
    MaxTime = 3
    MaxNonce = 2
    MaxNonceInOnClose = 2
    MaxIncoming = 0
INVARIANTS
    TypeOK
    RegistryConsistent
    GatewayCounts
    StreamsInOrder
    OldSessionsAreRefused
    CertTreeMatchesQueues
    PollIsCertified
    SessionsAreServed
PROPERTIES
    MessagesAreKept
SYMMETRY MCSymmetry
\* The bounds on time and messages stop the model.
CHECK_DEADLOCK FALSE
