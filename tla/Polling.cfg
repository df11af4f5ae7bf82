\* One client and its gateway through four intervals, with timers up to one tick late.
SPECIFICATION Spec
CONSTANTS
    Anonymous = anonymous
    Principal = {p1}
    ClientNonce = {n1}
    Gateway = {g1}
    InitParams <- MCOneOrTwoMessages
    CLIENT_KEEP_ALIVE_TIMEOUT = 1
    MESSAGES_TO_DELETE_COUNT = 2
    MaxTimerDelay = 1
    Maintenance = {}
    MaxTime = 8
    MaxNonce = 3
    MaxNonceInOnClose = 3
    MaxIncoming = 1
INVARIANTS
    QueuesInOrder
    PollIsExact
    PollIsCertified
    SilentClientsAreRemoved
    EmptyGatewaysAreRemoved
PROPERTIES
    MessagesAreKept
    ImplementsService
SYMMETRY MCSymmetry
\* The bounds on time and messages stop the model.
CHECK_DEADLOCK FALSE
