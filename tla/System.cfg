\* Clients, a gateway and the canister through a round of acknowledgements.  The
\* timeout is twice the latency, as in the code.
SPECIFICATION SystemSpec
CONSTANTS
    Anonymous = anonymous
    Principal = {p1}
    ClientNonce = {n1, n2}
    Gateway = {g1}
    InitParams <- MCTwoMessages
    CLIENT_KEEP_ALIVE_TIMEOUT = 2
    MESSAGES_TO_DELETE_COUNT = 1
    MaxTimerDelay = 0
    Maintenance = {}
    MaxTime = 7
    MaxNonce = 3
    MaxNonceInOnClose = 0
    MaxIncoming = 10
    Latency = 1
    MaxSent = 1
INVARIANTS
    StreamsAreComplete
    CountsAgree
    ResponsiveClientsStay
    NextMessageIsPolled
SYMMETRY MCSymmetry
\* The bounds on time and messages stop the model.
CHECK_DEADLOCK FALSE
