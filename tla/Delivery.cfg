\* Everything that is sent arrives, and client and canister come to agree.
SPECIFICATION FairSystemSpec
CONSTANTS
    Anonymous = anonymous
    Principal = {p1}
    ClientNonce = {n1, n2}
    Gateway = {g1}
    InitParams <- MCOneMessage
    CLIENT_KEEP_ALIVE_TIMEOUT = 3
    MESSAGES_TO_DELETE_COUNT = 1
    MaxTimerDelay = 0
    Maintenance = {}
    MaxTime = 5
    MaxNonce = 2
    MaxNonceInOnClose = 0
    MaxIncoming = 10
    Latency = 1
    MaxSent = 1
PROPERTIES
    MessagesArrive
    ViewsAgree
\* The bounds on time and messages stop the model.
CHECK_DEADLOCK FALSE
