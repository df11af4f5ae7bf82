\* Nonces of one, two and three digits, in base 2.
SPECIFICATION Spec
CONSTANTS
    Text <- MCText
    Base = 2
    Width = 3
    MaxNonce = 5
INVARIANTS
    PollStartsAtNonce
    RangeIsOfOneQueue
    NonceIsReadBack
\* Every queue has been filled and pruned.
CHECK_DEADLOCK FALSE
