CONSTANTS
    Jobs = {1, 2}
    Rows = {1, 2, 3}
    JobOf <- Home
    Direct = {2}
    Workers = {1, 2}
    Worlds <- Chosen
    BATCH = 2
    MAX_ATTEMPTS = 2
    MaxTokens = 2
    MaxFaults = 2
    None = None
    Malformed = Malformed
SPECIFICATION Spec
CHECK_DEADLOCK FALSE
INVARIANTS DuplicatesPaid
PROPERTIES DeliveriesEnd
