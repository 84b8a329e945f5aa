CONSTANTS
    Admins = {p, c}
    Users = {up, uc}
    p = p
    c = c
    up = up
    uc = uc
    Above <- Tree
    OwnerOf <- Added
    Indebted = {p}
    Instances <- Both
    Batch = 1
    MaxActions = 2
    MaxRetries = 2
    None = None
SPECIFICATION FairSpec
CHECK_DEADLOCK FALSE
INVARIANTS LimitsRemembered FreezeHolds UsersHandedBack
PROPERTIES SettledIsRestored
