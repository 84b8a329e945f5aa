CONSTANTS
    Users = {u1, u2}
    u1 = u1
    u2 = u2
    a1 = a1
    a2 = a2
    AddedBy <- Adders
    TrialUser = u1
    ShopUser = u1
    Attempts = {1, 2}
    Worlds <- Chosen
    Sizes = {2}
    MonthLen = 2
    MaxDay = 5
    MaxOps = 4
    MinUsers = 2
    MinAdmins = 2
    ResetFloor = 1
    Tolerance = 0
    Free = 0
    FullOver = 2
    None = None
SPECIFICATION Spec
CHECK_DEADLOCK FALSE
INVARIANTS OverageIsReal BilledOnce NothingLost
