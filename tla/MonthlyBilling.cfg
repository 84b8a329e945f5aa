CONSTANTS
    Panels = {p1, p2}
    Admins = {r, s, q, x}
    p1 = p1
    p2 = p2
    r = r
    s = s
    q = q
    x = x
    PanelOf <- Home
    Owner = Owner
    Trees <- Parents
    Exempt = {x}
    FeePayers = {r}
    Reach <- Chats
    Workers = {1, 2}
    Worlds <- Chosen
    MAX_ATTEMPTS = 2
    MaxEvents = 3
    None = None
    Payer = r
    Prices = {1, 2, 4, 8}
    Band <- Bands
    Settings <- Ways
    RateAge = 1
    DepositAge = 2
    ReadTimeout = 2
    MinConfirmations = 3
    ReorgDepth = 1
    MaxTime = 4
SPECIFICATION Spec
CHECK_DEADLOCK FALSE
INVARIANTS ToldOnce RateIsReal SettledIsFinal
PROPERTIES StoredNeverOlder CompletedIsBilled CycleEnds
