CONSTANTS
    a = a
    b = b
    token = token
    shop = shop
    here = here
    there = there
    Orders = {a, b}
    Secrets = {token, shop}
    OwnerToken = token
    ShopToken = shop
    Here = here
    There = there
    Worlds <- All
    Batch = 1
    MaxRenewals = 1
    MaxUnsure = 1
SPECIFICATION FairSpec
CHECK_DEADLOCK FALSE
INVARIANTS SecretsReadable StampedIsHeld ToldOnce StampMeansTold
PROPERTIES DueIsTold
