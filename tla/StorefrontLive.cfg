CONSTANTS
    Orders = {o1}
    Holds = {h1, h2}
    Grants = {g1}
    Customers = {c1}
    Funds = 3
    Workers = {bot, bot2, api, sched}
    bot = bot
    bot2 = bot2
    api = api
    sched = sched
    BuyerOf <- OneBuyer
    ProcOf <- Process
    Jobs <- SaleJobs
    CreateMayTimeOut = FALSE
    None = None
SPECIFICATION FairSpec
CHECK_DEADLOCK FALSE
INVARIANTS NoFreeRenewal RefundedHasNoUser
PROPERTY SalesEnd
