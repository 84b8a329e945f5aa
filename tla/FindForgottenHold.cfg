CONSTANTS
    Orders = {o1}
    Holds = {h1, h2}
    Grants = {}
    Customers = {c1}
    Funds = 3
    Workers = {bot, bot2, api, sched}
    bot = bot
    bot2 = bot2
    api = api
    sched = sched
    BuyerOf <- OneBuyer
    ProcOf <- Process
    Jobs <- SaleJobs
    CreateMayTimeOut = FALSE
    None = None
SPECIFICATION Spec
CHECK_DEADLOCK FALSE
INVARIANTS HoldsAreArmed
