CONSTANTS
    Orders = {o1}
    Holds = {h1}
    Grants = {}
    Customers = {c1}
    Funds = 2
    Workers = {bot, api}
    bot = bot
    bot2 = bot2
    api = api
    sched = sched
    BuyerOf <- OneBuyer
    ProcOf <- Process
    Jobs <- ArmPauseJobs
    CreateMayTimeOut = FALSE
    None = None
SYMMETRY Symmetry
SPECIFICATION Spec
CHECK_DEADLOCK FALSE
INVARIANTS HeldOnLive
