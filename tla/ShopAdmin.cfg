CONSTANTS
    Plans = {1, 2}
    Topups = {1, 2}
    Customers = {ann, ben}
    ann = ann
    ben = ben
    Buyer <- Buyers
    Owner = Owner
    System = System
    Slots = {s1, s2}
    Worlds <- Chosen
    MaxManagers = 1
    MaxSends = 3
    Tasks = {h1, h2}
    Cards = {1, 2}
    MaxPending = 1
    None = None
    Gone = Gone
SPECIFICATION CustomersSpec
CHECK_DEADLOCK FALSE
INVARIANTS OncePerKey MoneyAddsUp OneTrialAMonth
PROPERTIES EditsCompose
