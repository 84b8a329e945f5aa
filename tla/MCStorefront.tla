---------------------------- MODULE MCStorefront ----------------------------
(* Small instances of StorefrontOrders for TLC.                            *)
EXTENDS StorefrontOrders, TLC

\* One customer; workers of the bot and of the API or the scheduler.
OneBuyer == [o \in Orders |-> CHOOSE c \in Customers : TRUE]

CONSTANTS bot, bot2, api, sched
Process == [w \in Workers |-> IF w = bot2 THEN bot ELSE w]

\* Holds and orders are interchangeable.
Symmetry == Permutations(Holds) \cup Permutations(Orders)

\* The customer in the bot, the admin in the portal, the scheduler.  The trial, which
\* moves no money, is in the other run; a customer's disarm is the step of the sweep's.
AllJobs == [w \in Workers |->
    IF w = bot THEN {"buy", "arm"}
    ELSE IF w = api THEN {"grant", "delete", "pause", "resume"}
    ELSE {"fire", "sweep"}]

\* Without pause and resume, whose late writes are run by themselves: two tasks of the
\* bot's process, the portal and the scheduler, which deletes, disarms and fires overlap in.
SaleJobs == [w \in Workers |->
    IF w = bot THEN {"buy", "trial"} ELSE IF w = bot2 THEN {"arm", "disarm"}
    ELSE IF w = api THEN {"grant", "delete"} ELSE {"fire", "sweep"}]

ArmPauseJobs == [w \in Workers |-> IF w = bot THEN {"buy", "arm"} ELSE {"pause"}]
FirePauseJobs == [w \in Workers |->
    IF w = bot THEN {"buy", "arm"} ELSE IF w = api THEN {"pause"} ELSE {"fire"}]

=============================================================================
