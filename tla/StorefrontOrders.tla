-------------------------- MODULE StorefrontOrders --------------------------
(***************************************************************************)
(* Orders, wallet and auto-renewal of a shop's customers.                  *)
(*                                                                         *)
(* A purchase, a trial and a renewal are sequences of short transactions   *)
(* with panel calls between them.  Each transaction and each panel call is *)
(* one step of a worker; workers of the bot, the API and the scheduler     *)
(* interleave, and a process may crash between any two steps.  Only the    *)
(* customer lock, an asyncio.Lock that exists once per process, keeps two  *)
(* workers of ONE process apart.  arm, disarm and the sweep decide on the  *)
(* order object they loaded before they waited for that lock: the lock     *)
(* query does not refresh an object the session already has.               *)
(*                                                                         *)
(* The reaper holds the order's row lock across its panel calls, and the   *)
(* lease it respects (at least 300 s) outlives the two 90 s panel calls of *)
(* a live worker, so one order it decides is one step and never an order a *)
(* live worker is busy with.  Every price is one unit.                     *)
(***************************************************************************)
EXTENDS Naturals, FiniteSets

CONSTANTS
    Orders,             \* storefront_orders rows
    Holds,              \* hold rows; a hold is also the operation id of its renewal
    Grants,             \* operation ids of the free renewals an admin makes
    Customers, BuyerOf, \* the customer of each order
    Funds,              \* what each customer has topped up
    Workers, ProcOf,    \* concurrent calls and the process each one runs in
    Jobs,               \* the handlers each worker may run
    CreateMayTimeOut,   \* may create_user fail at the client and succeed on the panel?
    None

ASSUME BuyerAssumption == BuyerOf \in [Orders -> Customers]
ASSUME FundsAssumption == Funds \in Nat
ASSUME RenewalsAssumption == Holds \cap Grants = {}
ASSUME SalesAssumption == Orders \cap Holds = {}
ASSUME NoneAssumption == None \notin Orders \cup Holds \cup Grants
ASSUME TimeOutAssumption == CreateMayTimeOut \in BOOLEAN

Renewals == Holds \cup Grants

VARIABLES
    order,      \* order rows
    buy,        \* status of each order's purchase operation
    refunded,   \* orders with a refund row
    op,         \* renewal operations
    hold,       \* auto-renew reservations in the wallet ledger
    wallet,     \* spendable balance of each customer
    trialUsed,  \* customers whose free trial is used
    user,       \* the panel user of each order
    worker      \* what each worker is doing

dbVars == <<order, buy, refunded, op, hold, wallet, trialUsed>>
vars == <<dbVars, user, worker>>

Active == {"provisioned", "disabled"}
OrderStatus == Active \cup {"none", "pending", "renewing", "failed", "deleted"}
OpStatus == {"none", "in_progress", "done", "failed", "reversed"}

OrderRow == [status : OrderStatus, trial : BOOLEAN, armed : Holds \cup {None},
             by : Renewals \cup {None}]
OpRow == [status : OpStatus, order : Orders \cup {None}, prior : OrderStatus,
          target : BOOLEAN, applied : BOOLEAN, repaid : BOOLEAN]
HoldRow == [status : {"none", "held", "released", "settled"}, order : Orders \cup {None}]

\* Where a worker stands.  It holds the customer lock exactly at the steps in Locked.
Locked == {"create", "record", "prepare", "debit", "apply", "finish", "repay", "remove", "mark"}
Place == Locked \cup {"none", "due", "claim", "look", "disarm", "arm", "switch", "show"}
Job == {"buy", "trial", "grant", "fire", "arm", "disarm", "sweep", "delete", "pause", "resume"}

\* A worker remembers the order status it read (seen), the hold it read on the
\* order (saw) and whether its panel call succeeded (ok).
WorkerState == [job : Job \cup {"idle"}, at : Place, o : Orders \cup {None},
                r : Renewals \cup {None}, seen : OrderStatus, saw : Holds \cup {None},
                ok : BOOLEAN]

TypeOK ==
    /\ order \in [Orders -> OrderRow]
    /\ buy \in [Orders -> {"none", "in_progress", "done", "failed"}]
    /\ refunded \subseteq Orders
    /\ op \in [Renewals -> OpRow]
    /\ hold \in [Holds -> HoldRow]
    /\ wallet \in [Customers -> Nat]
    /\ trialUsed \subseteq Customers
    /\ user \in [Orders -> {"absent", "on", "off"}]
    /\ worker \in [Workers -> WorkerState]

Idle == [job |-> "idle", at |-> "none", o |-> None, r |-> None, seen |-> "none",
         saw |-> None, ok |-> FALSE]

Init ==
    /\ order = [o \in Orders |-> [status |-> "none", trial |-> FALSE, armed |-> None, by |-> None]]
    /\ buy = [o \in Orders |-> "none"]
    /\ refunded = {}
    /\ op = [r \in Renewals |-> [status |-> "none", order |-> None, prior |-> "none",
                                 target |-> FALSE, applied |-> FALSE, repaid |-> FALSE]]
    /\ hold = [h \in Holds |-> [status |-> "none", order |-> None]]
    /\ wallet = [c \in Customers |-> Funds]
    /\ trialUsed = {}
    /\ user = [o \in Orders |-> "absent"]
    /\ worker = [w \in Workers |-> Idle]

-----------------------------------------------------------------------------
(* Workers, locks and leases.                                              *)

At(w, place) == worker[w].at = place
OrderOf(w) == worker[w].o
Renewal(w) == worker[w].r

MayStart(w, job) == worker[w] = Idle /\ job \in Jobs[w]
Begin(w, job, place, o) ==
    worker' = [worker EXCEPT ![w] = [Idle EXCEPT !.job = job, !.at = place, !.o = o]]
BeginRenewal(w, job, o, r) ==
    worker' = [worker EXCEPT ![w] = [Idle EXCEPT !.job = job, !.at = "claim", !.o = o, !.r = r,
                                       !.seen = order[o].status]]
BeginDisarm(w, job, o) ==
    worker' = [worker EXCEPT ![w] = [Idle EXCEPT !.job = job, !.at = "disarm", !.o = o,
                                       !.saw = order[o].armed]]
Goto(w, place) == worker' = [worker EXCEPT ![w].at = place]
End(w) == worker' = [worker EXCEPT ![w] = Idle]

\* fire tears the arm down when its renewal definitely failed; a grant just ends.
Failed(w) == IF worker[w].job = "fire" THEN Goto(w, "look") ELSE End(w)

\* No other worker of this process is busy with this customer.
LockFree(w, o) ==
    \A v \in Workers \ {w} :
        ProcOf[v] = ProcOf[w] /\ worker[v].at \in Locked => BuyerOf[worker[v].o] # BuyerOf[o]

Leased(o) ==
    \E w \in Workers :
        worker[w].o = o /\ worker[w].at \in {"create", "record", "prepare", "debit", "apply", "finish"}

\* Set another status than renewing: the order leaves the renewal that claimed it.
Left(row, status) == [row EXCEPT !.status = status, !.by = None]
SetStatus(o, status) == order' = [order EXCEPT ![o] = Left(@, status)]
Pay(c, n) == wallet' = [wallet EXCEPT ![c] = @ - n]
Credit(c, n) == wallet' = [wallet EXCEPT ![c] = @ + n]

\* Mutant of Release: it does not ask whether the hold is still held.
ReleaseAgain(h, o) ==
    IF h # None
    THEN hold' = [hold EXCEPT ![h].status = "released"] /\ Credit(BuyerOf[o], 1)
    ELSE UNCHANGED <<hold, wallet>>

\* release_hold: idempotent, whoever comes second releases nothing.
Release(h, o) ==
    IF h # None /\ hold[h].status = "held"
    THEN hold' = [hold EXCEPT ![h].status = "released"] /\ Credit(BuyerOf[o], 1)
    ELSE UNCHANGED <<hold, wallet>>

-----------------------------------------------------------------------------
(* Buying a plan and claiming the free trial.                              *)

\* The order, its lease, the debit and the operation are committed together.
Buy(w, o) ==
    /\ MayStart(w, "buy") /\ order[o].status = "none" /\ LockFree(w, o)
    /\ wallet[BuyerOf[o]] >= 1
    /\ SetStatus(o, "pending")
    /\ buy' = [buy EXCEPT ![o] = "in_progress"]
    /\ Pay(BuyerOf[o], 1)
    /\ Begin(w, "buy", "create", o)
    /\ UNCHANGED <<refunded, op, hold, trialUsed, user>>

\* The flag is compared and set under the customer's row lock.
Trial(w, o) ==
    /\ MayStart(w, "trial") /\ order[o].status = "none" /\ LockFree(w, o)
    /\ BuyerOf[o] \notin trialUsed
    /\ order' = [order EXCEPT ![o].status = "pending", ![o].trial = TRUE]
    /\ trialUsed' = trialUsed \cup {BuyerOf[o]}
    /\ Begin(w, "trial", "create", o)
    /\ UNCHANGED <<buy, refunded, op, hold, wallet, user>>

\* create_user under the uuid the order already carries: it succeeds, it is
\* refused, or the connection fails after the panel has made the user.
CreateUser(w, made, ok) ==
    /\ At(w, "create")
    /\ ok => made
    /\ made /\ ~ok => CreateMayTimeOut
    /\ user' = [user EXCEPT ![OrderOf(w)] = IF made THEN "on" ELSE @]
    /\ worker' = [worker EXCEPT ![w].at = "record", ![w].ok = ok]
    /\ UNCHANGED dbVars

\* Step 3 of purchase.  An order someone else decided keeps that outcome, and the
\* refund is paid unless it was.
FinishBuy(w) ==
    LET o == OrderOf(w)
        mine == order[o].status = "pending"
        sold == IF mine THEN worker[w].ok ELSE order[o].status = "provisioned"
    IN  /\ At(w, "record") /\ worker[w].job = "buy"
        /\ SetStatus(o, IF ~mine THEN order[o].status ELSE IF sold THEN "provisioned" ELSE "failed")
        /\ buy' = [buy EXCEPT ![o] = IF sold THEN "done" ELSE "failed"]
        /\ refunded' = IF sold THEN refunded ELSE refunded \cup {o}
        /\ Credit(BuyerOf[o], IF sold \/ o \in refunded THEN 0 ELSE 1)
        /\ End(w)
        /\ UNCHANGED <<op, hold, trialUsed, user>>

\* A failed trial may be claimed again.
FinishTrial(w) ==
    LET o == OrderOf(w)
    IN  /\ At(w, "record") /\ worker[w].job = "trial"
        /\ SetStatus(o, IF worker[w].ok THEN "provisioned" ELSE "failed")
        /\ trialUsed' = IF worker[w].ok THEN trialUsed ELSE trialUsed \ {BuyerOf[o]}
        /\ End(w)
        /\ UNCHANGED <<buy, refunded, op, hold, wallet, user>>

-----------------------------------------------------------------------------
(* Renewing: by an admin for free, or by the sweep with the armed hold.    *)

\* Step 0 of renew, a read: the status is remembered as the one to restore.
GrantRead(w, o, g) ==
    /\ MayStart(w, "grant") /\ order[o].status \in Active /\ ~order[o].trial
    /\ BeginRenewal(w, "grant", o, g)
    /\ UNCHANGED <<dbVars, user>>

\* The bot's admin: no operation id is given, so every tap draws its own.
AdminRenew(w, o, g) ==
    /\ op[g].status = "none" /\ \A v \in Workers : worker[v].r # g
    /\ GrantRead(w, o, g)

\* The portal: the id comes from the order and the request's idempotency key, so a
\* retry meets the operation of the first request.
RenewOrder(w, o, g) ==
    /\ op[g].order \in {None, o} /\ \A v \in Workers : worker[v].r = g => worker[v].o = o
    /\ GrantRead(w, o, g)

\* Step 0 refuses: the branch is suspended, the plan deleted or its price below cost.
RenewRefused(w) == At(w, "claim") /\ Failed(w) /\ UNCHANGED <<dbVars, user>>

\* The armed orders the sweep looks at, in enabled shops.
Swept(o) == order[o].status = "provisioned" /\ order[o].armed # None /\ ~order[o].trial

\* The arm has outlived its hold: a renewal that was finished for it took the money.
Spent(o) == hold[order[o].armed].status # "held"

\* The first phase of the sweep picks an order that is nearly exhausted.
SweepFire(w, o) ==
    /\ MayStart(w, "fire") /\ Swept(o) /\ ~Spent(o)
    /\ Begin(w, "fire", "due", o)
    /\ UNCHANGED <<dbVars, user>>

\* The check against the live panel, before the fire.
LiveConfirm(o) == order[o].status = "provisioned" /\ order[o].armed # None

\* The second phase: the live check, fire and step 0 of renew read the order again,
\* which is one read here.
FireRead(w) ==
    LET o == OrderOf(w)
    IN  /\ At(w, "due") /\ LiveConfirm(o)
        /\ BeginRenewal(w, "fire", o, order[o].armed)
        /\ UNCHANGED <<dbVars, user>>

\* It is not armed, not provisioned or not due any more.
FireSkipped(w) == At(w, "due") /\ End(w) /\ UNCHANGED <<dbVars, user>>

\* The operation is known: replay what it came to, or report that it runs.
ClaimKnown(w) ==
    /\ At(w, "claim") /\ LockFree(w, OrderOf(w)) /\ op[Renewal(w)].status # "none"
    /\ IF op[Renewal(w)].status \in {"failed", "reversed"} THEN Failed(w) ELSE End(w)
    /\ UNCHANGED <<dbVars, user>>

\* Claim the operation and set the order to renewing, with a lease.
Claim(w) ==
    LET o == OrderOf(w)
        r == Renewal(w)
    IN  /\ At(w, "claim") /\ LockFree(w, o) /\ op[r].status = "none"
        /\ order[o].status \in Active
        /\ order' = [order EXCEPT ![o].status = "renewing", ![o].by = r]
        /\ op' = [op EXCEPT ![r].status = "in_progress", ![r].order = o,
                            ![r].prior = worker[w].seen]
        /\ Goto(w, "prepare")
        /\ UNCHANGED <<buy, refunded, hold, wallet, trialUsed, user>>

ClaimRefused(w) ==
    LET r == Renewal(w)
    IN  /\ At(w, "claim") /\ LockFree(w, OrderOf(w)) /\ op[r].status = "none"
        /\ order[OrderOf(w)].status \notin Active
        /\ op' = [op EXCEPT ![r].status = "failed", ![r].order = OrderOf(w)]
        /\ Failed(w)
        /\ UNCHANGED <<order, buy, refunded, hold, wallet, trialUsed, user>>

\* _restore_and_finalize("failed")
GiveUp(w) ==
    /\ order' = [order EXCEPT ![OrderOf(w)] =
                   IF @.status = "renewing" THEN Left(@, worker[w].seen) ELSE @]
    /\ op' = [op EXCEPT ![Renewal(w)].status = "failed"]
    /\ Failed(w)
    /\ UNCHANGED <<buy, refunded, hold, wallet, trialUsed, user>>

\* Step 2: the absolute panel target is computed from a panel read and stored.
Prepare(w) ==
    /\ At(w, "prepare") /\ user[OrderOf(w)] # "absent"
    /\ op[Renewal(w)].status = "in_progress"
    /\ op' = [op EXCEPT ![Renewal(w)].target = TRUE]
    /\ Goto(w, IF Renewal(w) \in Holds THEN "debit" ELSE "apply")
    /\ UNCHANGED <<order, buy, refunded, hold, wallet, trialUsed, user>>

PrepareFails(w) == At(w, "prepare") /\ GiveUp(w)

\* Step 3: settle_hold makes the reservation the payment, if it is still held.
Debit(w) ==
    /\ At(w, "debit") /\ hold[Renewal(w)].status = "held"
    /\ hold' = [hold EXCEPT ![Renewal(w)].status = "settled"]
    /\ Goto(w, "apply")
    /\ UNCHANGED <<order, buy, refunded, op, wallet, trialUsed, user>>

DebitFails(w) == At(w, "debit") /\ hold[Renewal(w)].status # "held" /\ GiveUp(w)

\* The panel user gets the target and is switched on.
Applied(o, r) ==
    /\ user[o] # "absent"
    /\ user' = [user EXCEPT ![o] = "on"]
    /\ op' = [op EXCEPT ![r].applied = TRUE]

\* Step 4.  A failed call may have reached the panel: the order stays renewing and
\* the call returns "processing".
Apply(w) ==
    /\ At(w, "apply")
    /\ Applied(OrderOf(w), Renewal(w))
    /\ Goto(w, "finish")
    /\ UNCHANGED <<order, buy, refunded, hold, wallet, trialUsed>>

\* Mutant of ApplyUncertain: every failed call is refunded.
ApplyRefunds(w) ==
    LET r == Renewal(w)
        charged == r \in Holds
    IN  /\ At(w, "apply")
        /\ \E reached \in BOOLEAN :
              /\ reached => user[OrderOf(w)] # "absent"
              /\ user' = [user EXCEPT ![OrderOf(w)] = IF reached THEN "on" ELSE @]
              /\ op' = [op EXCEPT ![r].applied = @ \/ reached, ![r].status = "reversed",
                                  ![r].repaid = charged]
        /\ SetStatus(OrderOf(w), worker[w].seen)
        /\ Credit(BuyerOf[OrderOf(w)], IF charged THEN 1 ELSE 0)
        /\ End(w)
        /\ UNCHANGED <<buy, refunded, hold, trialUsed>>

ApplyUncertain(w) ==
    /\ At(w, "apply")
    /\ Applied(OrderOf(w), Renewal(w)) \/ UNCHANGED <<op, user>>
    /\ End(w)
    /\ UNCHANGED <<order, buy, refunded, hold, wallet, trialUsed>>

\* Step 5: provisioned again, and the arm is spent.
Finish(w) ==
    LET o == OrderOf(w)
        r == Renewal(w)
    IN  /\ At(w, "finish") /\ order[o].status = "renewing"
        /\ order' = [order EXCEPT ![o] =
                       [Left(@, "provisioned") EXCEPT
                          !.armed = IF r \in Holds THEN None ELSE order[o].armed]]
        /\ op' = [op EXCEPT ![r].status = "done"]
        /\ End(w)
        /\ UNCHANGED <<buy, refunded, hold, wallet, trialUsed, user>>

\* Step 5 on an order that left renewing: the operation is reversed, and the
\* charge comes back in a transaction of its own.
FinishElsewhere(w) ==
    /\ At(w, "finish") /\ order[OrderOf(w)].status # "renewing"
    /\ op' = [op EXCEPT ![Renewal(w)].status = "reversed"]
    /\ IF Renewal(w) \in Holds THEN Goto(w, "repay") ELSE End(w)
    /\ UNCHANGED <<order, buy, refunded, hold, wallet, trialUsed, user>>

Repay(w) ==
    /\ At(w, "repay")
    /\ op' = [op EXCEPT ![Renewal(w)].repaid = TRUE]
    /\ Credit(BuyerOf[OrderOf(w)], IF op[Renewal(w)].repaid THEN 0 ELSE 1)
    /\ Failed(w)
    /\ UNCHANGED <<order, buy, refunded, hold, trialUsed, user>>

-----------------------------------------------------------------------------
(* Arming auto-renew and turning it off.                                   *)

\* arm loads the order; it will decide on this object.
ArmRead(w, o) ==
    /\ MayStart(w, "arm")
    /\ order[o].status = "provisioned" /\ ~order[o].trial /\ order[o].armed = None
    /\ Begin(w, "arm", "arm", o)
    /\ UNCHANGED <<dbVars, user>>

HeldOn(o) == {h \in Holds : hold[h].status = "held" /\ hold[h].order = o}

\* place_hold reads the wallet under its lock; the unique index on active holds
\* refuses a second one.
Arm(w, h) ==
    LET o == OrderOf(w)
    IN  /\ At(w, "arm") /\ LockFree(w, o)
        /\ hold[h].status = "none" /\ HeldOn(o) = {} /\ wallet[BuyerOf[o]] >= 1
        /\ hold' = [hold EXCEPT ![h] = [status |-> "held", order |-> o]]
        /\ Pay(BuyerOf[o], 1)
        /\ order' = [order EXCEPT ![o].armed = h]
        /\ End(w)
        /\ UNCHANGED <<buy, refunded, op, trialUsed, user>>

ArmRefused(w) ==
    /\ At(w, "arm") /\ LockFree(w, OrderOf(w))
    /\ HeldOn(OrderOf(w)) # {} \/ wallet[BuyerOf[OrderOf(w)]] = 0
    /\ End(w)
    /\ UNCHANGED <<dbVars, user>>

\* The plan was deleted or its price fell below cost: no hold is placed.
ArmDeclined(w) ==
    /\ At(w, "arm") /\ LockFree(w, OrderOf(w))
    /\ End(w)
    /\ UNCHANGED <<dbVars, user>>

\* disarm loads the order before it waits for the lock.
DisarmRead(w, job, o) ==
    /\ MayStart(w, job) /\ order[o].armed # None
    /\ BeginDisarm(w, job, o)
    /\ UNCHANGED <<dbVars, user>>

\* The customer's button arms an order that is not armed and disarms one that is.
AutorenewToggle(w, o) ==
    /\ order[o].status \in Active /\ ~order[o].trial
    /\ IF order[o].armed = None THEN ArmRead(w, o) ELSE DisarmRead(w, "disarm", o)

\* The renewal buttons of old messages only arm.
RenewLegacy(w, o) ==
    /\ order[o].status \in Active /\ ~order[o].trial /\ order[o].armed = None
    /\ ArmRead(w, o)

\* The sweep disarms, on the order of the one query it begins with: the hold is
\* spent, the plan is gone or its price fell below cost.
SweepDisarm(w, o) == Swept(o) /\ DisarmRead(w, "sweep", o)

\* disarm_quietly after a failed fire: a new session reads the order.
Look(w) ==
    /\ At(w, "look")
    /\ IF order[OrderOf(w)].armed = None THEN End(w)
       ELSE worker' = [worker EXCEPT ![w].at = "disarm", ![w].saw = order[OrderOf(w)].armed]
    /\ UNCHANGED <<dbVars, user>>

\* _disarm_locked releases the hold it saw and clears whatever is armed now.
Disarm(w) ==
    LET o == OrderOf(w)
    IN  /\ At(w, "disarm") /\ LockFree(w, o)
        /\ Release(worker[w].saw, o)
        /\ order' = [order EXCEPT ![o].armed = None]
        /\ End(w)
        /\ UNCHANGED <<buy, refunded, op, trialUsed, user>>

-----------------------------------------------------------------------------
(* Deleting, pausing and resuming a config.                                *)

\* Refused while a purchase or renewal works on the order; an armed hold is
\* released before the panel is called.
Delete(w, o) ==
    /\ MayStart(w, "delete") /\ LockFree(w, o)
    /\ order[o].status \in Active /\ ~Leased(o)
    /\ Release(order[o].armed, o)
    /\ order' = [order EXCEPT ![o].armed = None]
    /\ Begin(w, "delete", "remove", o)
    /\ UNCHANGED <<buy, refunded, op, trialUsed, user>>

RemoveUser(w) ==
    /\ At(w, "remove")
    /\ user' = [user EXCEPT ![OrderOf(w)] = "absent"]
    /\ Goto(w, "mark")
    /\ UNCHANGED dbVars

RemoveFails(w, gone) ==
    /\ At(w, "remove")
    /\ user' = IF gone THEN [user EXCEPT ![OrderOf(w)] = "absent"] ELSE user
    /\ End(w)
    /\ UNCHANGED dbVars

MarkDeleted(w) ==
    /\ At(w, "mark")
    /\ SetStatus(OrderOf(w), "deleted")
    /\ End(w)
    /\ UNCHANGED <<buy, refunded, op, hold, wallet, trialUsed, user>>

\* set_enabled reads the status and then calls the panel, without the lock.
ToggleRead(w, job, o) ==
    /\ MayStart(w, job) /\ order[o].status \in Active
    /\ Begin(w, job, "switch", o)
    /\ UNCHANGED <<dbVars, user>>

\* The customer may only resume; the pause button of old messages is refused.
CustomerResume(w, o) == order[o].status = "disabled" /\ ToggleRead(w, "resume", o)

\* The admin's button in the bot turns the status it read around.
AdminToggle(w, o) ==
    ToggleRead(w, IF order[o].status = "disabled" THEN "resume" ELSE "pause", o)

\* The portal's command says which of the two it wants, whatever the status.
SetOrderEnabled(w, o) == \E job \in {"pause", "resume"} : ToggleRead(w, job, o)

Switched(w) ==
    /\ user[OrderOf(w)] # "absent"
    /\ user' = [user EXCEPT ![OrderOf(w)] = IF worker[w].job = "resume" THEN "on" ELSE "off"]

Switch(w) == At(w, "switch") /\ Switched(w) /\ Goto(w, "show") /\ UNCHANGED dbVars

SwitchFails(w) ==
    /\ At(w, "switch")
    /\ Switched(w) \/ UNCHANGED user
    /\ End(w)
    /\ UNCHANGED dbVars

\* A pause takes the lock, releases the hold it finds and marks the order
\* disabled; a resume marks it provisioned.  Neither looks at the status again.
ShowPaused(w) ==
    LET o == OrderOf(w)
    IN  /\ At(w, "show") /\ worker[w].job = "pause" /\ LockFree(w, o)
        /\ Release(order[o].armed, o)
        /\ order' = [order EXCEPT ![o] = [Left(@, "disabled") EXCEPT !.armed = None]]
        /\ End(w)
        /\ UNCHANGED <<buy, refunded, op, trialUsed, user>>

ShowResumed(w) ==
    /\ At(w, "show") /\ worker[w].job = "resume"
    /\ SetStatus(OrderOf(w), "provisioned")
    /\ End(w)
    /\ UNCHANGED <<buy, refunded, op, hold, wallet, trialUsed, user>>

-----------------------------------------------------------------------------
(* Crashes and the reaper.                                                 *)

Crash(p) ==
    /\ worker' = [w \in Workers |-> IF ProcOf[w] = p THEN Idle ELSE worker[w]]
    /\ worker' # worker
    /\ UNCHANGED <<dbVars, user>>

\* Mutant of ReapPurchase: it refunds without asking the panel.
ReapUnasked(o) ==
    /\ order[o].status = "pending" /\ ~Leased(o)
    /\ SetStatus(o, "failed")
    /\ buy' = [buy EXCEPT ![o] = IF @ = "in_progress" THEN "failed" ELSE @]
    /\ refunded' = IF order[o].trial THEN refunded ELSE refunded \cup {o}
    /\ Credit(BuyerOf[o], IF order[o].trial \/ o \in refunded THEN 0 ELSE 1)
    /\ trialUsed' = IF order[o].trial THEN trialUsed \ {BuyerOf[o]} ELSE trialUsed
    /\ UNCHANGED <<op, hold, user, worker>>

\* A pending order without a live lease: complete it if the panel has the user,
\* otherwise refund it once, or give the trial back.
ReapPurchase(o) ==
    LET there == user[o] # "absent"
        paysBack == ~there /\ ~order[o].trial
    IN  /\ order[o].status = "pending" /\ ~Leased(o)
        /\ SetStatus(o, IF there THEN "provisioned" ELSE "failed")
        /\ buy' = [buy EXCEPT ![o] = IF @ # "in_progress" THEN @ ELSE IF there THEN "done" ELSE "failed"]
        /\ refunded' = IF paysBack THEN refunded \cup {o} ELSE refunded
        /\ Credit(BuyerOf[o], IF paysBack /\ o \notin refunded THEN 1 ELSE 0)
        /\ trialUsed' = IF order[o].trial /\ ~there THEN trialUsed \ {BuyerOf[o]} ELSE trialUsed
        /\ UNCHANGED <<op, hold, user, worker>>

Paid(r) == r \in Holds /\ hold[r].status = "settled"

\* Mutant of Stuck: only charged renewals are looked for.
StuckPaid(o) ==
    /\ order[o].status = "renewing" /\ ~Leased(o)
    /\ Paid(order[o].by) /\ op[order[o].by].status = "in_progress"

\* A renewing order without a live lease, whose last operation never ended.
Stuck(o) == order[o].status = "renewing" /\ ~Leased(o) /\ op[order[o].by].status = "in_progress"

\* Charged, with a target the panel can be asked for.
Forward(o) == op[order[o].by].target /\ (Paid(order[o].by) \/ order[o].by \in Grants)

\* Never charged, or the panel no longer has the user: the order goes back to the
\* status it had and a charge is reversed.
ReapBack(o) ==
    LET r == order[o].by
    IN  /\ Stuck(o) /\ (~Forward(o) \/ user[o] = "absent")
        /\ SetStatus(o, op[r].prior)
        /\ op' = [op EXCEPT ![r].status = IF Paid(r) THEN "reversed" ELSE "failed",
                            ![r].repaid = Paid(r)]
        /\ Credit(BuyerOf[o], IF Paid(r) THEN 1 ELSE 0)
        /\ UNCHANGED <<buy, refunded, hold, trialUsed, user, worker>>

\* The target is applied, again if need be, and the renewal completed.
ReapForward(o) ==
    LET r == order[o].by
    IN  /\ Stuck(o) /\ Forward(o) /\ user[o] # "absent"
        /\ user' = [user EXCEPT ![o] = "on"]
        /\ op' = [op EXCEPT ![r].applied = TRUE, ![r].status = "done"]
        /\ SetStatus(o, "provisioned")
        /\ UNCHANGED <<buy, refunded, hold, wallet, trialUsed, worker>>

\* The reaper's own call fails, or it crashes, after the panel applied the target.
ReapUncertain(o) ==
    /\ Stuck(o) /\ Forward(o)
    /\ Applied(o, order[o].by)
    /\ UNCHANGED <<order, buy, refunded, hold, wallet, trialUsed, worker>>

-----------------------------------------------------------------------------
Start(w) ==
    \E o \in Orders :
        \/ Buy(w, o) \/ Trial(w, o) \/ Delete(w, o)
        \/ SweepFire(w, o) \/ SweepDisarm(w, o)
        \/ AutorenewToggle(w, o) \/ RenewLegacy(w, o)
        \/ \E g \in Grants : AdminRenew(w, o, g) \/ RenewOrder(w, o, g)
        \/ CustomerResume(w, o) \/ AdminToggle(w, o) \/ SetOrderEnabled(w, o)

Decline(w) == RenewRefused(w) \/ ArmDeclined(w)

Acquire(w) ==
    \/ ClaimKnown(w) \/ Claim(w) \/ ClaimRefused(w)
    \/ ArmRefused(w) \/ Disarm(w) \/ ShowPaused(w)
    \/ \E h \in Holds : Arm(w, h)

Proceed(w) ==
    \/ \E made, ok \in BOOLEAN : CreateUser(w, made, ok)
    \/ FinishBuy(w) \/ FinishTrial(w) \/ FireRead(w) \/ FireSkipped(w)
    \/ Prepare(w) \/ PrepareFails(w) \/ Debit(w) \/ DebitFails(w)
    \/ Apply(w) \/ ApplyUncertain(w) \/ Finish(w) \/ FinishElsewhere(w) \/ Repay(w)
    \/ Look(w)
    \/ RemoveUser(w) \/ \E gone \in BOOLEAN : RemoveFails(w, gone)
    \/ MarkDeleted(w) \/ Switch(w) \/ SwitchFails(w) \/ ShowResumed(w)

Reap(o) == ReapPurchase(o) \/ ReapBack(o) \/ ReapForward(o)

Next ==
    \/ \E w \in Workers : Start(w) \/ Decline(w) \/ Acquire(w) \/ Proceed(w) \/ Crash(ProcOf[w])
    \/ \E o \in Orders : Reap(o) \/ ReapUncertain(o)

Spec == Init /\ [][Next]_vars

(***************************************************************************)
(* A worker goes on unless its process crashes, waiters get an             *)
(* asyncio.Lock in their order of arrival, and the reaper, a job of every  *)
(* few minutes, gets through to the panel eventually.                      *)
(***************************************************************************)
Fairness ==
    /\ \A w \in Workers : WF_vars(Proceed(w)) /\ SF_vars(Acquire(w))
    /\ \A o \in Orders : WF_vars(Reap(o))

FairSpec == Spec /\ Fairness

-----------------------------------------------------------------------------
(* What the rows and the workers say of each other: the inductive invariant  *)
(* behind ImplementsSales.                                                  *)

Creating(w) == At(w, "create") \/ At(w, "record")
Renewing(w) == worker[w].at \in {"prepare", "debit", "apply", "finish"}

\* A purchase in progress is a pending order's, and only a failed one is refunded.
PurchaseSound(o) ==
    /\ order[o].status = "none" => buy[o] = "none" /\ ~order[o].trial
    /\ order[o].status = "pending" => buy[o] = IF order[o].trial THEN "none" ELSE "in_progress"
    /\ o \in refunded => buy[o] = "failed"

\* A hold has an order from the moment it is placed.
HoldSound(h) == hold[h].status = "none" => hold[h].order = None

\* A renewal is paid back only when it is reversed, and one in progress knows its order
\* and the status to restore.
RenewalSound(r) ==
    /\ op[r].repaid => op[r].status = "reversed"
    /\ op[r].status = "in_progress"
       => /\ op[r].order \in Orders /\ op[r].prior \in Active
          /\ r \in Holds => hold[r].order = op[r].order

\* The hold armed on an order is of this order, and so is the renewal it is in.
OrderSound(o) ==
    /\ order[o].armed # None => hold[order[o].armed].order = o
    /\ order[o].status = "renewing"
       => order[o].by # None /\ op[order[o].by].order = o /\ op[order[o].by].status # "none"

\* A worker on a new order is the one that creates it.
CreatorSound(w) ==
    /\ Creating(w) => /\ worker[w].job \in {"buy", "trial"}
                      /\ order[OrderOf(w)].status = "pending"
                      /\ order[OrderOf(w)].trial = (worker[w].job = "trial")
    /\ ~At(w, "none") => /\ OrderOf(w) \in Orders
                         /\ Creating(w) \/ order[OrderOf(w)].status \notin {"none", "pending"}

\* A worker on a renewal: its hold is of the order, its operation is in progress, and
\* what it paid stays paid until it is done.
RenewerSound(w) ==
    LET r == Renewal(w)
    IN  /\ At(w, "claim") \/ At(w, "repay") \/ Renewing(w)
           => /\ r \in Renewals /\ worker[w].seen \in Active
              /\ r \in Holds => hold[r].order = OrderOf(w)
        /\ At(w, "repay") => /\ r \in Holds /\ hold[r].status = "settled"
                             /\ op[r].status = "reversed"
        /\ Renewing(w) => op[r].order = OrderOf(w) /\ op[r].status = "in_progress"
        /\ At(w, "debit") => r \in Holds
        /\ (At(w, "apply") \/ At(w, "finish")) /\ r \in Holds => hold[r].status = "settled"
        /\ At(w, "disarm") /\ worker[w].saw # None => hold[worker[w].saw].order = OrderOf(w)

\* No two workers create one order or work on one renewal.
WorkersApart ==
    \A v, w \in Workers :
        v # w => /\ Creating(v) /\ Creating(w) => OrderOf(v) # OrderOf(w)
                 /\ Renewing(v) /\ Renewing(w) => Renewal(v) # Renewal(w)

SalesInv ==
    /\ TypeOK /\ WorkersApart
    /\ \A o \in Orders : PurchaseSound(o) /\ OrderSound(o)
    /\ \A h \in Holds : HoldSound(h)
    /\ \A r \in Renewals : RenewalSound(r)
    /\ \A w \in Workers : CreatorSound(w) /\ RenewerSound(w)

\* Behind RefundedHasNoUser, when no create is ambiguous: the panel has no user for an
\* order that does not exist or was refunded, and a creator knows what it made.
ConfigSound(o) == order[o].status = "none" \/ o \in refunded => user[o] = "absent"

CallSound(w) ==
    /\ At(w, "create") => user[OrderOf(w)] = "absent"
    /\ At(w, "record") => (worker[w].ok <=> user[OrderOf(w)] # "absent")

RefundInv == (\A o \in Orders : ConfigSound(o)) /\ \A w \in Workers : CallSound(w)

\* Behind NoFreeRenewal, when no worker pauses or resumes: a renewal owns its order until
\* it ends or the config is gone, and nothing is charged before the target is stored.
QuotaSound(r) ==
    /\ op[r].status # "none" => /\ op[r].order \in Orders
                                /\ order[op[r].order].status \notin {"none", "pending"}
    /\ op[r].status = "reversed" /\ op[r].applied => user[op[r].order] = "absent"
    /\ r \in Holds /\ hold[r].status = "settled" => op[r].target

OwnerSound(w) ==
    /\ Renewing(w) => \/ user[OrderOf(w)] = "absent"
                      \/ order[OrderOf(w)].status = "renewing" /\ order[OrderOf(w)].by = Renewal(w)
    /\ At(w, "debit") => op[Renewal(w)].target
    /\ At(w, "mark") => user[OrderOf(w)] = "absent"
    /\ ~At(w, "switch") /\ ~At(w, "show")

QuotaInv == (\A r \in Renewals : QuotaSound(r)) /\ \A w \in Workers : OwnerSound(w)

-----------------------------------------------------------------------------
(* Properties.                                                             *)

\* What became of the money of a purchase, and of an auto-renewal.
SaleOfOrder(o) ==
    IF buy[o] = "none" THEN "idle"
    ELSE IF o \in refunded THEN "returned"
    ELSE IF buy[o] = "done" THEN "delivered" ELSE "paid"

SaleOfHold(h) ==
    CASE hold[h].status = "none" -> "idle"
      [] hold[h].status = "held" -> "reserved"
      [] hold[h].status = "released" -> "returned"
      [] hold[h].status = "settled" ->
           IF op[h].repaid THEN "returned"
           ELSE IF op[h].status = "done" THEN "delivered" ELSE "paid"

Sale(x) == IF x \in Orders THEN SaleOfOrder(x) ELSE SaleOfHold(x)

Buyer(x) ==
    CASE x \in Orders /\ buy[x] # "none" -> BuyerOf[x]
      [] x \in Holds /\ hold[x].order # None -> BuyerOf[hold[x].order]
      [] OTHER -> None

Contract == INSTANCE StorefrontSales WITH
                Sales <- Orders \cup Holds, NoBuyer <- None, purse <- wallet,
                sale <- [x \in Orders \cup Holds |-> Sale(x)],
                buyer <- [x \in Orders \cup Holds |-> Buyer(x)]

\* Whatever interleaves and crashes, money leaves the wallet once per sale, comes
\* back at most once, and never for a sale that was delivered (storefront_ops.py,
\* storefront_wallet.py: "exactly-once").
ImplementsSales == Contract!Spec

\* Every reservation is armed on an order, so a fire, a disarm or a delete can give it back
\* (arm and _disarm_locked write the hold and the columns together).  It holds while nothing
\* is disarmed or deleted: a sweep's disarm clears the columns of a newer hold.
HoldsAreArmed ==
    \A h \in Holds : hold[h].status = "held" => \E o \in Orders : order[o].armed = h

\* A reservation is on an order the sweep can fire or a renewal works on
\* (set_enabled: an arm that survives a pause is money locked up).
HeldOnLive ==
    \A o \in Orders : HeldOn(o) # {} => order[o].status \in {"provisioned", "renewing"}

\* A renewal whose money came back left no quota on a panel user (renew, step 5:
\* "granted to a config that has since been removed").
NoFreeRenewal ==
    \A h \in Holds : op[h].repaid /\ op[h].applied => user[op[h].order] = "absent"

\* A refunded purchase left no config on the panel.
RefundedHasNoUser == \A o \in refunded : user[o] = "absent"

\* Every sale ends: no order stays pending or renewing, the call that owns it or the
\* reaper ends it, and money that was taken buys something or comes back; only a renewal
\* whose config was deleted while nobody knew what became of it is left alone.
Deleted(h) == \E o \in Orders : hold[h].order = o /\ order[o].status = "deleted"
SalesEnd ==
    /\ \A o \in Orders : order[o].status \in {"pending", "renewing"}
                         ~> order[o].status \notin {"pending", "renewing"}
    /\ \A o \in Orders : SaleOfOrder(o) = "paid" ~> SaleOfOrder(o) \in {"delivered", "returned"}
    /\ \A h \in Holds : SaleOfHold(h) = "paid" ~> SaleOfHold(h) \in {"delivered", "returned"} \/ Deleted(h)

=============================================================================
