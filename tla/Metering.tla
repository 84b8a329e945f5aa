------------------------------ MODULE Metering ------------------------------
(***************************************************************************)
(* What a panel's users are billed for: the sync copies their quota, usage *)
(* and start date, the meter turns the differences into extra volume, and  *)
(* at the end of a month quota and extra volume make the invoice.          *)
(*                                                                         *)
(* Volumes are whole gigabytes, so the 0.05 GB of slack in the comparisons *)
(* disappears.  A month has MonthLen days; the sync's clock, the owner's   *)
(* and the panel's are one.  A fetch is read from the panel in one step    *)
(* and written at any later one, as its upload and the waits for the gate  *)
(* and the panel's lock allow; the write holds the lock and is one step.   *)
(***************************************************************************)
EXTENDS Integers, FiniteSets, Functions

CONSTANTS
    Users, AddedBy,     \* panel users and the admin of each
    Attempts,           \* syncs under way at once
    Worlds,             \* sets of what happens at all, one of them in each behaviour
    Sizes,              \* volumes a package can have
    MonthLen, MaxDay,   \* days of a month, and the last day
    MaxOps,             \* bound on what happens on the panel
    MinUsers, MinAdmins,    \* _ROLLBACK_MIN_USERS, _ROLLBACK_MIN_ADMINS
    ResetFloor,         \* _RESET_FLOOR_GB
    Tolerance,          \* overage_tolerance_gb
    Free, FullOver,     \* free_under_gb, deleted_full_quota_over_gb
    TrialUser, ShopUser,    \* a user, which may be a free trial, and one that a shop may have sold
    None

ASSUME SizesAssumption == Sizes \subseteq Nat \ {0} /\ IsFiniteSet(Sizes) /\ Sizes # {}
ASSUME DaysAssumption == MonthLen \in Nat \ {0} /\ MaxDay \in Nat \ {0}
ASSUME ThresholdsAssumption ==
    {MinUsers, MinAdmins, ResetFloor, Tolerance, Free, FullOver, MaxOps} \subseteq Nat

VARIABLES
    day,
    panel,      \* users of the panel, with quota, usage and start date (0: not connected yet)
    backup,     \* the panel's latest backup
    fetched,    \* what each running sync has read, and whether a newer one has committed since
    snap,       \* end_user_snapshots
    meter,      \* usage_meters of each user and month
    bill,       \* volume invoiced for each user and month, once the invoice is out
    world,      \* what happens in this behaviour
    ops,        \* how often it happened on the panel so far
    sold,       \* history: volume sold to each user
    excess,     \* history: what each user's traffic took beyond the quota of its cycle
    again,      \* history: the part of excess that a restored counter only repeated
    closed,     \* history: what was metered of cycles begun and renewed in one month
    blind,      \* history: users whose counter a restore moved without a sync recognising it
    twice       \* history: users whose top-up is on two months' invoices

panelVars == <<panel, backup, sold, excess, again, closed, ops>>
vars == <<day, fetched, snap, meter, bill, blind, twice, world, panelVars>>

MonthOf(d) == (d + MonthLen - 1) \div MonthLen      \* period_of; 0 without a date
Trials == IF "trial" \in world THEN {TrialUser} ELSE {}
Shop == IF "shop" \in world THEN {ShopUser} ELSE {}
Months == 1..MonthOf(MaxDay)
Month == MonthOf(day)
Least(a, b) == IF a < b THEN a ELSE b
Minus(a, b) == IF a > b THEN a - b ELSE 0

\* As history, spent and quota are a cycle's real traffic and what was sold for it, repeat
\* is the part of the counter a restored backup took back, restores tells the latest restore
\* and dirty says that the counter went back in this cycle.  plan is storefront_orders.gb.
PanelUser == [limit : Nat, used : Nat, start : 0..MaxDay, plan : Nat, spent : Nat, quota : Nat,
              repeat : Nat, restores : Nat, dirty : BOOLEAN]
Snapshot == [limit : Nat, used : Nat, start : 0..MaxDay, prov : Nat, cons : Nat, init : BOOLEAN,
             here : BOOLEAN, plan : Nat, restores : Nat, dirty : BOOLEAN]
Meter == [renew : Nat, edit : Nat, resets : Nat, over : Nat]
NoMeter == [renew |-> 0, edit |-> 0, resets |-> 0, over |-> 0]
NewSnapshot == [limit |-> 0, used |-> 0, start |-> 0, prov |-> 0, cons |-> 0, init |-> FALSE,
                here |-> TRUE, plan |-> 0, restores |-> 0, dirty |-> FALSE]

TypeOK ==
    /\ day \in 1..MaxDay
    /\ panel \in [Users -> PanelUser \cup {None}]
    /\ backup \in [Users -> PanelUser \cup {None}] \cup {None}
    /\ fetched \in [Attempts -> {None} \cup [data : [Users -> PanelUser \cup {None}], late : BOOLEAN]]
    /\ snap \in [Users -> Snapshot \cup {None}]
    /\ meter \in [Users -> [Months -> Meter]]
    /\ bill \in [Months -> [Users -> Nat] \cup {None}]

Init ==
    /\ day = 1 /\ ops = 0 /\ world \in Worlds
    /\ panel = [u \in Users |-> None]
    /\ backup = None
    /\ fetched = [a \in Attempts |-> None]
    /\ snap = [u \in Users |-> None]
    /\ meter = [u \in Users |-> [m \in Months |-> NoMeter]]
    /\ bill = [m \in Months |-> None]
    /\ sold = [u \in Users |-> 0]
    /\ excess = [u \in Users |-> 0]
    /\ again = [u \in Users |-> 0]
    /\ closed = [u \in Users |-> [m \in Months |-> 0]]
    /\ blind = {} /\ twice = {}

-----------------------------------------------------------------------------
(* The panel: resellers, customers and the owner's migrations.             *)

On(op) == op \in world /\ ops < MaxOps /\ ops' = ops + 1
OnPanel == {u \in Users : panel[u] # None}
Quiet == UNCHANGED <<day, fetched, snap, meter, bill, blind, twice, world>>
Same == Quiet /\ UNCHANGED backup

Fresh(gb, used, start) ==
    [limit |-> used + gb, used |-> used, start |-> start, plan |-> gb, spent |-> used,
     quota |-> used + gb, repeat |-> 0, restores |-> 0, dirty |-> FALSE]
\* A user's uuid is used once; bound: users are made in the first month.
Create(u, gb) ==
    /\ Month = 1
    /\ u = TrialUser \/ "others" \in world
    /\ ops' = ops /\ panel[u] = None /\ snap[u] = None /\ sold[u] = 0
    /\ panel' = [panel EXCEPT ![u] = Fresh(gb, 0, 0)]
    /\ sold' = [sold EXCEPT ![u] = @ + gb]
    /\ UNCHANGED <<excess, again, closed>> /\ Same

\* The panel cuts a user off at its quota; the first connection starts the days.
Consume(u) ==
    /\ On("consume") /\ u \in OnPanel /\ panel[u].used < panel[u].limit
    /\ LET p == panel[u]
           beyond == IF p.spent + 1 > p.quota THEN 1 ELSE 0
       IN /\ panel' = [panel EXCEPT ![u] = [p EXCEPT !.used = @ + 1, !.spent = @ + 1,
                            !.repeat = Minus(@, 1), !.start = IF @ = 0 THEN day ELSE @]]
          /\ excess' = [excess EXCEPT ![u] = @ + beyond]
          /\ again' = IF p.repeat > 0 THEN [again EXCEPT ![u] = @ + beyond] ELSE again
    /\ UNCHANGED <<sold, closed>> /\ Same

\* Volume renewed without the days, again and again.
ResetUsage(u) ==
    /\ On("reset") /\ u \in OnPanel /\ panel[u].used > 0
    /\ panel' = [panel EXCEPT ![u].used = 0, ![u].dirty = TRUE]
    /\ UNCHANGED <<sold, excess, again, closed>> /\ Same

EditQuota(u) ==
    /\ On("edit") /\ u \in OnPanel
    /\ panel' = [panel EXCEPT ![u].limit = @ + 1, ![u].quota = @ + 1]
    /\ sold' = [sold EXCEPT ![u] = @ + 1]
    /\ UNCHANGED <<excess, again, closed>> /\ Same

\* RenewUserTarget clears usage and start date; the panel's own button dates the renewal
\* at once; an edit of quota and date keeps the usage.
Closing(u) ==
    IF snap[u] # None /\ panel[u].start # 0 /\ MonthOf(panel[u].start) = Month
    THEN Least(snap[u].cons, snap[u].prov) ELSE 0
Renew(u, gb, used, start) ==
    /\ panel' = [panel EXCEPT ![u] = [Fresh(gb, used, start) EXCEPT !.restores = panel[u].restores]]
    /\ sold' = [sold EXCEPT ![u] = @ + gb]
    /\ closed' = IF used = 0 THEN [closed EXCEPT ![u][Month] = @ + Closing(u)] ELSE closed
    /\ UNCHANGED <<excess, again>> /\ Same
RenewTarget(u, gb) ==
    /\ u \in OnPanel /\ panel[u].start # 0
    /\ On(IF panel[u].start < day THEN "renew" ELSE "renew same day") /\ Renew(u, gb, 0, 0)
RenewButton(u, gb) ==
    On("button") /\ u \in OnPanel /\ panel[u].start \in 1..(day - 1) /\ Renew(u, gb, 0, day)
RenewCarry(u, gb) ==
    /\ u \in OnPanel \ Shop /\ panel[u].start \in 1..(day - 1)
    /\ On(IF MonthOf(panel[u].start) = Month THEN "carry" ELSE "carry over")
    /\ Renew(u, gb, panel[u].used, day)

DeleteUser(u) ==
    /\ On("delete") /\ u \in OnPanel
    /\ panel' = [panel EXCEPT ![u] = None]
    /\ UNCHANGED <<sold, excess, again, closed>> /\ Same

BackUp ==
    /\ On("backup") /\ backup # panel
    /\ backup' = panel
    /\ UNCHANGED <<panel, sold, excess, again, closed>> /\ Quiet
\* A migration to another server: every counter is what it was at the backup, while what
\* the users really took stays taken.
Rewound(u) ==
    LET was == panel[u]
        then == backup[u]
    IN IF then = None THEN None
       ELSE IF was = None \/ was.start # then.start THEN [then EXCEPT !.restores = ops', !.dirty = TRUE]
       ELSE [was EXCEPT !.limit = then.limit, !.used = then.used, !.restores = ops',
                        !.repeat = @ + Minus(was.used, then.used)]
RestorePanel ==
    /\ On("backup") /\ backup \notin {None, panel}
    /\ panel' = [u \in Users |-> Rewound(u)]
    /\ UNCHANGED <<backup, sold, excess, again, closed>> /\ Quiet

Midnight ==
    /\ day < MaxDay /\ day' = day + 1
    /\ UNCHANGED <<fetched, snap, meter, bill, blind, twice, world, panelVars>>

-----------------------------------------------------------------------------
(* The sync.                                                               *)

\* detect_panel_rollback: counters that went back without a renewal, of several admins.
RenewedSince(s, p) == p.start # 0 /\ p.start > s.start
Dropped(data) ==
    {u \in Users : /\ data[u] # None /\ snap[u] # None /\ snap[u].init
                   /\ data[u].used < snap[u].used /\ ~RenewedSince(snap[u], data[u])}
PanelRollback(data) ==
    /\ Cardinality(Dropped(data)) >= MinUsers
    /\ Cardinality({AddedBy[u] : u \in Dropped(data)}) >= MinAdmins

\* compute: the running totals of a user and the month's meter after one more look.
Result(prov, cons, m) == [prov |-> prov, cons |-> cons, meter |-> m]
\* Mutant of Renewal: a cycle whose usage was carried over is banked too.
BanksCarriedUsage(s, p, m) ==
    LET banked == IF MonthOf(s.start) = Month THEN Least(s.cons, s.prov) ELSE 0
    IN Result(p.limit, p.used, [m EXCEPT !.renew = @ + banked, !.edit = 0])
Renewal(s, p, m) ==
    LET banked == IF p.used < s.used /\ MonthOf(s.start) = Month THEN Least(s.cons, s.prov) ELSE 0
    IN Result(p.limit, p.used, [m EXCEPT !.renew = @ + banked, !.edit = 0])

Measured(s, p, m, rollback) ==
    LET add == Minus(p.limit, s.limit)
        prov == s.prov + add
        back == rollback /\ p.used < s.used
        zeroed == ~back /\ p.used < s.used /\ p.used <= ResetFloor
        cons == IF back THEN Minus(s.cons, s.used - p.used) ELSE s.cons
        dc == IF back THEN 0 ELSE IF zeroed THEN p.used ELSE Minus(p.used, s.used)
    IN Result(prov, cons + dc,
              [m EXCEPT !.edit = @ + (IF MonthOf(p.start) = Month THEN 0 ELSE add),
                        !.resets = @ + (IF zeroed THEN 1 ELSE 0),
                        !.over = @ + Minus(dc, Minus(prov, cons))])

Compute(s, p, m, rollback) ==
    IF ~s.init THEN Result(p.limit, p.used, m)
    ELSE IF RenewedSince(s, p) THEN Renewal(s, p, m)
    ELSE Measured(s, p, m, rollback)

\* One user's snapshot; a failed meter keeps the quota, usage and date it compares with.
Stored(s, p, result) ==
    [limit |-> p.limit, used |-> p.used, start |-> p.start, prov |-> result.prov,
     cons |-> result.cons, init |-> TRUE, here |-> TRUE, plan |-> p.plan,
     restores |-> p.restores, dirty |-> p.dirty]
\* Mutant of Unmetered: only the date is kept.
UnmeteredAdvances(s, p) == [s EXCEPT !.here = TRUE, !.plan = p.plan, !.limit = p.limit, !.used = p.used]
Unmetered(s, p) == [s EXCEPT !.here = TRUE, !.plan = p.plan]

\* History: a top-up recorded for this month while the month whose base line carries the new
\* quota as well is not invoiced yet.
Straddles(u, data) ==
    /\ data[u] # None /\ snap[u] # None /\ data[u].limit > snap[u].limit
    /\ MonthOf(data[u].start) # Month
    /\ data[u].start = 0 \/ bill[MonthOf(data[u].start)] = None
\* History: a restore moved this user's counter, on or back, or its start.
Moved(u, data) ==
    /\ data[u] # None /\ snap[u] # None
    /\ data[u].restores # snap[u].restores
    /\ <<data[u].used, data[u].start>> # <<snap[u].used, snap[u].start>>

Fetch(a) ==
    /\ fetched[a] = None
    /\ "overlap" \in world \/ \A b \in Attempts : fetched[b] = None
    /\ fetched' = [fetched EXCEPT ![a] = [data |-> panel, late |-> FALSE]]
    /\ UNCHANGED <<day, snap, meter, bill, blind, twice, world, panelVars>>

\* Mutant of Superseded: an older fetch is written over a newer one.
NeverSuperseded(a) == FALSE
\* _newer_success_since.
Superseded(a) == fetched[a].late

Write(a, failing) ==
    LET data == fetched[a].data
        rollback == PanelRollback(data)
        found == {u \in Users : data[u] # None}
        was == [u \in Users |-> IF snap[u] = None THEN NewSnapshot ELSE snap[u]]
        result == [u \in found |-> Compute(was[u], data[u], meter[u][Month], rollback)]
    IN  /\ fetched[a] # None /\ ~Superseded(a)
        /\ failing \subseteq found
        /\ snap' = [u \in Users |->
                      IF u \in failing THEN Unmetered(was[u], data[u])
                      ELSE IF u \in found THEN Stored(was[u], data[u], result[u])
                      ELSE IF snap[u] = None THEN None ELSE [snap[u] EXCEPT !.here = FALSE]]
        /\ meter' = [u \in Users |-> IF u \in found \ failing
                                     THEN [meter[u] EXCEPT ![Month] = result[u].meter] ELSE meter[u]]
        /\ blind' = blind \cup {u \in Users : Moved(u, data) /\ ~(rollback /\ u \in Dropped(data))}
        /\ twice' = twice \cup {u \in Users : Straddles(u, data)}
        /\ fetched' = [b \in Attempts |-> IF b = a \/ fetched[b] = None THEN None
                                          ELSE [fetched[b] EXCEPT !.late = TRUE]]
        /\ UNCHANGED <<day, bill, world, panelVars>>
WriteSync(a) ==
    \/ Write(a, {})
    \/ \E u \in Users : /\ "meter fails" \in world /\ ops < MaxOps /\ Write(a, {u})

Supersede(a) ==
    /\ fetched[a] # None /\ Superseded(a)
    /\ fetched' = [fetched EXCEPT ![a] = None]
    /\ UNCHANGED <<day, snap, meter, bill, blind, twice, world, panelVars>>

-----------------------------------------------------------------------------
(* The invoice of a month.                                                 *)

\* billable_gb_for_user: the quota sold, capped at the plan of a shop's user; of a user
\* that left the panel what it used, or all if that was much.
Quota(u) == IF u \in Shop THEN Least(snap[u].limit, snap[u].plan) ELSE snap[u].limit
BillableGb(u, m) ==
    IF u \in Trials \/ snap[u] = None \/ MonthOf(snap[u].start) # m \/ Quota(u) <= Free THEN 0
    ELSE IF snap[u].here THEN Quota(u)
    ELSE IF snap[u].used <= Free THEN 0
    ELSE IF FullOver > 0 /\ snap[u].used >= FullOver THEN Quota(u)
    ELSE snap[u].used

\* _extra_from_rows: overage above the tolerance in full, renewals by edit above the size of
\* a test package, and the closed cycles.
ExtraGb(u, m) ==
    LET row == meter[u][m]
    IN IF u \in Trials THEN 0
       ELSE (IF row.over > Tolerance THEN row.over ELSE 0) + (IF row.edit > Free THEN row.edit ELSE 0)
            + row.renew

\* The monthly run, once the month is over; a delivered invoice is not generated again.
Generate(m) ==
    /\ m < Month /\ bill[m] = None
    /\ bill' = [bill EXCEPT ![m] = [u \in Users |-> BillableGb(u, m) + ExtraGb(u, m)]]
    /\ UNCHANGED <<day, fetched, snap, meter, blind, twice, world, panelVars>>

-----------------------------------------------------------------------------
OnUser(u) ==
    \/ Consume(u) \/ ResetUsage(u) \/ EditQuota(u) \/ DeleteUser(u)
    \/ \E gb \in Sizes : Create(u, gb) \/ RenewTarget(u, gb) \/ RenewButton(u, gb) \/ RenewCarry(u, gb)
Next ==
    \/ \E u \in Users : OnUser(u)
    \/ BackUp \/ RestorePanel \/ Midnight
    \/ \E a \in Attempts : Fetch(a) \/ WriteSync(a) \/ Supersede(a)
    \/ \E m \in Months : Generate(m)
Spec == Init /\ [][Next]_vars

-----------------------------------------------------------------------------
(* Properties.                                                             *)

Total(f) == SumFunctionOnSet(f, DOMAIN f)

\* Metered overage is traffic a user really took beyond what was sold to it, whatever the
\* order of resets, top-ups, renewals, syncs and restored backups; a restore that moves
\* too few counters to be recognised is the exception the code accepts.
OverageIsReal ==
    \A u \in Users \ blind : Total([m \in Months |-> meter[u][m].over]) <= excess[u]

\* All invoices of a user together never bill more than was sold to it and what its
\* traffic took beyond: no volume is billed in two months, or as a sale and as an extra.
BilledOnce ==
    \A u \in Users \ (blind \cup twice) :
        Total([m \in Months |-> IF bill[m] = None THEN 0 ELSE bill[m][u]]) <= sold[u] + excess[u]

\* Metering that fails for a user, and a sync that is overtaken, lose no usage: as long
\* as the counter of a cycle has not been reset, what is banked is the stored counter.
NothingLost ==
    \A u \in Users \ blind :
        snap[u] # None /\ snap[u].init /\ snap[u].start # 0 /\ ~snap[u].dirty
            => snap[u].cons = snap[u].used

\* metering.py: the usage of a cycle that was begun and properly renewed within a month is
\* banked for that month's invoice.
ClosedCyclesBanked ==
    \A u \in Users, m \in Months :
        bill[m] # None /\ u \notin blind => meter[u][m].renew >= closed[u][m]

\* metering.py: after a restored backup only new usage is billed as overage, not what the
\* counter repeats.
RepeatsAreFree ==
    \A u \in Users \ blind : Total([m \in Months |-> meter[u][m].over]) <= excess[u] - again[u]

=============================================================================
