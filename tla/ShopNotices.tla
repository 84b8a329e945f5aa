---------------------------- MODULE ShopNotices ----------------------------
(* The daily notices of the shops: near expiry, trial ended, volume almost  *)
(* used, expired.  The scheduler scans the orders for one kind, commits,    *)
(* sends the messages one by one and stamps the orders in batches.  The     *)
(* orders live in the database that BackupRestore backs up and restores, and *)
(* the token of a shop's bot is one of its secrets.                         *)
EXTENDS BackupRestore

CONSTANTS
    Orders,         \* provisioned orders
    ShopToken,      \* the secret with their shop's bot token
    Batch,          \* _STAMP_BATCH
    MaxRenewals,    \* renewals, over all orders
    MaxUnsure       \* delivered messages that are taken for failed, over all sweeps

ASSUME NoticeConstants == ShopToken \in Secrets /\ Batch \in Nat \ {0} /\ {MaxRenewals, MaxUnsure} \subseteq Nat

VARIABLES
    clock,      \* moves when an order is renewed
    sweep,      \* the job: what it is doing, for which kind, with which orders
    told,       \* history: <<order, kind, period>> the customer was told or has blocked
    again,      \* history: messages a customer had had in that period before
    unsure,     \* history: messages that were delivered and taken for failed
    stops       \* history: sweeps the scheduler was stopped in
noticeVars == <<clock, sweep, told, again, unsure, stops>>
vars == <<backupVars, noticeVars>>

Kinds == {"expiring", "trial ended", "usage high", "expired"}
Sequence == [n \in 1..4 |-> CASE n = 1 -> "expiring" [] n = 2 -> "trial ended"
                              [] n = 3 -> "usage high" [] n = 4 -> "expired"]

\* What is left of a service, by its dates: more than the threshold, some days, none
\* since less than the lookback, none for longer; or there is no date to tell by.
Lives == {"far", "near", "lapsed", "old", "unknown"}
Never == -1

Order == [trial : BOOLEAN, life : Lives, high : BOOLEAN, armed : BOOLEAN, reachable : BOOLEAN,
          renewed : 0..MaxRenewals, stamp : [Kinds -> Never..MaxRenewals], behind : BOOLEAN]
NewOrder(o) == [trial |-> o \in world.trials, life |-> world.life, high |-> FALSE, armed |-> FALSE,
                reachable |-> TRUE, renewed |-> 0, stamp |-> [k \in Kinds |-> Never], behind |-> FALSE]

\* What a world can be.
Operations == {"backup", "download", "large", "fail", "restore", "together", "apart", "recreated", "secret",
               "crash", "update", "notices", "days", "use", "renew", "snapshot", "gap", "arm", "hide"}
World == [ops : SUBSET Operations, crashes : Nat, backups : Nat, restores : Nat,
          archives : SUBSET {Here, There}, unkeyed : SUBSET Restorers, trials : SUBSET Orders,
          life : Lives, chat : BOOLEAN]

ASSUME NoticeWorlds == Worlds \subseteq World

Off == [at |-> "off", n |-> 0, due |-> {}, now |-> 0, stamped |-> {}]

Init ==
    /\ world \in Worlds
    /\ BackupInit([o \in Orders |-> NewOrder(o)])
    /\ clock = 0 /\ sweep = Off /\ told = {} /\ again = 0 /\ unsure = 0 /\ stops = 0

-----------------------------------------------------------------------------
(* The shop around the sweeps.                                             *)

Row(o) == db.rows[o]
SetRow(o, row) == db' = [db EXCEPT !.rows[o] = row]
OrdersOnly == UNCHANGED <<serverVars, filesVars, lanesVars, world, sweep, told, again, unsure, stops>>
Ended == {"lapsed", "old"}

\* Days pass; a snapshot that is behind is synced before the next day.
Age(o) ==
    /\ "days" \in Ops /\ ~Row(o).behind
    /\ \E step \in {<<"far", "near">>, <<"near", "lapsed">>, <<"lapsed", "old">>} :
          Row(o).life = step[1] /\ SetRow(o, [Row(o) EXCEPT !.life = step[2]])
    /\ OrdersOnly /\ UNCHANGED clock

UseUp(o) ==
    /\ "use" \in Ops /\ ~Row(o).high /\ ~Row(o).behind /\ Row(o).life \notin Ended
    /\ SetRow(o, [Row(o) EXCEPT !.high = TRUE])
    /\ OrdersOnly /\ UNCHANGED clock

\* A renewal stamps the order; the snapshot, for an order that has one, stays what the
\* last sync saw.  "gap": it commits between a scan and the time the sweep then takes.
Anew(row) == [row EXCEPT !.life = IF @ = "unknown" THEN @ ELSE "far", !.high = FALSE, !.behind = FALSE]
Renew(o) ==
    /\ "renew" \in Ops /\ ~Row(o).trial /\ clock < MaxRenewals
    /\ "gap" \in Ops \/ sweep.at # "due"
    /\ clock' = clock + 1
    /\ LET row == [Row(o) EXCEPT !.renewed = clock + 1, !.armed = FALSE]
       IN  SetRow(o, IF "snapshot" \in Ops THEN [row EXCEPT !.behind = TRUE] ELSE Anew(row))
    /\ OrdersOnly

Sync(o) ==
    /\ Row(o).behind
    /\ SetRow(o, Anew(Row(o)))
    /\ OrdersOnly /\ UNCHANGED clock

\* Auto-renew is armed or disarmed.
Arm(o) ==
    /\ "arm" \in Ops /\ ~Row(o).trial
    /\ SetRow(o, [Row(o) EXCEPT !.armed = ~@])
    /\ OrdersOnly /\ UNCHANGED clock

\* The customer is banned, the shop closed or the order suspended, and back.
Hide(o) ==
    /\ "hide" \in Ops
    /\ SetRow(o, [Row(o) EXCEPT !.reachable = ~@])
    /\ OrdersOnly /\ UNCHANGED clock

-----------------------------------------------------------------------------
(* The daily job.                                                          *)

\* _needs_alert and its siblings: never told, or renewed since.
NeedsAlert(row, k) == row.stamp[k] = Never \/ row.renewed > row.stamp[k]

Paid(row) == ~row.trial /\ ~row.armed
Due(row, k) ==
    /\ row.reachable
    /\ CASE k = "expiring"    -> Paid(row) /\ row.life = "near" /\ NeedsAlert(row, k)
         [] k = "trial ended" -> row.trial /\ row.life = "lapsed" /\ row.stamp[k] = Never
         [] k = "usage high"  -> Paid(row) /\ row.high /\ row.life \notin Ended /\ NeedsAlert(row, k)
         [] k = "expired"     -> Paid(row) /\ row.life = "lapsed" /\ NeedsAlert(row, k)

Kind == Sequence[sweep.n]
\* Mutant of NextKind: a kind with nobody due ends the job.
NextIfAny == IF sweep.n < 4 /\ sweep.at = "send" THEN [Off EXCEPT !.at = "scan", !.n = sweep.n + 1] ELSE Off
NextKind == IF sweep.n < 4 THEN [Off EXCEPT !.at = "scan", !.n = sweep.n + 1] ELSE Off
SweepOnly == UNCHANGED <<serverVars, filesVars, lanesVars, world, clock, stops>>

\* storefront_expiry_job, at 11:15.
StartJob ==
    /\ "notices" \in Ops /\ sweep = Off
    /\ sweep' = [Off EXCEPT !.at = "scan", !.n = 1]
    /\ SweepOnly /\ UNCHANGED <<db, told, again, unsure>>

\* _run_sweep reads the orders, decides who is due and commits.  Without the token of
\* the shop's bot nobody can be told, and nobody is stamped.
Scan ==
    LET due == IF Readable(ShopToken, "scheduler")
               THEN {<<o, Row(o).renewed>> : o \in {x \in Orders : Due(Row(x), Kind)}} ELSE {}
    IN  /\ sweep.at = "scan"
        /\ sweep' = IF due = {} THEN NextKind ELSE [sweep EXCEPT !.at = "due", !.due = due]
        /\ SweepOnly /\ UNCHANGED <<db, told, again, unsure>>

\* It takes the time all of its stamps will have.
Begin ==
    /\ sweep.at = "due"
    /\ sweep' = [sweep EXCEPT !.at = "send", !.now = clock]
    /\ SweepOnly /\ UNCHANGED <<db, told, again, unsure>>

\* Mutant of BatchIsFull: the stamps are written at the end.
AllSent == sweep.due = {}
BatchIsFull == Cardinality(sweep.stamped) >= Batch \/ sweep.due = {}
Sending(x) == sweep.at = "send" /\ x \in sweep.due /\ ~(BatchIsFull /\ sweep.stamped # {})

\* The message reaches its customer.
Notice(x) == <<x[1], Kind, x[2]>>
Reaches(x) ==
    /\ told' = told \cup {Notice(x)}
    /\ again' = IF Notice(x) \in told THEN again + 1 ELSE again

\* Delivered, or blocked for good by the customer.
Tell(x) ==
    /\ Sending(x)
    /\ sweep' = [sweep EXCEPT !.due = @ \ {x}, !.stamped = @ \cup {x[1]}]
    /\ Reaches(x)
    /\ SweepOnly /\ UNCHANGED <<db, unsure>>

\* Mutant of Fail: a failed message stamps too.
FailStamped(x) ==
    /\ Sending(x) /\ "fail" \in Ops
    /\ sweep' = [sweep EXCEPT !.due = @ \ {x}, !.stamped = @ \cup {x[1]}]
    /\ SweepOnly /\ UNCHANGED <<db, told, again, unsure>>

\* Any other exception, one that comes after the message was delivered too (a timeout),
\* and the fourth flood wait: the order is not stamped, and the next job tries again.
Fail(x) ==
    /\ Sending(x) /\ "fail" \in Ops
    /\ sweep' = [sweep EXCEPT !.due = @ \ {x}]
    /\ \/ UNCHANGED <<told, again, unsure>>
       \/ unsure < MaxUnsure /\ unsure' = unsure + 1 /\ Reaches(x)
    /\ SweepOnly /\ UNCHANGED db

\* _flush writes the stamps onto the rows there are by now.
Flush ==
    /\ sweep.at = "send" /\ BatchIsFull /\ sweep.stamped # {}
    /\ db' = [db EXCEPT !.rows = [o \in Orders |->
                IF o \in sweep.stamped THEN [Row(o) EXCEPT !.stamp[Kind] = sweep.now] ELSE Row(o)]]
    /\ sweep' = [sweep EXCEPT !.stamped = {}]
    /\ SweepOnly /\ UNCHANGED <<told, again, unsure>>

EndSweep ==
    /\ sweep.at = "send" /\ sweep.due = {} /\ sweep.stamped = {}
    /\ sweep' = NextKind
    /\ SweepOnly /\ UNCHANGED <<db, told, again, unsure>>

\* The scheduler stops, and the sweep with it.
SweepStops ==
    /\ sweep' = Off
    /\ stops' = IF sweep.at = "send" THEN stops + 1 ELSE stops
    /\ UNCHANGED <<clock, told, again, unsure>>
Stop ==
    \/ \E p \in Procs :
          /\ WatchLoop(p) \/ Crash(p)
          /\ IF p = "scheduler" THEN SweepStops ELSE UNCHANGED noticeVars
    \/ Update /\ SweepStops

Shop == \E o \in Orders : Age(o) \/ UseUp(o) \/ Renew(o) \/ Sync(o) \/ Arm(o) \/ Hide(o)
Job ==
    \/ StartJob \/ Scan \/ Begin \/ Flush \/ EndSweep
    \/ \E x \in sweep.due : Tell(x) \/ Fail(x)

Next ==
    \/ BackupStep /\ UNCHANGED noticeVars
    \/ Stop \/ Shop \/ Job
Spec == Init /\ [][Next]_vars

\* The job goes on and runs daily, and a message to a customer does not fail for ever.
Fairness ==
    /\ WF_vars(Job)
    /\ \A o \in Orders : SF_vars(\E p \in 0..MaxRenewals : Tell(<<o, p>>))
FairSpec == Spec /\ Fairness

-----------------------------------------------------------------------------
(* Properties.                                                             *)

TypeOK ==
    /\ db.rows \in [Orders -> Order]
    /\ db.secrets \in [Secrets -> {Here, There}] /\ db.stamp \in 0..world.backups
    /\ env \in {Here, There} /\ key \in [Procs -> {Here, There}]
    /\ Cardinality(disk) <= 2 /\ Cardinality(safety) <= 2
    /\ \A p \in Procs : seen[p] <= marker
    /\ clock \in 0..MaxRenewals /\ sweep.now <= clock
    /\ Cardinality(sweep.stamped) <= Batch

\* A customer is told each thing once per service period.  A delivered message that is
\* taken for failed repeats that one; a stop of the scheduler repeats one batch, not the
\* sweep; and a restore repeats at most what it rewinds.
ToldOnce == again <= unsure + Batch * stops + Cardinality(Orders) * Cardinality(Kinds) * begun

\* An order that counts as notified for its period is one whose customer was told, or
\* cannot be told, in that period.
StampMeansTold ==
    \A o \in Orders, k \in Kinds : NeedsAlert(Row(o), k) \/ <<o, k, Row(o).renewed>> \in told

\* A customer who is due a notice gets it, unless none is due any more or the shop's
\* token cannot be read.
Awaited(o) == "notices" \in Ops /\ \E k \in Kinds : Due(Row(o), k)
DueIsTold == \A o \in Orders : Awaited(o) ~> (~Awaited(o) \/ ~Readable(ShopToken, "scheduler"))

=============================================================================
