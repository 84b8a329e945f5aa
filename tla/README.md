# A verification project for the invoice and storefront system

The repository bills resellers of VPN panels and lets each reseller run a shop
in Telegram. A FastAPI backend, an aiogram bot and an APScheduler process share
one PostgreSQL database and call the panels' HTTP APIs. The TLA+ modules here
model the parts where several processes write the same rows, where panels,
chains and Telegram are called between two transactions, or where a stop in the
middle must not lose money, users or messages. TLC checks them on small
instances; TLAPS proves, for every value of the constants, the safety of
settlements, of sales in the shop, of rates and deposits, of backups and notices
and of deletions on a panel.

`PROJECT.json` maps every definition to the lines it models, lists each run with
its properties, each property with a mutant of the code that breaks it, the
hazards and the disagreements found between code and comments. Paths below are
relative to `src/backend/app`.

## 1. Inventory

### Processes and shared state

| Process | What runs there | What it shares |
|---|---|---|
| API (`api/`) | owner and portal requests | database rows, panels, the data volume |
| bot (`bot/`) | the platform's bot and one poller per shop | the same |
| scheduler (`scheduler/`, one replica) | dunning, enforcement, sync, billing, deliveries, notices, sweeps, reaper, backups | the same |

Sessions are `expire_on_commit=False, autoflush=False` (`core/db.py:54`) at READ
COMMITTED, so an object read once keeps its values across commits and awaits
until somebody refreshes it. That, with commits in the middle of handlers, is
what makes the code hard: most findings below are a decision taken on such an
object, or a call made between two transactions.

### Components

| Component | State | Operations | Hard because | What makes it correct |
|---|---|---|---|---|
| Payment settlement (`services/payments.py`) | payments, their invoice sets | submit, confirm, auto-confirm, verify, reject, delete, discard proof, manual rows | row locks in several steps, network reads between | a paid invoice has a confirmed payment; sets settle whole; one pending payment per invoice; no deadlock |
| Deposits and rates (`payments.py`, `rates.py`) | cached rates, chain reads | fetch, convert, read the chain, auto-settle | two reads of a chain apart in time, silent or slipping sources | a rate is one a market had; what is settled stays paid |
| Invoice lifecycle (`services/invoice_state.py`, `financial_archive.py`) | status, ledger row | transitions, recording | written by eight components | the ledger shows the status |
| Invoice routes (`api/invoices.py`) | invoices | mark/unmark paid, edit, defer, cancel, revert, discard, recompute | unlocked reads, commits in helpers | unpaying takes the payment back; drafts only are discarded |
| Dunning (`services/dunning.py`) | statuses | hold, remind, flip to overdue | one read, then minutes of Telegram messages | never resurrects a paid debt |
| Enforcement (`services/enforcement.py`) | actions with chunks and snapshots | suspend, restore, freeze, delete, revert, reassert | commits per chunk, reverts mid-flight, trees of resellers | users and limits come back; a freeze holds |
| Monthly billing, generation, delivery, sync (`monthly_billing`, `invoicing`, `delivery`, `sync`) | the month's run, drafts, stored panels | cycle, retry, generate, send, sync | two processes, outages, crashes | nobody is left out or told twice; stored data never gets older |
| Metering (`services/metering.py`) | usage baselines, banked volume | meter one user of a sync | counters are reset, renewed, restored between two samples | no volume is billed twice, overage is real |
| Storefront orders (`storefront_provision`, `_subscription`, `_ops`) | orders, operations, leases, panel users | buy, trial, renew, delete, pause, resume, reap | panel calls between commits, crashes, a lock per process | money buys something or comes back, once |
| Auto-renew (`storefront_autorenew`), wallet (`storefront_wallet`) | armed columns, holds, ledger | arm, disarm, fire, sweep; charge, hold, release, settle | orders read before the lock, three processes end one hold | exactly once |
| Storefront administration (`storefront_admin`, `api/portal_storefront`) | plans, settings, commands, version | every command with its key, version and external call | three surfaces, replays, crashes | one effect per key, no lost edit |
| Shop's bot (`bot/storefront/handlers.py`), credit codes, top-ups | conversations, top-ups, redemptions | buy, top up, redeem, trial | updates handled beside each other, old buttons | balances and uses add up |
| Broadcasts (`storefront_delivery`) | jobs, leased recipients, the bot's token | claim, send, record, cancel, prune | leases run out, crashes, dead tokens | duplicates only for lost outcomes; every recipient ends |
| End users (`end_user_delete`, `recovery`, `usercreate`) | panel users, snapshots | delete, purge, recover, create | three keys for a user, panels restored from backups | only named users go; billing goes only with the gone |
| Backup, restore, restart (`backup`, `backup_delivery`, `restart_signal`) | archives, keys, marker | create, deliver, restore, re-encrypt, restart | three processes, two keys | secrets stay readable |
| Notices (`storefront_expiry`) | stamps per order and kind | scan, send, stamp in batches | stops, renewals and restores in between | told once, and told |
| Portal login, scheduler, settings, CRM, reports, PDF, platform bot, frontend, deployment | – | – | see section 6 | – |

How they interact: a confirmed payment queues a restore with enforcement; dunning
and a defer queue or revert enforcement actions; a suspension stamps the invoices
`enforced`; delivery and recomputation write invoices; monthly billing calls
sync, generation and delivery; the sync feeds the meter, whose volume is what an
invoice bills; the rate in use prices an invoice and judges its deposit. A
purchase or renewal calls the wallet, the operation table and the panel; the
sweep fires renewals; the reaper finishes what a crash left. A restore takes the
database back under all of it.

## 2. Modules

| Module | Role |
|---|---|
| `Settlement`, `SettlementContract` | payments, invoices, ledger, row locks; what settling promises in single steps |
| `Enforcement` | the enforcement queue of one panel and everything that happens beside it |
| `MonthlyBilling`, extended by `Deposits` | cycle, sync, generation, delivery; rates and deposits on a chain |
| `Metering` | what a user of a panel is billed for |
| `StorefrontOrders`, `StorefrontSales` | orders, operations, holds, wallet; what the shop promises about money |
| `ShopAdmin`, extended by `ShopCustomers` | commands on a shop; its customers' conversations on the same rows |
| `Deliveries` | messages of a shop, their worker and the bot's token |
| `PanelUsers` | users of one panel and the rows that bill them |
| `BackupRestore`, extended by `ShopNotices` | archives, keys and restarts; the daily notices over that database |
| `MC...` | the instances of each |
| `SettlementProofs` | TLAPS proofs about settlements: types, backing, locks and the refinement; the contract by itself |
| `StorefrontProofs` | about orders: the invariant of sales, the refinement and the refunds |
| `ShopProofs` | about a shop's administration: types, keys, edits, sums; beside its customers: trials and money |
| `MeteringProofs` | about `Metering`: types, no usage lost, overage that is real |
| `DepositsProofs` | about `MonthlyBilling` and `Deposits` |
| `DeliveriesProofs` | about `Deliveries`: types, and that every duplicate is paid for |
| `ShopNoticesProofs` | about `BackupRestore` and `ShopNotices` |
| `PanelUsersProofs` | about `PanelUsers` |

Most MC modules have a set of *worlds*: what happens at all in a behaviour, and
how often. TLC explores all of them in one run, each for itself. That keeps every
combination that can interact together and the product of those that cannot
apart; the comment of each world says what it is for.

### Settlement

Variables: `inv` is the status column of an invoice (`gone` once deleted),
`sentAt` whether `sent_at` is set, `pay` the payment rows with the invoice set
of each (`payment_settlements` or the multi-invoice ids), `ledger` the
`financial_records` row, `suspended` the reseller's enforcement state, and
`sess` what each request or job is doing: the rows it has locked, still has to
lock and has decided to write.

A handler that locks one row and commits is one action (`Cancel`,
`RevertToDraft`, `MarkPaid`, ...). The others take their locks one at a time
(`LockInvoice`, `SubmitLock`, in ascending id order as `_lock_invoices` does),
decide from what they read under the locks (`...Decide`) and commit
(`...Commit`). Jobs that read without a lock (`UnlockedWriters`) read in one step
and write in another, from what they remember. A commit writes the status,
the ledger row and the payment together, as `_mark_invoices_paid`, `record` and
the commit do.

Abstractions: amounts are left out, so a deposit is enough, too low or in need
of the owner (`VerifyDecide`); a payment id stands for its hash and is not used
again once deleted; the first invoice of a set is its lowest; the locks of
`DELETE ... IN (...)` are taken in ascending order. `discard_drafts` and
`recompute_invoice` exclude each other at commit (`_serialize_billing`), dunning
runs once at a time and a delivery once per invoice (advisory locks).

`SettlementContract` has invoice statuses and, per payment, the set it settles.
`Settle`, `Reverse` and `Unmark` are single steps; everything else moves an
unpaid invoice along `invoice_state._TRANSITIONS`. `ImplementsContract` is the
refinement with `settles[p]` = the set of a confirmed payment.

### Enforcement

`queue` is `enforcement_actions` with its snapshot (planned users, what is done,
captured limits, phase), `lane` the worker of a panel: the batch it loaded, the
action it is on and what it has sent but not committed. Requests (`Dun`,
`Suspend`, `Freeze`, `Delete`, `Restore`, `Settle`, `Reassert`, `SyncPanel`) only
write rows and interleave with every step of the lane: `Begin...`, `Resolve`
(each user's number on the panel), `SendChunk`, `CommitChunk`, `LimitsPass`,
`CommitLimits`, `Finish...`. A panel call and the commit of its effect are two
steps. A payment that lands in between reverts the row (`Absorbed`,
`Merge`), which is the heart of the module. `Prune` is the retention sweep of
`maintenance.py`, `Crash` a restart of the scheduler. Whether an action for a
reseller the panel no longer has is closed as obsolete also depends on what the last
sync saw (`reseller_absent`), and is left open.

Abstractions: one panel and one lane (an advisory lock keeps queue runs apart and
lanes of two panels share no row); a chunk is one user; limits are all or
nothing; dry runs and notices are left out.

### MonthlyBilling and Deposits

A panel's data is its *edition*, a number that grows with every change, and an
invoice's amount is the edition it was computed from, so that "older", "stale"
and "left out" are comparisons of numbers. `SyncStep` has the fetch, the wait for
the panel's lock and the guarded write of `sync_panel`; `RunDue` and `CycleStep`
the attempt, syncs, generation, delivery and completion of `run_due`, with its
commits; `generate`, `send_period` and resends run beside it in another process.
In `Tell` a send that raises may have put its message out, the plain one that
follows it too, and an invoice whose second send raised as well is left for the retry;
`redone` counts those messages, so that `ToldOnce` allows them and no others.
Admins form trees, also broken ones: a missing parent and a loop.

`Deposits` adds what an invoice's payment on a chain is worth. Time goes by in
ticks with a block each. The market moves every tick; a source may be silent or
slip from Toman to Rial; `InUse` is the chain of owner's figure, fresh rate,
stale rate and none, with the plausibility bands. A rate is committed and then its
time, so a stop leaves a rate with the time of the one before (`Cache`). `check`
is one automatic confirmation: the receipt and the height are read at different
times and blocks may be replaced between them. `Verify` is the owner's check on
BscScan, which also takes up a payment that was rejected; in the world "by hand"
it is the only one, as when the automatic confirmation is turned off.

Nothing is assumed of how many confirmations are asked for. The installed defaults
(12, and up to 15 s between the two reads) let a sub-second chain build more blocks
inside one check than the confirmations ask for, and the run is such an instance
(3 confirmations, one block replaced, two ticks between the reads): a block that is
replaced after the receipt was read is then counted as deep, which is a finding.
`SettledIsFinal` says that this is the only way to lose a settled deposit: `check`
keeps when the receipt was read (`newest`, history), and the blocks since
(`Meanwhile`) must make up what the depth lacked. Tolerances are equality, coin prices double or halve,
the relative band applies only to Toman quotes and not to a first fetch, and an
AVAX price is in dollars and rests on a USDT rate that may be as old again: so
`Real` for AVAX allows twice the age. Verification by hand asks BscScan and has no
freshness guard. A fetch that fails is no step.

### Metering

The panel's operations on a user (connect, consume, top-up, reset, renewal by
edit and by button, deletion, a restored backup) are separate actions, and a sync
reads them in one step and writes in a later one. `Meter` is the whole of
`meter_user`: baselines, cycle detection, banked cycles, overage, give-back.
Volumes are whole gigabytes. The history variables `sold`, `excess` and `again`
are what an observer of the panel would know. Two windows the code accepts or
gets wrong are named and excluded: `blind` (a restore that moves too few counters
to be recognised) and `twice` (a top-up first seen after its month, a finding).

### StorefrontOrders

Variables: `order` (status, trial flag, armed hold, and the operation that set it
to renewing), `buy` (the purchase operation), `refunded` (orders with a refund
row), `op` (renewal operations: prior status, whether the absolute target is
stored, and, as history, whether it reached the panel and whether the charge was
given back), `hold` (the auto-renew reservations), `wallet`, `trialUsed`, `user`
(what the panel has) and `worker` (the running call, its step, the status and
hold it read).

One transaction is one action and one panel call is one action:
`Buy` – `CreateUser` – `FinishBuy`; a renewal begins at one of its doors
(`AdminRenew` in the bot, `RenewOrder` in the portal, `SweepFire` – `FireRead` in
the sweep) and goes on with `Claim` – `Prepare` – `Debit` – `Apply` – `Finish`,
with `RenewRefused`, `GiveUp`, `FinishElsewhere` and `Repay` as the ways out;
`AutorenewToggle` and the old buttons' `RenewLegacy` lead to `Arm` or `Disarm`;
`Delete` – `RemoveUser` – `MarkDeleted`; `CustomerResume`, `AdminToggle` and
`SetOrderEnabled` lead to `Switch` – `ShowPaused`/`ShowResumed`; and the
reaper's `ReapPurchase`, `ReapBack`, `ReapForward`, `ReapUncertain`. `Crash(p)`
ends all calls of a process between two steps. A panel call can fail before or
after it took effect (`ApplyUncertain`, `RemoveFails`, `SwitchFails`, and
`CreateUser` when `CreateMayTimeOut`).

The customer lock is modelled as it is, one per process: `LockFree` looks only at
workers of the same process. `arm`, `disarm` and the sweep decide on the order
they loaded before the lock, because the query under the lock returns the object
the session already has.

Abstractions: every price is one unit; refusals that leave no state are one
choice, and so are the sweep's reasons for disarming and for a near end; the live
check, `fire` and step 0 of `renew` are one read. The reaper's decision about an
order is one step, because it holds the row lock across its panel calls. A lease
lasts at least 300 s and a live worker makes two calls of at most 90 s, so
`Leased` is true exactly while a live worker is between its lease and its last
write. Step 3 of `renew` can also charge the wallet directly, which no caller
asks for any more. `StorefrontSales` knows only sales, each idle, reserved, paid,
delivered or returned, and purses; `ImplementsSales` maps each purchase and each
hold to a sale.

### ShopAdmin and ShopCustomers

`req` is what each of two request slots does: claim the key, load (`view`), call
Telegram or the panel where the command does, and commit what it changed, under
the version (`OnVersion`) or the row locks (`Locked`) the command uses. `Outcomes`
gives what a command makes of the rows it loaded; a commit merges only the
attributes it changed, as SQLAlchemy does. `asked` lets a request be sent again
with its key. `keys` is `storefront_api_commands` with leases that end. The two
sweeps (below cost, monthly trial reset) send the same commands.

`ShopCustomers` adds conversations: `chat` is the FSM storage in the bot's
memory, `task` the updates at work. `Arrive` picks the handler by the state when
the update came in, `Take` reads the data later, and the handler writes later
still. Old messages keep their buttons. `Restart` forgets conversations and
tasks; what a restart leaves of a purchase is `ReapCard`'s, and of a trial
`ReapTrial`'s (`unreaped`). A create that is taken for failed gives the trial's flag
back although its user may be there: `unsure` counts those, and `OneTrialAMonth`
allows one more for each. Amounts are 1 or 2,
one code with one use per customer and a cap of one.

### Deliveries

Recipients are rows with a status, a lease owner, attempts and a claim that may be
over its time. `Claim`, `Send` (with clear and unclear answers) and
`apply_outcomes` are separate, and what a transaction reads without a lock is read
in one step and written in another (`ReadRows`, `Commit`; `CancelRead`,
`CancelWrite`). The bot's token is replaced by the owner, taken away by workers
and pollers that met an old one, and picked up by the fleet.

### PanelUsers

A delete request resolves each named user by three keys, deletes by number,
verifies and purges rows; every panel call is a step and may fail or lose its
answer. Beside it users are deleted on the panel, handed to another admin,
renumbered by a restored backup, made by resellers and the shop, recovered and
synced. `gone`, `allowed` and `moved` are histories for the properties.

### BackupRestore and ShopNotices

Each secret is the key it is encrypted under; processes have the key their
containers were created with. A backup is begun, dumped, delivered or kept, then
stamped (or stamped, then streamed), each in a step. A delivery that raises may have
reached the owner, and a download can be given up while it streams (`StreamFails`):
it stays stamped, and `abandoned` remembers it for `StampedIsHeld`. A restore is handed in,
refused or safety-dumped, imported in one transaction that terminates all other
connections (dumps under way and the re-encryption of another restore included),
re-encrypted or, when that fails, its key written to `.env`; then the marker
restarts the other processes. Neither `WatchLoop` nor the api's own restart cuts
what a server is serving; in the bot, aiogram's own signal handling may even
swallow the watcher's signal, which the model allows because `WatchLoop` has no
fairness.

`ShopNotices` gives the database its orders, the clock of their renewals and
the four daily notices: scan and commit, one message at a time, stamps in batches
of `Batch`, with stops, renewals and restores in between. A message that raises may
have been delivered and is then sent again by the next job; `unsure` counts those, at
most `MaxUnsure` (1) of them.

World flags that leave something out, because the code gets it wrong and it is a
finding: `apart` (no backup is dumped while a restore re-encrypts), `recreated`
(containers are made anew between a fallback and the next restore), `snapshot`
(orders without facts of the period before). A process is never killed while
another server's secrets are imported and not re-encrypted: nothing takes that up
again.

## 3. Runs

All runs use two TLC workers and end within a few minutes.

| Run | Instance | Distinct states | Checks |
|---|---|---|---|
| `settlement_contract` | 2 invoices, 2 payments, 2 sessions; the handlers that lock what they write | 471k | `TypeOK`, `LedgerMirrors`, `OnePendingPerInvoice`, `NoDeadlock`, `ConfirmSettlesAll`, `ReversalSparesOthers`, `ImplementsContract` |
| `settlement_stale` | 1 invoice, 2 payments, 2 sessions; with dunning, delivery, stamping, defer, recompute, discard, verify, delete | 629k | `PaidIsBacked` |
| `settlement_live` | 2 invoices, 1 payment, 2 sessions | 138k | `HandlersFinish` |
| `storefront_sales` | 1 order, 2 holds, 1 grant, 2 units of money, a worker each in bot, API and scheduler, timeouts of create | 311k | `ImplementsSales` |
| `storefront_live` | 1 order, 2 holds, 1 grant, 3 units of money; two workers in the bot (buying and trials, arm and disarm), one in the API (deletions and renewals by the shop), one in the scheduler (fire and sweep) | 69k | `NoFreeRenewal`, `RefundedHasNoUser`, `SalesEnd` |
| `enforcement` | parent and sub-reseller with a user each, 2 rows besides restores, 7 worlds, one of them with a refused call and two with a refused call or a restart | 183k | `LimitsRemembered`, `FreezeHolds`, `UsersHandedBack`, `SettledIsRestored` |
| `metering` | 2 users of 2 admins, 4 operations over two and a half months of two days, 5 worlds | 1.5M | `OverageIsReal`, `BilledOnce`, `NothingLost` |
| `monthly_billing` | 2 panels, 4 admins, 3 hierarchies, 2 workers, up to 4 faults; 7 worlds of billing and 6 of deposits over 4 ticks, 3 confirmations and 2 ticks between two reads | 399k | `ToldOnce`, `StoredNeverOlder`, `CompletedIsBilled`, `CycleEnds`, `RateIsReal`, `SettledIsFinal` |
| `shop_admin` | 2 plans, 2 top-ups, 2 customers, 2 requests and 2 updates at a time, 20 worlds | 412k | `OncePerKey`, `MoneyAddsUp`, `OneTrialAMonth`, `EditsCompose` |
| `deliveries` | 2 jobs with 3 recipients, 2 workers, 2 faults, 8 worlds | 221k | `DuplicatesPaid`, `DeliveriesEnd` |
| `panel_users` | 3 users, 2 admins, 1 delete request, 7 worlds | 811k | `PurgedWasGone`, `DeletesOnlyNamed` |
| `shop_notices` | 2 orders, 2 secrets, up to 3 backups and 2 restores, 1 delivered message taken for failed, 14 worlds | 237k | `SecretsReadable`, `StampedIsHeld`, `ToldOnce`, `StampMeansTold`, `DueIsTold` |

Bounds. Two sessions show every lost update and every wait between two handlers,
and two invoices every order of two locks and every overlap of two sets; two
payments show one payment settling what another is taking back. The proofs hold
for any number. One order with two holds shows an arm that is spent or released
and followed by another; two orders of one customer compete for the balance. A
parent and a sub-reseller with a user each show every overlap of two branches'
actions. Two workers, panels, slots, tasks or customers are what a race needs;
three recipients with batches of two show a full batch and a rest; three months'
ends show a volume that moves between two invoices; three archives show
retention. Payments and sessions, holds and orders are interchangeable and
reduced by symmetry where no liveness is checked; invoices are not, because they
are locked in order.

Which events a run includes is part of what it says. `settlement_contract`
leaves out verify, delete, cancel and edit for size or because they break a
property (verify re-opens a payment without looking for another pending one), and
all unlocked writers, which break the contract: those are findings.
`settlement_stale` shows what survives even them. `storefront_live` has the
deletion and the disarm of an order beside its fire, sweep and renewals, so that charges
are given back and holds released under a running renewal; it leaves out
pause and resume, whose late writes break `NoFreeRenewal` (`FindFirePause.cfg`), and
ambiguous creates, which break `RefundedHasNoUser`:
`storefront_provision.py:389` refunds a create that timed out after the panel made
the user. `storefront_sales` includes everything. In `enforcement`,
`UsersHandedBack` and `SettledIsRestored` are about everyday traffic (`Everyday`)
and the other two about all worlds; a refused call in the same pass as a payment,
and a crash between a panel write and its commit, are findings or accepted by the
code and stay out. In `deliveries`, job completion is claimed for one worker, as
two that record the last recipients at once leave the job running (finding).

Deadlock checking is on for settlements and off elsewhere, where everything there
was to do can be done.

Every type invariant is part of a run or of a proof, but for those of `Enforcement` and
`Metering`, which document what their variables hold; they can be checked with the same
configurations by adding `INVARIANT TypeOK`.

### Fairness

- `Settlement`: a handler under way goes on (weak fairness of `Proceed`), and a lock
  that becomes free again and again is granted (strong fairness of `Acquire`):
  PostgreSQL queues waiters, and a deadlock victim is rolled back.
- `StorefrontOrders`: the same for workers, whose lock is an `asyncio.Lock` with
  first-come queues; crashes are not fair; the reaper, a job of every few minutes,
  reaches the panel eventually (weak fairness of `Reap`).
- `Enforcement`: the queue runs every few minutes (weak fairness of `Work`), a
  payment that committed makes its restore call, the daily re-assertion and the
  sync run. Faults and requests are not fair.
- `MonthlyBilling`: a sync, cycle or wait under way goes on, and the tick of the
  scheduler comes back (`RunDue`). Nothing is assumed of panels being reachable.
- `Deliveries`: workers are scheduled, waits and leases run out, a cancellation
  under way commits, the fleet reconciles. `DeliveriesEnd` assumes that the stored
  token is in the end the one Telegram accepts.
- `ShopNotices`: the daily job runs (weak fairness of `Job`), and a message that can
  be sent day after day is not refused for ever (strong fairness of `Tell`).

### Counterexamples to run by hand

These configurations show a disagreement between the code and what it says of
itself; TLC reports the named property violated.

| Configuration | What happens |
|---|---|
| `FindDunning.cfg` (`MCSettlement`, `PaidLeavesByReversal`) | dunning reads the debts once and writes overdue after each message (`services/dunning.py:269`): a debt paid meanwhile becomes overdue, which `invoice_state.py:35` excludes |
| `FindAuto.cfg` (`MCSettlement`, `AutoSettlesCheckedSet`) | the chain is asked about one set of invoices and the set found after the lock is settled (`services/payments.py:1022`) |
| `FindDiscard.cfg` (`MCSettlement`, `DiscardsOnlyDrafts`) | drafts are deleted by id (`api/invoices.py:151`), also one delivered since the ids were read |
| `FindDeadlock.cfg` (`MCSettlement`, `NoDeadlock`) | that deletion locks invoice before payment, against the one lock order of `payments.py:1346` |
| `FindArmPause.cfg` (`MCStorefront`, `HeldOnLive`) | `arm` decides on the order it read before the lock and reserves money on a paused one (`services/storefront_autorenew.py:118`) |
| `FindFirePause.cfg` (`MCStorefront`, `NoFreeRenewal`) | a pause from the API during a renewal of the scheduler makes step 5 give back the charge of a period that was granted (`services/storefront_subscription.py:264`) |

| `FindForgottenHold.cfg` (`MCStorefront`, `HoldsAreArmed`) | a disarm that waited for the lock with the order it had read clears the columns of a newer hold (`services/storefront_autorenew.py:118`): the money stays reserved and no order knows of it |
| `FindAbandonedDownload.cfg` (`MCShopNotices`, `DownloadsArrive`) | a download is stamped before it is streamed and its archive removed afterwards (`api/operations.py:548`): one that is given up counts as the last backup |

Four more statements of the code's comments are written down beside the
properties and are violated in the run's own instances: `ClosedCyclesBanked` and
`RepeatsAreFree` (`Metering`), `NobodyUnseen` and `SupersededIsOlder`
(`MonthlyBilling`).

### Other findings

`PROJECT.json` has them with the quoted lines and, where it is short, the steps
that lead there. By part:

- Enforcement: a pass that returns early on a miss or a refusal never looks whether
  it was reverted (`enforcement.py:1739`); `done` written over a revert in the window
  of the lockout (1854); a deletion widens to a sub-admin synced in meanwhile (2407);
  the retention sweep deletes the row a restore would read (`maintenance.py:140`).
- Billing and metering: branches below a removed root are neither billed nor
  reported; a draft recomputed while its message is on its way; superseded syncs that
  hold the newer backup; the metering cases above.
- Rates and chain: stale comparison bands, a first fetch without one, a depth taken
  from two reads.
- Shop: terms of a redeemed code, archived codes enabled again, a shop closed with a
  healthy plan, a trial reset that cannot repeat itself after a conflict, unknown
  order commands, doubled top-ups of an album, a confirmation that buys another
  card's plan, more waiting top-ups than allowed.
- Messages: jobs that never complete, cancelled recipients retried, a new token wiped
  on behalf of an old one; notices of a renewed service told from the facts before.
- Users: capacity compared with the latest sync only; rows written again by a sync
  that read the panel before the delete.
- Backup: a fallback key another restore does not take back, one the bot cannot
  write, archives whose key is not that of their secrets.

Met while modelling and not listed there: the operation is set to reversed and the
charge given back in two transactions, and nothing finishes the second after a
crash (`storefront_subscription.py:276`); the status a failed renewal restores
was read before its claim (152); a renewal left as "processing" whose order is
then paused or deleted is never looked at by the reaper; the reaper reapplies a
target that enables the user without asking whether the branch is suspended
(`storefront_provision.py:476`); and a fire refused as suspended after the first
phase of the sweep tears the arm down, which `storefront_autorenew.py:390` says is
left intact.

Calls that worked and were taken for failed are not told from failed ones anywhere in
this code. An invoice whose message raised is sent a second time as plain text, and once
more by the retry if that raises too (`delivery.py:239`); a notice is repeated by the
next day's job (`broadcast.py:105`, `storefront_expiry.py:257`); a trial whose create
timed out is given back beside the user it made (`storefront_provision.py:466`,
`usercreate.py:169`), and a trial order of before the monthly reset that is reaped after a claim
in the new month frees the flag of that claim (`storefront_provision.py:547`). The
properties count these cases apart, so that nothing else can hide behind them.

## 4. Proofs

Every proof is for any sets of rows, workers, panels and processes, any of the
bounds, and any choice of what happens (`Ops`, `Jobs`, `Worlds`), from the named
`ASSUME`s of the modules, which say what the constants are. Where a theorem needs
more, it says so as a hypothesis, and the hypothesis is one about which handlers
or events there are: it names the code that would break the property. The runs
listed for these properties meet the hypotheses.

| Theorem | States | Without |
|---|---|---|
| `TypeCorrect`, `PaidBacked`, `ExclusiveLocks` (`SettlementProofs`) | `TypeOK`, `PaidIsBacked`, exclusive row locks | – |
| `ReversalSafe` | `ReversalSparesOthers` | – |
| `NoCircularWaits` | `NoDeadlock`, for finitely many invoices | `discard` |
| `SettlesWholeSets`, `OnePending` | `ConfirmSettlesAll`, `OnePendingPerInvoice` | `verify` |
| `LedgerShowsInvoices` | `LedgerMirrors` | `defer`, `recompute`, `discard` |
| `Refinement` | `ImplementsContract` | unlocked writers, `verify` |
| `ContractBacked` | the contract keeps paid invoices settled | – |
| `SalesTypes`, `SalesInvariant` (`StorefrontProofs`) | `TypeOK`, `SalesInv` | – |
| `SalesExactlyOnce` | `ImplementsSales` | – |
| `RefundsLeaveNoConfig` | `RefundedHasNoUser` | creates that fail after they worked |
| `RefundsLeaveNoQuota` | `NoFreeRenewal` | pause and resume |
| `AdminTypes`, `KeyedOnce`, `EditsAlwaysCompose` (`ShopProofs`) | `TypeOK`, `OncePerKey`, `EditsCompose` of `ShopAdmin` | – |
| `TypesHold`, `KeyedOnceForAll`, `EditsComposeForAll` | the same with customers at work | – |
| `TrialsAreRationed`, `MoneyAlwaysAddsUp` | `OneTrialAMonth`, `MoneyAddsUp` | – |
| `DepositTypesHold`, `BillingTypesHold` (`DepositsProofs`) | all types of `Deposits` and `MonthlyBilling` | – |
| `RatesAreReal` | `RateIsReal` | slips after a first fetch or several moves |
| `SettledStays` | `SettledIsFinal` | – |
| `ToldOncePerInvoice` | `ToldOnce`, for finitely many workers | – |
| `StoredStaysFresh`, `CompletedBillsAll` | `StoredNeverOlder`, `CompletedIsBilled` | – |
| `MeteringTypesHold` (`MeteringProofs`) | all types of `Metering` | – |
| `UsageIsKept` | `NothingLost` | renewals beside restored backups, two renewals on a day |
| `OverageIsTaken` | `OverageIsReal` | restored backups, two renewals on a day |
| `DeliveryTypesHold`, `DuplicatesArePaid` (`DeliveriesProofs`) | `TypeOK`, `DuplicatesPaid`, for finitely many workers | – |
| `BackupTypesHold` (`ShopNoticesProofs`) | all types of `BackupRestore` and `ShopNotices` | – |
| `SecretsStayReadable` | `SecretsReadable` | other servers' archives restored together or beside a backup |
| `LastBackupIsHeld` | `StampedIsHeld` | – |
| `StampedMeansTold`, `ToldOnceEach` | `StampMeansTold`, `ToldOnce` | renewals between a scan and its time, or before a restore |
| `PanelUsersTypeCorrect` (`PanelUsersProofs`) | `TypeOK` | – |
| `PurgesOnlyTheGone`, `DeletesOnlyWhatItNamed` | `PurgedWasGone`, `DeletesOnlyNamed` | – |

### Settlements

`PaidIsBacked` is not inductive: between the decision of a reversal and its
commit, another payment may be confirmed or rejected. `IInv` therefore adds that
row locks are exclusive and what each session may rely on at each step
(`SessionSound`): the rows of its payment's set are locked, still to be locked or
gone (`PaymentHeld`); a settlement writes only locked members of its payment's set
and then confirms it (`SettlementDecided`); a reversal un-pays exactly the
invoices its payment alone settles, which stays true because confirming or
reversing another payment of these invoices needs their row locks
(`ReversalDecided`); unmarking holds the payments it takes back (`UnmarkHeld`);
and what an unlocked writer remembers is never paid (`StatusRemembered`). The
proof has one lemma per action and a few general ones: `Frame` (a session whose
rows nobody wrote stays sound), `AtomicStep`, `CommitStep`, `LocalStep`.

What the locks buy builds on it. `LockOrder`: who waits holds nothing, and
what a session has locked comes before what it still locks. Of all sessions that
wait, the one that waits for the greatest row therefore waits for somebody who
goes on; `discard` locks an invoice before its payments and has to stay out.
`ConfirmReady` says that at its commit a confirmation holds its whole set, each
member owed or paid already; `SubmitReady` that a submission holds every row it
asked for when it looks for pending payments, so that nobody else's payment gets
one before it commits. `verify` stays out of both, because it makes a rejected
payment pending again without that look (section 3). The ledger shows the
invoices as long as nobody writes a status remembered from before
(`defer`, `recompute`) or deletes a row that was sent. For the refinement each
commit is one step of the contract, with `ReversalReady` and `UnmarkReady`
providing its guards, and every other step is a stutter.

`PaidBacked` and `ReversalSafe` need no such restriction: they hold with every
handler there is. `ContractBacked` is about the contract alone, with statuses and
settled sets of its own: what any other implementation of it would have, too.

### Sales

`SalesInv` is the conjunction of what a purchase (`PurchaseSound`), an order
(`OrderSound`), a hold (`HoldSound`) and a renewal operation (`RenewalSound`) say
of each other, what a worker in the middle of a purchase or a renewal may rely on
(`CreatorSound`, `RenewerSound`), and that no two workers are in the middle of the
same one (`WorkersApart`), which rests on the lease and the claim. It holds with every job,
any crashes and failures, and from it each step is a step of `StorefrontSales` or
a stutter: `Buy` pays, `Arm` reserves, `Debit` takes a hold, a refund returns.

`RefundInv` adds that the panel has no user for an order that does not exist or was
refunded, and that a creator knows what it made; a create that fails after it
worked is what breaks it. `QuotaInv` adds that a renewal owns its order until it
ends or the config is gone, and that nothing is charged before the absolute target
is stored; a pause in another process takes the order away from its renewal, which
`FindFirePause.cfg` shows.

That every reservation is armed on some order (`HoldsAreArmed`) is not among them, as
the code does not see to it: a stale order's columns can be cleared or overwritten
(`FindForgottenHold.cfg`).

### The shop's administration and its customers

`ShopAdmin` and `ShopCustomers` act on the same rows, so every invariant is proved
for `ShopAdmin` first and then for both together. `Typed` adds to `TypeOK` what a
request holds at each step (`Wellformed`, `Good`): the database it read is a
well-typed one, a part of a bulk decision is about a top-up of its parent, a
sweep's command has the sweep's key. The lemmas about `Outcomes` say what each
command may change and are used by everything after.

`OncePerKey` is an action property of counters; `KeysOK` is what makes them agree.
For each key the stored row, the effects so far, the calls and the answer fit
together (`Fits`), for a plain command, one with an external call and a bulk one
each in its way; a request at work on a key found no row, or made the one there is
(`Keyed`); and only one request at a time is at work on a key (`OneAtWork`), which
`Busy` and `Claim` give: a claim waits for one that is open and finds the row of one that calls.

`EditsCompose` needs that a request at work saw a version not newer than the shop's, and
that where it saw the same version it holds the same configuration (`ViewOK`): every
step that changes the configuration moves the version, which `Alike` keeps track of.

`TrialsOK` counts the trials a customer has, the one that is about to be made and those a
restart left for the reaper (`Open`) against the flag, the reset and the trials that
were taken for failed; it needs `OneServed`, one purchase or
trial of a customer at a time.

`MoneyAddsUp` adds up sums over all top-ups, confirmations and uses. That a step that
moves one of them moves the sum by as much (*Sums over finite
sets*) is proved by well-founded induction over the parts of a finite set, from
`FS_StrictSubsetOrderingWellFounded` and `WFMin`. `BooksAre` is the invariant: balances and uses add
up for the database and for the operations (`Settled`, `Counted`), a card that was not
taken has cost nothing (`Unpaid`), the card that is charged next is its buyer's
(`Charging`), and there is an unused id for each that is about to be written (`Roomy`).
A command that was read before another one committed writes only the attributes it
changes and, where it adds, on the row's value of now (`Locked`), which is where the
mutant `LockedButAdjust` breaks it.

### Billing, rates and deposits

`RateInv` says that each cached rate is a price of some moment not before the time
it carries (`Genuine`); a stop between the two commits leaves an older time, which
only makes the rate stale earlier. Where a source can slip, the band has to reject
the tenfold price, and that needs a rate to compare with and prices that
double or halve at most once (`Calm`, from the hypothesis `SlipsShow`): with no rate before,
or after two moves in the wrong direction, a slip is accepted, which is a finding.

`FinalInv` is about the moment at which a check reads the receipt (`check.newest`): a
block that is by then deeper than any replacement reaches (`Old`) is the
transaction's for good (`Anchored`). The depth that is compared is taken from a height
read later. Where the blocks between the two (`Meanwhile`) do not make up the
confirmations beyond the deepest replacement, what is accepted was `Old` when the receipt
was read, and its settlement stays (`Rested`).

`ToldOnce` compares counters, so its invariant counts: `told[a]` plus the workers
that still owe `a` a message somebody asked for again is at most `redone[a]` plus
one for the invoice that is out or whose message is out and not recorded
(`Bound`). `Busies` says when a worker may be in the middle of a message, under
the invoice's advisory lock, `Agains` what a repeated delivery has to do.

`PanelsInv` relates a panel to its copies. What is stored and what a sync has read are
of editions not after the panel's; a sync that no success overtook (`newer`) has read
something not before what is stored, so writing it makes nothing older. As a panel's
admins only become fewer, so do those that are stored, while the rows only grow.

`OwingInv` follows a cycle from its generation to its end. A cycle without a problem so far
(`Clean`) has everybody it owes an invoice below a root that is exempt or seen to
(`Accounted`): the root is gone, or its invoice is there and is out, cannot be
delivered, or is still to come: not listed, listed or in the worker's hands
(`Ahead`). When the last draft is dealt with, nothing is ahead any more, which is
`CompletedIsBilled`. Four things disturb it, and a lemma deals with each: rows that a sync
adds move nobody out of a branch (`BelowGrows`); a delivery by hand and a payment
leave the invoice out (`Keeps`); a generation by hand deletes only drafts of resellers
without sales, and whoever lost them is owed nothing any more (`OwingByHand`); and a
second cycle cannot begin (`Cycles`, from the lock of `run_due`).

### Metering

A sync writes what it read some time ago, so a user is followed along a chain: from the
snapshot over a fetch that is under way to the panel. Each link says what may have
happened in between, and a write moves the snapshot one link on; all other fetches
are late from then on and are never written, so that links never have to be joined.

For `NothingLost` a link (`Later`) says that the start date moved on, or that it is the same
and the counter did not go down unless a reset marks the cycle, or, in a world with
backups, unless a restore did it that the next sync has yet to see. A user nobody bought
anything for is nowhere (`Unborn`), so that no old row can come back under its name.
`Banked` is the property itself, kept by each of the three ways to compute a look.

For `OverageIsReal` a link (`Linked`) says what the next look would add: the running
total with it is at most the cycle's real traffic, and the overage with it at most the
real excess. On a fetch it has to be said twice, from the snapshot to what was read
and, as if that had been written already, from there to the panel (`TotalAt`,
`TakenAt`). That a month's meter is one summand of a user's overage is the same lemma about
sums that `ShopProofs` rests on.

A user renewed a second time on the day of its renewal, or taken back by a restore to a
date it has had before, shows the sync a start date that does not tell the two cycles
apart. The hypotheses of `UsageIsKept` are sharp: TLC finds lost usage in either world. With
two renewals on a day it finds overage nobody took, too; beside restored backups it
finds none in the run's worlds, where `OverageIsReal` is checked and not proved.

### Broadcasts

`DuplicatesPaid` compares two counters, and neither its histories nor the rows alone are
enough. `Queue` says what a row, a worker and the two together look like: a worker's
answers are about its claims, what it stages is still what the table has or
what it read (`Fit`), no two transactions have staged the same row, and a row that is
being sent has a worker that claimed it or had its lease taken. On it rests an
account for every recipient (`Paid`): the messages received, and the claims for
which a run may still send one that nobody will record (`Owing`), are together at
most the lost outcomes, and one more unless a further claim is to be expected
(`Open`). Each action moves both sides alike (`PaidTurn`, and one lemma per action):
a claim closes an open row and owes, a clear answer turns what was owed into
what was received, an outcome overtaken by a lease, a crash or another worker's
write opens the row again and counts as lost. For a worker that is alone (`Lone`), a
row's sends never exceed its attempts and its attempts never exceed
`_MAX_ATTEMPTS`, strictly less where the row may be claimed or its claim not be sent
yet (`Within`, `Spared`).

### Backups and notices

`SecretsInv`: an archive's secrets are under the key it was made with (`SelfKeyed`);
with archives of this server only there is one key (`OneKey`); with another
server's, at most one restore is under way, all processes have the key of `.env`
while it begins, and in its middle every secret is under the archive's key or
already under the new one (`KeysAgree`, `Underway`). The hypothesis `SecretsCareful` is that of
the world flags: two such restores at a time, or a backup inside one, are findings.

`StampInv` says that every stamp, in the database or in an archive, is covered by an
archive somebody holds or is being handed, or is that of a download that was given up,
that the newest file is on the disk, and that what is about to be stamped is held
already, unless it is a download (`MakingOne`). It needs no hypothesis.

`ToldInv` says the same of notices in rows, archives and the sweep's batch.
`OnceInv` again counts: repeats so far and notices that could be repeated now
are at most the delivered messages that were taken for failed, a batch for each stop and
what each import rewinds.

### Deletions on a panel

Neither property of `PanelUsers` follows from a step alone: a purge acts on a verdict several
calls old. The inductive invariant is
`IInv == TypeOK /\ Numbered(panel) /\ Proven /\ Aimed /\ Fixed /\ Remembered`: the
panel's numbers stay apart; every user with a purgeable verdict was absent since
the request began (`Proven`); a number that was looked up belongs to the named
user, unless the panel was renumbered since (`Aimed`, `Remembered`); and owners
and guards of a request are those of its beginning (`Fixed`). There is one lemma
per group of actions (`PanelNextKeeps`, `CreateNextKeeps`, `RowNextKeeps`,
`DeleteNextKeeps` with one lemma for each step of a request), and `AsideKeeps` for
steps that do not touch requests.

### Only model-checked

- Liveness (`HandlersFinish`, `SalesEnd`, `SettledIsRestored`, `CycleEnds`,
  `DeliveriesEnd`, `DueIsTold`), which is beyond TLAPS.
- `Enforcement` with all its properties. `FreezeHolds` and `UsersHandedBack` hold where
  the panel answers: a freeze whose read fails after a restore keeps columns that were cleared, and
  a hand-back that is refused returns early (`enforcement.py:1739`).
- `BilledOnce`, and `OverageIsReal` beside restored backups. They are
  not invariants of every world: a backup of the panel brought back together with resets
  and renewals, or a user renewed twice on a day, bill too much (section 3); the
  worlds of the run leave these combinations out.

## 5. Hazards without room in the list

`PROJECT.json` lists the hazards with their properties. These are real, too, and
either not covered or covered by a property named for another one: deletions that
lock against the lock order; stamping `enforced` on an invoice paid in between;
recomputing on an invoice read long before; the window between reversal and
refund; verification that re-opens a payment; a status restored from before the
claim; capacity checked against the last sync; a deletion that widens, a purge
under waiting actions and lost answers of limits in enforcement; a refused call
in the pass in which a payment lands; a renewal seen half by a sync; terms of a
code changed after a use; a shop closed on an old scan; a co-admin removed in the
middle of a flow; a bulk decision that stops half-way; a token cleared on behalf
of an older one; a recipient cancelled while sent; a sync that read the panel
before a delete; a kill between import and re-encryption.

## 6. Not modelled

- Portal login: a link is consumed by a primary key and sessions are compared with
  an epoch, one statement each; the unit tests reach it.
- Scheduler: which jobs never overlap is stated in the modules, as their workers.
- Settings, CRM, reports, analytics, PDF and the platform bot's screens: key-value
  rows, read-only queries and rendering. The storefront's analytics and reporting
  modules, the CRM and the portal's views are the largest part of the code that no
  definition maps; nothing in them writes shared state in more than one statement.
- Amounts: prices, discounts, floors and rounding are functions of the rows, without
  interleaving; a bounded reference check of `pricing.py` and `invoice_engine.py`
  would be the next addition.
- Traffic audit and abuse notices: they report and change nothing that is billed.
- Frontend, containers and the panel's own behaviour beyond what the client relies on.

What would come next: inductive invariants for `UsersHandedBack` and `FreezeHolds` of the
enforcement queue and `BilledOnce` of the meter, and pricing as functions against a reference.
