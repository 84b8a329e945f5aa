----------------------------- MODULE Deliveries -----------------------------
(***************************************************************************)
(* Messages of one shop to its customers: jobs with a recipient row each,  *)
(* the worker that claims rows under a lease, sends outside transactions   *)
(* and records the outcomes, cancellation, retention, and the bot's token, *)
(* which the owner replaces and the fleet of pollers takes away.           *)
(*                                                                         *)
(* A transaction that other ones may overtake is read in one step and      *)
(* committed in a later one.  Its flushed rows stay locked in between.     *)
(***************************************************************************)
EXTENDS Integers, FiniteSets, FiniteSetsExt, Functions

CONSTANTS
    Jobs, Rows, JobOf,  \* jobs, their possible recipients, and the job of each
    Direct,             \* jobs that are a message to one customer
    Workers,            \* processes that may run the worker
    Worlds,             \* [workers, rows, does]: what happens at all, one in each behaviour
    BATCH, MAX_ATTEMPTS,
    MaxTokens,          \* bound: tokens Telegram issues for the bot
    MaxFaults,          \* bound: crashes and lost answers
    None, Malformed

ASSUME BoundsAssumption == BATCH \in Nat \ {0} /\ MAX_ATTEMPTS \in Nat \ {0} /\ MaxTokens \in Nat \ {0}
ASSUME JobOfAssumption == JobOf \in [Rows -> Jobs]
ASSUME IdsAssumption == Rows \subseteq Nat /\ IsFiniteSet(Workers)
ASSUME WorldsAssumption == \A w \in Worlds : w.workers \subseteq Workers

VARIABLES
    job,        \* status of each storefront_broadcast_jobs row
    rec,        \* storefront_delivery_recipients
    work,       \* run of each worker
    cancel,     \* rows a cancellation under way has read
    stored,     \* bot_token_enc
    alive,      \* the token Telegram accepts
    runner,     \* the bot's poller in the fleet
    starting,   \* the reconciliation's attempt to start one
    world, faults,
    received,   \* history: how often each recipient got the message
    tries,      \* history: calls of send_message for each recipient
    unrecorded  \* history: claims of each row whose outcome was lost

bot == <<stored, alive, runner, starting>>
history == <<received, tries, unrecorded>>
vars == <<job, rec, work, cancel, bot, world, faults, history>>

\* Mutant of CLAIMABLE: a lease that ran out is claimed by nobody.
CLAIMABLE_waiting == {"pending", "retry_wait"}
CLAIMABLE == {"pending", "retry_wait", "unknown"}
TERMINAL == {"sent", "blocked", "failed", "canceled"}
Tokens == 1..MaxTokens
RowsOf(j) == {r \in Rows : JobOf[r] = j}
\* late, as history: the rows whose lease a worker has lost.
Idle == [at |-> "idle", rows |-> {}, late |-> {}, token |-> None, out |-> <<>>,
         read |-> <<>>, staged |-> <<>>, ends |-> <<>>]

Row == [status : CLAIMABLE \cup TERMINAL \cup {"sending"}, owner : Workers \cup {None},
        attempts : Nat, due : BOOLEAN, over : BOOLEAN]
Job == {"queued", "running", "completed", "canceled"}
Runner == [token : Tokens \cup {Malformed}, at : {"polling", "revoking", "done"}]
Start == [token : Tokens \cup {Malformed}, at : {"get_me", "revoking"}]
At == {"idle", "reclaiming", "claiming", "claimed", "revoking", "sending", "sent", "read", "recording"}
Answer == {"sent", "failed", "blocked", "park"}
Partly(f, S, T) == DOMAIN f \subseteq S /\ f \in [DOMAIN f -> T]
ASSUME NoneDeliveriesAssumption ==
    /\ None \notin Workers \cup Row \cup Job \cup Runner \cup Start /\ None # Malformed
    /\ \A rows \in SUBSET Rows : None # rows
TypeOK ==
    /\ job \in [Jobs -> Job \cup {None}] /\ rec \in [Rows -> Row \cup {None}]
    /\ \A w \in Workers :
        LET x == work[w]
        IN /\ x.at \in At /\ x.rows \subseteq Rows /\ x.late \subseteq Rows /\ x.token \in Tokens \cup {None}
           /\ Partly(x.out, Rows, Answer) /\ Partly(x.read, Rows, Nat)
           /\ Partly(x.staged, Rows, Row) /\ Partly(x.ends, Jobs, Job)
    /\ cancel \in [Jobs -> {None} \cup (SUBSET Rows)]
    /\ stored \in Tokens \cup {Malformed, None} /\ alive \in Tokens
    /\ runner \in Runner \cup {None} /\ starting \in Start \cup {None}
    /\ {received, tries, unrecorded} \subseteq [Rows -> Nat]
    /\ \A r \in Rows : rec[r] # None =>
        /\ rec[r].status = "sending" => rec[r].owner # None
        /\ rec[r].status \in TERMINAL \ {"canceled"} => rec[r].owner = None

Init ==
    /\ job = [j \in Jobs |-> None] /\ rec = [r \in Rows |-> None]
    /\ work = [w \in Workers |-> Idle] /\ cancel = [j \in Jobs |-> None]
    /\ world \in Worlds /\ faults = 0
    /\ alive = 1 /\ stored \in IF "legacy" \in world.does THEN {Malformed} ELSE {1}
    /\ runner = (IF stored = 1 THEN [token |-> 1, at |-> "polling"] ELSE None) /\ starting = None
    /\ received = [r \in Rows |-> 0] /\ tries = received /\ unrecorded = received

-----------------------------------------------------------------------------
(* Jobs.                                                                   *)

Onto(new, old) == [x \in DOMAIN new \cup DOMAIN old |-> IF x \in DOMAIN new THEN new[x] ELSE old[x]]
With(rows) == Onto(rows, rec)
NewRow == [status |-> "pending", owner |-> None, attempts |-> 0, due |-> TRUE, over |-> FALSE]
snapshot_job(j, audience) ==
    /\ job[j] = None
    /\ job' = [job EXCEPT ![j] = "queued"]
    /\ rec' = With([r \in audience |-> NewRow])
\* The segment's customers that are not banned, perhaps none.
customers_in_segment(j) == IF RowsOf(j) \cap world.rows = {} THEN {} ELSE SUBSET (RowsOf(j) \cap world.rows)
enqueue_broadcast(j) ==
    /\ j \notin Direct
    /\ \E audience \in customers_in_segment(j) : snapshot_job(j, audience)
    /\ UNCHANGED <<work, cancel, bot, world, faults, history>>
enqueue_direct(j) ==
    /\ j \in Direct
    /\ \E r \in RowsOf(j) \cap world.rows : snapshot_job(j, {r})
    /\ UNCHANGED <<work, cancel, bot, world, faults, history>>

Locked == UNION {DOMAIN work[w].staged : w \in Workers}
\* What _recompute_jobs makes of a job's status when it sees these rows.
Recomputed(j, rows) ==
    LET mine == {r \in RowsOf(j) : rows[r] # None}
    IN CASE job[j] = "canceled" -> "canceled"
         [] mine # {} /\ \A r \in mine : rows[r].status \in TERMINAL -> "completed"
         [] job[j] = "queued" -> "running"
         [] OTHER -> job[j]
\* The status is written only where it differs from the one that was read.
Ends(rows) ==
    LET seen == {JobOf[r] : r \in DOMAIN rows}
        new == [j \in seen |-> Recomputed(j, With(rows))]
    IN Restrict(new, {j \in seen : new[j] # job[j]})

\* cancel_unsent reads without locks; its update waits for the rows' locks and overwrites.
CancelRead(j) ==
    /\ "cancel" \in world.does /\ job[j] # None /\ cancel[j] = None
    /\ cancel' = [cancel EXCEPT ![j] = {r \in RowsOf(j) : rec[r] # None /\ rec[r].status \in CLAIMABLE}]
    /\ UNCHANGED <<job, rec, work, bot, world, faults, history>>
CancelWrite(j) ==
    /\ cancel[j] # None /\ cancel[j] \cap Locked = {}
    /\ rec' = With([r \in cancel[j] |-> [rec[r] EXCEPT !.status = "canceled", !.due = FALSE]])
    /\ job' = [job EXCEPT ![j] = "canceled"] /\ cancel' = [cancel EXCEPT ![j] = None]
    /\ UNCHANGED <<work, bot, world, faults, history>>

\* Bound: the rows are days old by then, and nothing else is at them.
prune_recipients(j) ==
    /\ "prune" \in world.does /\ job[j] \in {"completed", "canceled"} /\ cancel[j] = None
    /\ \A w \in Workers : work[w].rows \cap RowsOf(j) = {}
    /\ RowsOf(j) \cap Locked = {} /\ \E r \in RowsOf(j) : rec[r] # None
    /\ rec' = With([r \in RowsOf(j) |-> None])
    /\ UNCHANGED <<job, work, cancel, bot, world, faults, history>>

-----------------------------------------------------------------------------
(* The worker.                                                             *)

To(w, at) == work' = [work EXCEPT ![w].at = at]
Batch(rows) == {b \in SUBSET rows : Cardinality(b) = IF Cardinality(rows) > BATCH THEN BATCH ELSE Cardinality(rows)}
Quiet == UNCHANGED <<cancel, world, faults>>
Data == UNCHANGED <<job, rec, bot, history>>

Delivered(w, r) == r \in DOMAIN work[w].out /\ work[w].out[r] = "sent"
Plus(f, rows) == [r \in Rows |-> f[r] + IF r \in rows THEN 1 ELSE 0]
LostTo(w, rows) == [v \in Workers |-> IF v = w THEN work[w]
                                     ELSE [work[v] EXCEPT !.late = @ \cup (rows \cap work[v].rows)]]

\* A lease that ran out: once more, unless the attempts are used up.
Reclaimed(r) ==
    LET spent == rec[r].attempts >= MAX_ATTEMPTS
    IN [rec[r] EXCEPT !.status = IF spent THEN "failed" ELSE "unknown", !.owner = None,
                      !.over = FALSE, !.due = ~spent]
Expired == {r \in Rows \ Locked : rec[r] # None /\ rec[r].status = "sending" /\ rec[r].over}
RunOnce(w) ==
    /\ w \in world.workers /\ work[w].at = "idle"
    /\ \E rows \in Batch(Expired) :
        LET staged == [r \in rows |-> Reclaimed(r)]
        IN /\ rows # {} \/ \E r \in Rows : rec[r] # None /\ rec[r].due
           /\ work' = [work EXCEPT ![w] = [Idle EXCEPT !.at = IF rows = {} THEN "claiming" ELSE "reclaiming",
                                                       !.staged = staged, !.ends = Ends(staged)]]
    /\ Data /\ Quiet
\* The transaction that reclaimed or recorded commits its rows and its jobs' statuses.
Commit(w) ==
    LET rows == IF work[w].at = "reclaiming" THEN DOMAIN work[w].staged ELSE {}
    IN /\ work[w].at \in {"reclaiming", "recording"}
       /\ rec' = With(work[w].staged) /\ job' = Onto(work[w].ends, job)
       /\ work' = [LostTo(w, rows) EXCEPT ![w] = [Idle EXCEPT !.at = "claiming"]]
       /\ unrecorded' = Plus(unrecorded, {r \in rows : Delivered(rec[r].owner, r)})
       /\ UNCHANGED <<bot, received, tries>> /\ Quiet

Claimable == {r \in Rows \ Locked : rec[r] # None /\ rec[r].status \in CLAIMABLE /\ rec[r].due}
Claimed(w, r) ==
    [rec[r] EXCEPT !.status = "sending", !.owner = w, !.over = FALSE, !.attempts = @ + 1]
Claim(w) ==
    /\ work[w].at = "claiming" /\ Claimable # {}
    /\ \E rows \in Batch(Claimable) :
        /\ rec' = With([r \in rows |-> Claimed(w, r)])
        /\ job' = [j \in Jobs |-> IF job[j] = "queued" /\ RowsOf(j) \cap rows # {} THEN "running" ELSE job[j]]
        /\ work' = [work EXCEPT ![w].at = "claimed", ![w].rows = rows]
    /\ UNCHANGED <<bot, history>> /\ Quiet
Drained(w) ==
    /\ work[w].at = "claiming" /\ Claimable = {}
    /\ work' = [work EXCEPT ![w] = Idle] /\ Data /\ Quiet

\* Without a token everything is parked; one that cannot be a token is taken away first.
Parked(w) == [r \in work[w].rows |-> "park"]
ReadToken(w) ==
    /\ work[w].at = "claimed"
    /\ work' = [work EXCEPT ![w] =
         CASE stored = None -> [@ EXCEPT !.at = "sent", !.out = Parked(w)]
           [] stored = Malformed -> [@ EXCEPT !.at = "revoking", !.out = Parked(w)]
           [] OTHER -> [@ EXCEPT !.at = "sending", !.token = stored]]
    /\ Data /\ Quiet
MarkShopRevoked(w) ==
    /\ work[w].at = "revoking" /\ To(w, "sent") /\ stored' = None
    /\ UNCHANGED <<job, rec, alive, runner, starting, history>> /\ Quiet

Inc(f, r) == [f EXCEPT ![r] = @ + 1]
\* What send_with_flood_control reports, and whether the customer got the message.
Answers(w) ==
    IF work[w].token # alive THEN {<<"failed", FALSE>>}
    ELSE {<<"sent", TRUE>>, <<"failed", FALSE>>} \cup
         (IF "blocked" \in world.does THEN {<<"blocked", FALSE>>} ELSE {}) \cup
         (IF "unclear" \in world.does /\ faults < MaxFaults THEN {<<"failed", TRUE>>} ELSE {})
Send(w) ==
    LET left == work[w].rows \ DOMAIN work[w].out
        r == Min(left)
    IN /\ work[w].at = "sending" /\ left # {}
       /\ \E answer \in Answers(w) :
            LET unclear == answer = <<"failed", TRUE>>
                lost == unclear \/ (answer[2] /\ r \in work[w].late)
            IN /\ work' = [work EXCEPT ![w].out = Onto([x \in {r} |-> answer[1]], @),
                                       ![w].at = IF left = {r} THEN "sent" ELSE @]
               /\ received' = IF answer[2] THEN Inc(received, r) ELSE received
               /\ unrecorded' = IF lost THEN Inc(unrecorded, r) ELSE unrecorded
               /\ faults' = faults + IF unclear THEN 1 ELSE 0
       /\ tries' = Inc(tries, r)
       /\ UNCHANGED <<job, rec, cancel, bot, world>>

\* Mutant of Own: without the test of the lease's owner.
OwnOrTaken(w) == {r \in work[w].rows : rec[r] # None}
Own(w) == {r \in work[w].rows : rec[r] # None /\ rec[r].status = "sending" /\ rec[r].owner = w}
\* The attempts that recording reads go with the rows until the update.
ReadRows(w) ==
    /\ work[w].at = "sent"
    /\ work' = [work EXCEPT ![w].at = "read", ![w].rows = Own(w), ![w].late = {},
                            ![w].read = [r \in Own(w) |-> rec[r].attempts]]
    /\ unrecorded' = Plus(unrecorded, {r \in work[w].rows \ (Own(w) \cup work[w].late) : Delivered(w, r)})
    /\ UNCHANGED <<job, rec, bot, received, tries>> /\ Quiet
\* The update of a row: attempts only where an outcome changes them.
Outcome(r, answer, attempts) ==
    LET spent == attempts >= MAX_ATTEMPTS
        status == CASE answer \in {"sent", "blocked"} -> answer
                    [] answer = "failed" /\ spent -> "failed"
                    [] OTHER -> "retry_wait"
        back == IF attempts > 0 THEN attempts - 1 ELSE 0
    IN [rec[r] EXCEPT !.status = status, !.owner = None, !.over = FALSE, !.due = FALSE,
                      !.attempts = IF answer = "park" THEN back ELSE @]
\* A claim that another worker made in between is overwritten with it.
apply_outcomes(w) ==
    LET staged == [r \in work[w].rows |-> Outcome(r, work[w].out[r], work[w].read[r])]
    IN /\ work[w].at = "read" /\ work[w].rows \cap Locked = {}
       /\ work' = [work EXCEPT ![w].at = "recording", ![w].staged = staged, ![w].ends = Ends(staged)]
       /\ unrecorded' = Plus(unrecorded, {r \in work[w].rows \cap work[w].late : ~Delivered(w, r)})
       /\ UNCHANGED <<job, rec, bot, received, tries>> /\ Quiet

\* The process stops, or an exception ends the run; an open transaction is rolled back.
Crash(w) ==
    /\ "crash" \in world.does /\ faults < MaxFaults /\ work[w].at # "idle"
    /\ faults' = faults + 1 /\ work' = [work EXCEPT ![w] = Idle]
    /\ unrecorded' = Plus(unrecorded, {r \in work[w].rows \ work[w].late : Delivered(w, r)})
    /\ UNCHANGED <<job, rec, bot, received, tries, cancel, world>>

\* Time.
Wait(r) ==
    /\ rec[r] # None /\ rec[r].status = "retry_wait" /\ ~rec[r].due /\ r \notin Locked
    /\ rec' = [rec EXCEPT ![r].due = TRUE]
    /\ UNCHANGED <<job, work, cancel, bot, world, faults, history>>
\* A lone worker never looks at the leases of rows it still has.
Noticed(r) == Cardinality(world.workers) > 1 \/ r \notin work[rec[r].owner].rows
LeaseOver(r) ==
    /\ rec[r] # None /\ rec[r].status = "sending" /\ ~rec[r].over /\ r \notin Locked
    /\ Noticed(r)
    /\ rec' = [rec EXCEPT ![r].over = TRUE]
    /\ UNCHANGED <<job, work, cancel, bot, world, faults, history>>

-----------------------------------------------------------------------------
(* The bot's token.                                                        *)

SameQueue == UNCHANGED <<job, rec, work, cancel, world, faults, history>>
\* The owner has BotFather issue a new token, and gives the shop the current one.
Reissue ==
    /\ "token" \in world.does /\ alive < MaxTokens /\ alive' = alive + 1
    /\ UNCHANGED <<stored, runner, starting>> /\ SameQueue
Accepted(token) == token = alive
upsert_bot ==
    /\ \E token \in Tokens : Accepted(token) /\ stored # token /\ stored' = token
    /\ UNCHANGED <<alive, runner, starting>> /\ SameQueue

\* A poller's third refusal in a row; mark_revoked clears whatever token is stored by then.
Refused ==
    /\ runner # None /\ runner.at = "polling" /\ runner.token # alive
    /\ runner' = [runner EXCEPT !.at = "revoking"]
    /\ UNCHANGED <<stored, alive, starting>> /\ SameQueue
PollerRevokes ==
    /\ runner # None /\ runner.at = "revoking"
    /\ runner' = [runner EXCEPT !.at = "done"] /\ stored' = None
    /\ UNCHANGED <<alive, starting>> /\ SameQueue

\* reconcile: a runner without its row, with another token or ended is stopped; one that is
\* missing is started, which takes a getMe.
Reconcile ==
    LET keep == runner # None /\ runner.token = stored /\ runner.at # "done"
        start == ~keep /\ stored # None
    IN /\ starting = None /\ ~keep /\ (runner # None \/ start)
       /\ runner' = None
       /\ starting' = IF ~start THEN None
                      ELSE [token |-> stored, at |-> IF stored = Malformed THEN "revoking" ELSE "get_me"]
       /\ UNCHANGED <<stored, alive>> /\ SameQueue
GetMe ==
    /\ starting # None /\ starting.at = "get_me"
    /\ IF starting.token = alive
       THEN runner' = [token |-> starting.token, at |-> "polling"] /\ starting' = None
       ELSE starting' = [starting EXCEPT !.at = "revoking"] /\ UNCHANGED runner
    /\ UNCHANGED <<stored, alive>> /\ SameQueue
GetMeFails ==
    /\ starting # None /\ starting.at = "get_me" /\ starting' = None
    /\ UNCHANGED <<stored, alive, runner>> /\ SameQueue
StartRevokes ==
    /\ starting # None /\ starting.at = "revoking" /\ starting' = None /\ stored' = None
    /\ UNCHANGED <<alive, runner>> /\ SameQueue

-----------------------------------------------------------------------------
WorkerStep(w) ==
    \/ RunOnce(w) \/ Commit(w) \/ Claim(w) \/ Drained(w) \/ ReadToken(w) \/ MarkShopRevoked(w)
    \/ Send(w) \/ ReadRows(w) \/ apply_outcomes(w)
Fleet == Refused \/ PollerRevokes \/ Reconcile \/ GetMe \/ GetMeFails \/ StartRevokes
Next ==
    \/ \E j \in Jobs : enqueue_broadcast(j) \/ enqueue_direct(j) \/ CancelRead(j) \/ CancelWrite(j) \/ prune_recipients(j)
    \/ \E w \in Workers : WorkerStep(w) \/ Crash(w)
    \/ \E r \in Rows : Wait(r) \/ LeaseOver(r)
    \/ Reissue \/ upsert_bot \/ Fleet

\* The scheduler starts the worker every minute, delays and leases pass, a request under
\* way is answered.  Nothing makes the owner give the shop a token.
Fairness ==
    /\ \A w \in Workers : WF_vars(WorkerStep(w))
    /\ \A r \in Rows : WF_vars(Wait(r)) /\ WF_vars(LeaseOver(r))
    /\ \A j \in Jobs : WF_vars(CancelWrite(j))
    /\ WF_vars(Fleet)
Spec == Init /\ [][Next]_vars /\ Fairness

-----------------------------------------------------------------------------
(* Properties.                                                             *)

\* storefront_delivery.py: delivery is at least once, and a customer gets a message again only
\* for a claim whose outcome was lost, by Telegram's answer, a crash, or another worker.  One
\* worker never sends more often than _MAX_ATTEMPTS, parked claims and crashes included.
DuplicatesPaid ==
    \A r \in Rows :
        /\ received[r] <= 1 + unrecorded[r]
        /\ Cardinality(world.workers) = 1 => tries[r] <= MAX_ATTEMPTS

\* Once the shop keeps a working token every recipient gets an outcome, whatever crashed, ran
\* out, was canceled or parked before; and, with one worker, every job of recipients ends.
Ended(r) == rec[r] = None \/ rec[r].status \in TERMINAL
Over(j) == job[j] \in {"completed", "canceled"} \/ \A r \in RowsOf(j) : rec[r] = None
DeliveriesEnd ==
    <>[](stored = alive) =>
        /\ \A r \in Rows : []<>Ended(r)
        /\ Cardinality(world.workers) = 1 => \A j \in Jobs : []<>Over(j)

=============================================================================
