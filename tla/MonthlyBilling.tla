--------------------------- MODULE MonthlyBilling ---------------------------
(***************************************************************************)
(* A billing cycle: the panels are synced, drafts are made from what was   *)
(* stored, every draft is sent, and a cycle that met a problem is tried    *)
(* again.  Beside it run the syncs, generations and deliveries the owner   *)
(* asks for in another process.                                            *)
(*                                                                         *)
(* A panel's data is its edition, a number that grows with every change,   *)
(* and an invoice's amount is the edition it was computed from.  One       *)
(* period is billed.  What a cycle or a request does between two commits   *)
(* of its own, reads before them included, is a step where nothing else    *)
(* in the code could tell the difference.                                  *)
(***************************************************************************)
EXTENDS Naturals, FiniteSets

CONSTANTS
    Panels, Admins, PanelOf,
    Owner,          \* a panel's owner, parent of its top resellers
    Trees,          \* parents the admins can have
    Exempt,         \* exclude_from_billing
    FeePayers,      \* resellers with a monthly fee for a shop of their own
    Reach,          \* "ok", "blocked" or "unmatched": a reseller's chat with the bot
    Workers,        \* processes that run the cycle or what the owner asks for
    Worlds,         \* what happens at all and how often, one of them in each behaviour
    MAX_ATTEMPTS,
    MaxEvents,      \* bound on what people do in any world
    None

ASSUME BoundsAssumption == {MAX_ATTEMPTS, MaxEvents} \subseteq Nat
ASSUME WorldsAssumption ==
    \A w \in Worlds : w.events \in 0..MaxEvents /\ w.faults \in Nat /\ w.trees \subseteq Trees
ASSUME PanelsAssumption == PanelOf \in [Admins -> Panels] /\ Owner \notin Admins
ASSUME TreesAssumption == Trees \subseteq [Admins -> Admins \cup {Owner, None}]

VARIABLES
    world, parent,
    panel,      \* each panel: its edition, its admins, and those with sales in the period
    stored,     \* each panel as the database has it, with the result of its last sync
    syncs,      \* syncs under way, one of the cycle's and one by hand for each panel
    inv,        \* each reseller's invoice of the period
    run,        \* the MonthlyBillingRun row
    work,       \* what each worker is doing
    over,       \* the month has ended, and with it the retries of this period
    events, faults,
    told,       \* history: messages with a reseller's invoice
    redone,     \* history: messages the owner asked for again, or that were out without a
                \* record, for a lost answer or a crash
    owing       \* history: resellers with sales the cycle's last generation should have billed,
                \* but for those whose sales a generation by hand has found gone since

history == <<told, redone, owing>>
world_ == <<world, parent, events, faults, over>>
billingVars == <<world, parent, panel, stored, syncs, inv, run, work, over, events, faults, history>>

Edition == 0..MaxEvents
Content == [edition : Edition, here : SUBSET Admins, sells : SUBSET Admins]
Stored == [edition : Edition, here : SUBSET Admins, sells : SUBSET Admins, rows : SUBSET Admins,
           synced : BOOLEAN, status : {"ok", "error"}]
SyncTask == [step : {"fetching", "fetched", "failing"}, data : Content \cup {None}, newer : BOOLEAN]
Keys == Panels \X {"cycle", "hand"}
Job == [step : {"idle", "syncing", "generated", "sending", "telling", "told"},
        cycle : BOOLEAN, todo : SUBSET Admins, at : Admins \cup {None},
        outcome : {"sent", "failed", "unsent"}, problem : BOOLEAN, again : BOOLEAN]
Idle == [step |-> "idle", cycle |-> FALSE, todo |-> {}, at |-> None, outcome |-> "unsent",
         problem |-> FALSE, again |-> FALSE]

TypeOK ==
    /\ world \in Worlds /\ parent \in Trees
    /\ panel \in [Panels -> Content]
    /\ stored \in [Panels -> Stored]
    /\ syncs \in [Keys -> SyncTask \cup {None}]
    /\ inv \in [Admins -> [status : {"draft", "sent", "paid"}, amount : Edition] \cup {None}]
    /\ run \in [status : {"none", "running", "retry", "failed", "completed"},
                attempts : 0..(MAX_ATTEMPTS + events), waiting : BOOLEAN]
    /\ work \in [Workers -> Job]
    /\ over \in BOOLEAN

AdminsOf(p) == {a \in Admins : PanelOf[a] = p}
Fresh(p) == [edition |-> 0, here |-> AdminsOf(p), sells |-> AdminsOf(p)]
\* Panels that were synced before, by the job that runs all day.
BillingInit(invoices, status) ==
    /\ parent \in world.trees
    /\ panel = [p \in Panels |-> Fresh(p)]
    /\ stored = [p \in Panels |-> [edition |-> 0, here |-> AdminsOf(p), sells |-> AdminsOf(p),
                     rows |-> AdminsOf(p), synced |-> TRUE, status |-> "ok"]]
    /\ syncs = [k \in Keys |-> None]
    /\ inv = invoices
    /\ run = [status |-> status, attempts |-> 0, waiting |-> FALSE]
    /\ work = [w \in Workers |-> Idle]
    /\ over = FALSE /\ events = 0 /\ faults = 0
    /\ told = [a \in Admins |-> 0] /\ redone = [a \in Admins |-> 0] /\ owing = {}

Event(e) == e \in world.does /\ events < world.events /\ events' = events + 1 /\ UNCHANGED <<world, parent, faults, over>>
Fault(e) == e \in world.does /\ faults < world.faults /\ faults' = faults + 1 /\ UNCHANGED <<world, parent, events, over>>

-----------------------------------------------------------------------------
(* The panels.                                                             *)

Change(p, here, sells) ==
    /\ panel' = [panel EXCEPT ![p] = [edition |-> @.edition + 1, here |-> here, sells |-> sells]]
    /\ UNCHANGED <<stored, syncs, inv, run, work, history>>
Sell(a) ==
    LET p == PanelOf[a]
    IN /\ Event("sales") /\ a \in panel[p].here
       /\ \E sells \in {panel[p].sells \cup {a}, panel[p].sells \ {a}} : Change(p, panel[p].here, sells)
\* An admin is removed, with the users below it.
Leave(a) ==
    LET p == PanelOf[a]
    IN /\ Event("leave") /\ a \in panel[p].here
       /\ Change(p, panel[p].here \ {a}, panel[p].sells \ {a})

-----------------------------------------------------------------------------
(* sync_panel.                                                             *)

NewSync == [step |-> "fetching", data |-> None, newer |-> FALSE]
Others == UNCHANGED <<panel, inv, run, work, history>>

SyncByHand(p) ==
    /\ Event("sync") /\ syncs[<<p, "hand">>] = None
    /\ syncs' = [syncs EXCEPT ![<<p, "hand">>] = NewSync]
    /\ Others /\ UNCHANGED stored

Fetch(k) ==
    /\ syncs[k] # None /\ syncs[k].step = "fetching"
    /\ \/ /\ syncs' = [syncs EXCEPT ![k].step = "fetched", ![k].data = panel[k[1]]]
          /\ UNCHANGED world_
       \/ /\ Fault("outage")
          /\ syncs' = [syncs EXCEPT ![k].step = "fetched"]
    /\ Others /\ UNCHANGED stored

\* Mutant of NewerSuccess: an older backup is written over a newer one.
NoGuard(k) == FALSE
\* _newer_success_since: another sync of the panel committed after this one began.
NewerSuccess(k) == syncs[k].newer

\* Under the panel's lock: admins and users are stored, rows of former admins stay.  The
\* step is where the sync takes its time stamp; nobody can look before it commits.
WriteSync(k) ==
    LET p == k[1]
        data == syncs[k].data
    IN /\ syncs[k] # None /\ syncs[k].step = "fetched" /\ data # None /\ ~NewerSuccess(k)
       /\ stored' = [stored EXCEPT ![p] =
             [edition |-> data.edition, here |-> data.here, sells |-> data.sells,
              rows |-> stored[p].rows \cup data.here, synced |-> TRUE, status |-> "ok"]]
       /\ syncs' = [x \in Keys |-> IF x = k THEN None
                                   ELSE IF x[1] = p /\ syncs[x] # None THEN [syncs[x] EXCEPT !.newer = TRUE]
                                   ELSE syncs[x]]
       /\ Others /\ UNCHANGED world_

\* A fetch that failed or came too late: the rollback gives the lock back, and the failure
\* is recorded under it again unless a success came in between.
FailSync(k) ==
    /\ syncs[k] # None /\ syncs[k].step = "fetched"
    /\ syncs[k].data = None \/ NewerSuccess(k)
    /\ syncs' = [syncs EXCEPT ![k].step = "failing"]
    /\ Others /\ UNCHANGED <<stored, world_>>
RecordFailure(k) ==
    /\ syncs[k] # None /\ syncs[k].step = "failing"
    /\ stored' = IF NewerSuccess(k) THEN stored ELSE [stored EXCEPT ![k[1]].status = "error"]
    /\ syncs' = [syncs EXCEPT ![k] = None]
    /\ Others /\ UNCHANGED world_

-----------------------------------------------------------------------------
(* compute_invoices and generate_invoices.                                 *)

\* collect_descendants: an admin and everybody below it, among the rows of its panel, are
\* in every set of rows that has the admin and the children of all it has.
Below(p) ==
    LET rows == stored[p].rows
        Families == {f \in SUBSET rows : \A x \in rows : parent[x] \in f => x \in f}
    IN [a \in rows |-> {b \in rows : \A f \in Families : a \in f => b \in f}]
Roots(p) == {a \in stored[p].rows \ Exempt : parent[a] = Owner}
PanelBillable(p) == stored[p].synced /\ stored[p].status = "ok"
Present(a) == a \in stored[PanelOf[a]].here

Owes(p, a) == Below(p)[a] \cap stored[p].sells # {} \/ a \in FeePayers
Billed(p) == {a \in Roots(p) : Present(a) /\ Owes(p, a)}
Covered(p) == UNION {Below(p)[a] : a \in Roots(p) \cup (stored[p].rows \cap Exempt)}
UnbilledSubtrees(p) == {a \in stored[p].rows \ Exempt : Present(a) /\ a \notin Covered(p)}

Processed == {p \in Panels : PanelBillable(p)}
\* _persist_bundle: a draft is made anew, a paid invoice is never touched, any other only
\* if the caller forces it.
Draft(a) == [status |-> "draft", amount |-> stored[PanelOf[a]].edition]
Persisted(a, force) ==
    IF inv[a] = None \/ inv[a].status = "draft" THEN Draft(a)
    ELSE IF inv[a].status = "paid" \/ ~force THEN inv[a]
    ELSE [inv[a] EXCEPT !.amount = stored[PanelOf[a]].edition]
Generated(force) ==
    [a \in Admins |->
        IF PanelOf[a] \notin Processed THEN inv[a]
        ELSE IF a \in Billed(PanelOf[a]) THEN Persisted(a, force)
        ELSE IF inv[a] # None /\ inv[a].status = "draft" THEN None
        ELSE inv[a]]

\* Mutant of Incomplete: a panel that was skipped is forgotten.
OnlyUnbilled == \E p \in Processed : UnbilledSubtrees(p) # {}
Incomplete == Processed # Panels \/ \E p \in Processed : UnbilledSubtrees(p) # {}

GenerateByHand ==
    /\ Event("generate")
    /\ \E force \in {FALSE, TRUE} : inv' = Generated(force)
    /\ owing' = {a \in owing : PanelOf[a] \in Processed => a \in stored[PanelOf[a]].sells}
    /\ UNCHANGED <<panel, stored, syncs, run, work, told, redone>>

-----------------------------------------------------------------------------
(* run_due.                                                                *)

Running == {w \in Workers : work[w].step # "idle" /\ work[w].cycle}
Step(w, job) == work' = [work EXCEPT ![w] = job]

\* Mutant of Retriable: a cycle that was interrupted is taken for one that runs.
OnlyRetry == run.status \in {"none", "retry"}
Retriable == run.status \in {"none", "retry", "running"}

\* The recovery job looks every minute, the monthly job once; both find the lock free.
Due(w) == work[w].step = "idle" /\ Running = {} /\ ~over /\ ~run.waiting
Begin(w) ==
    /\ run' = [status |-> "running", attempts |-> run.attempts + 1, waiting |-> FALSE]
    /\ Step(w, [Idle EXCEPT !.step = "syncing", !.cycle = TRUE])
    /\ syncs' = [k \in Keys |-> IF k[2] = "cycle" THEN NewSync ELSE syncs[k]]
    /\ UNCHANGED <<panel, stored, inv, history>>
\* Mutant of RunDue: an interrupted cycle is tried again however often it was interrupted.
RunAgain(w) == Due(w) /\ Retriable /\ UNCHANGED world_ /\ Begin(w)
RunDue(w) ==
    /\ Due(w) /\ Retriable /\ UNCHANGED world_
    /\ IF run.attempts < MAX_ATTEMPTS THEN Begin(w)
       ELSE /\ run' = [run EXCEPT !.status = "failed"]
            /\ UNCHANGED <<panel, stored, syncs, inv, work, history>>
\* retry_failed, from maintenance.
RetryFailed(w) == Due(w) /\ Event("retry failed") /\ run.status = "failed" /\ Begin(w)
\* RETRY_DELAY.
Wait ==
    /\ run.waiting /\ run' = [run EXCEPT !.waiting = FALSE]
    /\ UNCHANGED <<panel, stored, syncs, inv, work, history, world_>>

Generate(w) ==
    /\ work[w].step = "syncing" /\ \A p \in Panels : syncs[<<p, "cycle">>] = None
    /\ inv' = Generated(FALSE)
    /\ owing' = {a \in Admins : a \in stored[PanelOf[a]].sells}
    /\ Step(w, [work[w] EXCEPT !.step = "generated", !.problem = Incomplete])
    /\ UNCHANGED <<panel, stored, syncs, run, told, redone, world_>>

\* send_period takes the drafts of the period, those of skipped panels too.
ListDrafts(w) ==
    /\ work[w].step = "generated"
    /\ Step(w, [work[w] EXCEPT !.step = "sending",
                    !.todo = {a \in Admins : inv[a] # None /\ inv[a].status = "draft"}])
    /\ UNCHANGED <<panel, stored, syncs, inv, run, history, world_>>

FinishRun(w) ==
    LET job == work[w]
        spent == run.attempts >= MAX_ATTEMPTS
    IN /\ job.step = "sending" /\ job.cycle /\ job.todo = {}
       /\ run' = [run EXCEPT !.status = IF ~job.problem THEN "completed"
                                        ELSE IF spent THEN "failed" ELSE "retry",
                             !.waiting = job.problem /\ ~spent]
       /\ Step(w, Idle)
       /\ UNCHANGED <<panel, stored, syncs, inv, history, world_>>

-----------------------------------------------------------------------------
(* delivery.                                                               *)

\* The owner's "send all", and the sending of one invoice again whatever its status.
SendPeriodByHand(w) ==
    /\ Event("send period") /\ work[w].step = "idle"
    /\ Step(w, [Idle EXCEPT !.step = "generated"])
    /\ UNCHANGED <<panel, stored, syncs, inv, run, history>>
SendByHand(w, a) ==
    /\ Event("resend") /\ work[w].step = "idle" /\ inv[a] # None
    /\ Step(w, [Idle EXCEPT !.step = "sending", !.todo = {a}, !.again = TRUE])
    /\ redone' = [redone EXCEPT ![a] = @ + 1]
    /\ UNCHANGED <<panel, stored, syncs, inv, run, told, owing>>

Locked(a) == \E w \in Workers : work[w].step \in {"telling", "told"} /\ work[w].at = a
\* Mutant of Sendable: the status is not looked at under the lock.
AnyInvoice(w, a) == inv[a] # None
\* send_draft_invoice reads the status again once it has the invoice's lock.
Sendable(w, a) == inv[a] # None /\ (work[w].again \/ inv[a].status = "draft")

Skip(w, a) ==
    /\ work[w].step = "sending" /\ a \in work[w].todo /\ ~Locked(a) /\ ~Sendable(w, a)
    /\ Step(w, [work[w] EXCEPT !.todo = @ \ {a}])
    /\ UNCHANGED <<panel, stored, syncs, inv, run, history, world_>>
Take(w, a) ==
    /\ work[w].step = "sending" /\ a \in work[w].todo /\ ~Locked(a) /\ Sendable(w, a)
    /\ Step(w, [work[w] EXCEPT !.step = "telling", !.todo = @ \ {a}, !.at = a])
    /\ UNCHANGED <<panel, stored, syncs, inv, run, history, world_>>

\* _send_invoice: the message, and in a second step its outcome in the database.  After any
\* error the plain text is sent in its place, though the error may have come after the
\* message was out; and so may the error of the plain text, which counts as failed.
Tell(w) ==
    LET a == work[w].at
    IN /\ work[w].step = "telling"
       /\ \/ /\ Reach[a] = "ok" /\ UNCHANGED <<redone, world_>>
             /\ told' = [told EXCEPT ![a] = @ + 1]
             /\ Step(w, [work[w] EXCEPT !.step = "told", !.outcome = "sent"])
          \/ /\ Reach[a] = "ok" /\ Fault("telegram")
             /\ \E full, plain \in {0, 1} : \E answer \in {"sent", "failed"} :
                   /\ answer = "sent" => plain = 1
                   /\ told' = [told EXCEPT ![a] = @ + (full + plain)]
                   /\ redone' = [redone EXCEPT ![a] = @ + IF answer = "sent" THEN full ELSE full + plain]
                   /\ Step(w, [work[w] EXCEPT !.step = "told", !.outcome = answer])
          \/ /\ Reach[a] # "ok" /\ UNCHANGED <<told, redone, world_>>
             /\ Step(w, [work[w] EXCEPT !.step = "told", !.outcome = "unsent"])
       /\ UNCHANGED <<panel, stored, syncs, inv, run, owing>>

Recorded(a, outcome) ==
    IF outcome = "sent" /\ inv[a].status = "draft" THEN [inv EXCEPT ![a].status = "sent"] ELSE inv
Record(w) ==
    LET job == work[w]
        next == IF job.todo = {} /\ ~job.cycle THEN Idle
                ELSE [job EXCEPT !.step = "sending", !.at = None, !.outcome = "unsent",
                                 !.problem = @ \/ job.outcome = "failed"]
    IN /\ job.step = "told" /\ inv[job.at] # None
       /\ inv' = Recorded(job.at, job.outcome) /\ Step(w, next)
       /\ UNCHANGED <<panel, stored, syncs, run, history, world_>>

\* An exception: in a cycle it is caught, and the cycle tried again; the reseller of a
\* message that was out but not recorded will get it once more.
Unrecorded(w) ==
    IF work[w].step = "told" /\ work[w].outcome = "sent"
    THEN [redone EXCEPT ![work[w].at] = @ + 1] ELSE redone
NoCycleSyncs == [k \in Keys |-> IF k[2] = "cycle" THEN None ELSE syncs[k]]
Abandon(w) ==
    LET spent == run.attempts >= MAX_ATTEMPTS
    IN /\ redone' = Unrecorded(w) /\ Step(w, Idle)
       /\ run' = IF ~work[w].cycle THEN run
                 ELSE [run EXCEPT !.status = IF spent THEN "failed" ELSE "retry", !.waiting = ~spent]
       /\ syncs' = IF work[w].cycle THEN NoCycleSyncs ELSE syncs
       /\ UNCHANGED <<panel, stored, inv, told, owing>>
Raise(w) == work[w].step # "idle" /\ Fault("exception") /\ Abandon(w)
\* The row of the draft was deleted meanwhile: StaleDataError at the commit.
Vanished(w) == work[w].step = "told" /\ inv[work[w].at] = None /\ Abandon(w) /\ UNCHANGED world_
EndByHand(w) ==
    /\ work[w].step = "sending" /\ ~work[w].cycle /\ work[w].todo = {}
    /\ Step(w, Idle)
    /\ UNCHANGED <<panel, stored, syncs, inv, run, history, world_>>

\* A restart frees the locks and leaves the row as it was committed.
Crash(w) ==
    /\ work[w].step # "idle" /\ Fault("crash")
    /\ redone' = Unrecorded(w) /\ Step(w, Idle)
    /\ syncs' = IF work[w].cycle THEN NoCycleSyncs ELSE syncs
    /\ UNCHANGED <<panel, stored, inv, run, told, owing>>

Pay(a) ==
    /\ Event("pay") /\ inv[a] # None /\ inv[a].status = "sent"
    /\ inv' = [inv EXCEPT ![a].status = "paid"]
    /\ UNCHANGED <<panel, stored, syncs, run, work, history>>
MonthEnds ==
    /\ "month ends" \in world.does /\ ~over /\ over' = TRUE
    /\ UNCHANGED <<world, parent, events, faults, panel, stored, syncs, inv, run, work, history>>

-----------------------------------------------------------------------------
SyncStep(k) == Fetch(k) \/ WriteSync(k) \/ FailSync(k) \/ RecordFailure(k)
Deliver(w) ==
    \/ ListDrafts(w) \/ Tell(w) \/ Record(w) \/ Vanished(w) \/ EndByHand(w)
    \/ \E a \in Admins : Skip(w, a) \/ Take(w, a)
CycleStep(w) == Generate(w) \/ FinishRun(w) \/ Deliver(w)
ByHand ==
    \/ \E p \in Panels : SyncByHand(p)
    \/ \E a \in Admins : Sell(a) \/ Leave(a) \/ Pay(a)
    \/ GenerateByHand
    \/ \E w \in Workers : SendPeriodByHand(w) \/ RetryFailed(w) \/ \E a \in Admins : SendByHand(w, a)
BillingNext ==
    \/ \E k \in Keys : SyncStep(k)
    \/ \E w \in Workers : RunDue(w) \/ CycleStep(w) \/ Raise(w) \/ Crash(w)
    \/ Wait \/ MonthEnds \/ ByHand

\* The recovery job fires every minute, a request under way runs on, and the delay passes.
BillingFairness ==
    /\ \A k \in Keys : WF_billingVars(SyncStep(k))
    /\ \A w \in Workers : WF_billingVars(RunDue(w)) /\ WF_billingVars(CycleStep(w))
    /\ WF_billingVars(Wait)

-----------------------------------------------------------------------------
(* Properties.                                                             *)

\* What is stored of a panel never gets older, whatever fetches, locks and failures overlap.
StoredNeverOlder == [][\A p \in Panels : stored'[p].edition >= stored[p].edition]_stored

\* A reseller gets the message of an invoice once, however cycles, retries and the owner's
\* own deliveries overlap; once more for each time the owner sends it again, and for each
\* message that was out but not recorded, as its answer was lost or the process stopped.
ToldOnce == \A a \in Admins : told[a] <= 1 + redone[a]

\* Nobody with sales is left out of a cycle that counts as completed: the invoice of its
\* branch is out, or is a draft of a reseller the bot cannot reach, unless the owner's own
\* generation found the sales gone.  A branch below a removed root is the exception.
Branch(a) == {r \in Roots(PanelOf[a]) : a \in Below(PanelOf[a])[r]}
ExemptBranch(a) == \E e \in Exempt \cap stored[PanelOf[a]].rows : a \in Below(PanelOf[a])[e]
Settled(r) ==
    ~Present(r) \/ (inv[r] # None /\ (inv[r].status \in {"sent", "paid"} \/ Reach[r] # "ok"))
CompletedIsBilled ==
    [][run'.status = "completed" /\ run.status # "completed" =>
        \A a \in owing : ExemptBranch(a) \/ \E r \in Branch(a) : Settled(r)]_run

\* A due cycle ends: it is completed or failed, or the month is over.
CycleEnds == <>[](run.status \in {"completed", "failed"} \/ over)

\* invoicing.py: resellers that fall through billing are reported, "its parent was deleted".
NobodyUnseen ==
    \A p \in Panels : \A a \in stored[p].rows \ Exempt :
        Present(a) /\ ~ExemptBranch(a)
            => a \in UnbilledSubtrees(p) \/ \E r \in Roots(p) : Present(r) /\ a \in Below(p)[r]

\* sync.py: a sync that committed after this one began has fresher data.
SupersededIsOlder ==
    \A k \in Keys : syncs[k] # None /\ syncs[k].step = "failing" /\ syncs[k].data # None
        => stored[k[1]].edition >= syncs[k].data.edition

=============================================================================
