---------------------------- MODULE Enforcement ----------------------------
(***************************************************************************)
(* The enforcement queue: suspending, freezing, restoring and deleting a   *)
(* reseller and everything below it on one Hiddify panel.                  *)
(*                                                                         *)
(* Requests only write enforcement_actions rows.  One lane per panel works *)
(* them off in phases, with panel calls between its commits; requests, the *)
(* debtor, the sync and a crash come in between any two of its steps.      *)
(* An advisory lock keeps whole queue runs apart and lanes of two panels   *)
(* share no row, so there is one lane and one panel here.                  *)
(*                                                                         *)
(* Chunks are single users and every admin's own limits are the pair       *)
(* <<1, 1>>.  The lane keeps no copy of an action's progress apart from    *)
(* what it has sent and not committed: nobody else writes progress while   *)
(* it works.  It does keep the statuses it loaded with its batch.          *)
(***************************************************************************)
EXTENDS Naturals, Sequences, FiniteSets

CONSTANTS
    Admins, Above,      \* resellers of the panel, and the ancestors of each
    Users, OwnerOf,     \* panel users and the admin who added each
    Indebted,           \* resellers with invoices that are or fall due
    Instances,          \* the requests and events (ops), a bound on refused calls and crashes
                        \* (faults) and the admins made on the panel meanwhile (late)
    Batch,              \* enforcement_action_batch_limit
    MaxActions,         \* bound on suspend, freeze, delete and re-assert rows
    MaxRetries,         \* _MAX_RETRIES
    None

ASSUME TreeAssumption ==
    /\ Above \in [Admins -> SUBSET Admins]
    /\ OwnerOf \in [Users -> Admins]
    /\ Indebted \subseteq Admins
    /\ \A i \in Instances : i.faults \in Nat /\ i.late \subseteq Admins \ Indebted
ASSUME BoundsAssumption == Batch \in Nat \ {0} /\ MaxRetries \in Nat \ {0} /\ MaxActions \in Nat
ASSUME NoneEnforcementAssumption == None \notin Admins \cup Users

VARIABLES
    queue,      \* enforcement_actions rows, oldest first
    state,      \* resellers.enforcement_state
    saved,      \* resellers.max_users_snapshot and max_active_users_snapshot
    known,      \* resellers.panel_max_users and panel_max_active_users
    rows,       \* resellers rows and end_user_snapshots rows
    seen,       \* end_user_snapshots that read enabled
    due,        \* invoices of each reseller: none due, owed, or owed and stamped enforced
    calls,      \* resellers whose payment committed and whose restore call comes next
    on,         \* users enabled on the panel
    limit,      \* limits of each admin on the panel
    locked,     \* admins whose panel login has the lock password
    exists,     \* admins and users that exist on the panel
    lane,       \* the queue worker
    inst        \* the instance, with the refused calls and crashes that are left

dbVars == <<queue, state, saved, known, rows, seen, due, calls>>
panelVars == <<on, limit, locked, exists>>
vars == <<dbVars, panelVars, lane, inst>>
Ops == inst.ops
Late == inst.late

Full == [mu |-> 1, mau |-> 1]
Zero == [mu |-> 0, mau |-> 0]
Limits == [mu : 0..1, mau : 0..1]
SavedLimits == [Admins -> Limits \cup {None}]
NothingSaved == [a \in Admins |-> None]

Live == {"planned", "partial", "done", "failed"}
Waiting == {"planned", "partial"}
ActionRow == [kind : {"suspend", "freeze", "restore", "delete"}, status : Live \cup {"reverted", "purged"},
              r : Admins, debt : BOOLEAN, reassert : BOOLEAN,
              users : SUBSET Users, admins : SUBSET Admins, limits : SavedLimits,
              phase : {"users", "limits", "passwords", "admins", "db", "done"},
              usersDone : SUBSET Users, missing : SUBSET Users,
              adminsDone : SUBSET Admins, captured : SavedLimits,
              tries : [Admins \cup Users -> Nat],
              passwords : Nat, source : Nat, absorbed : SUBSET Nat, noDue : BOOLEAN]

\* What the worker is doing: which row (id), where it stands, the rest of its batch,
\* the rows whose status it will overwrite (fresh), the users it resolved, each with
\* the owner whose key it uses, the users it wrote and did not commit, whether the
\* pass missed a lookup or patched anybody, the descendants this restore leaves
\* apart, and each admin's outcome and captured limits in the limits pass.
Outcome == {"none", "ok", "zero", "gone", "fail"}
Places == {"off", "picked", "head", "resolve", "first", "more", "commit", "limits", "limitsCommit",
           "check", "finish", "deleteUsers", "dropUsers", "deleteAdmins", "purge"}
Lane == [at : Places, id : Nat, batch : Seq(Nat), fresh : SUBSET Nat,
         todo : SUBSET (Users \X Admins), wrote : SUBSET Users, missed : BOOLEAN,
         patched : BOOLEAN, apart : SUBSET Admins, out : [Admins -> Outcome], got : SavedLimits]

TypeOK ==
    /\ queue \in Seq(ActionRow)
    /\ \A i \in DOMAIN queue : queue[i].status \in Live => queue[i].r \in rows
    /\ state \in [Admins -> {"active", "enforced", "frozen"}]
    /\ saved \in SavedLimits
    /\ known \in [Admins -> Limits]
    /\ rows \subseteq Admins \cup Users
    /\ seen \subseteq Users
    /\ due \in [Admins -> {"none", "owed", "enforced"}]
    /\ calls \subseteq Admins
    /\ on \subseteq Users
    /\ limit \in [Admins -> Limits]
    /\ locked \subseteq Admins
    /\ exists \subseteq Admins \cup Users
    /\ lane \in Lane
    /\ \E i \in Instances : inst \in [ops : {i.ops}, late : {i.late}, faults : 0..i.faults]

NoOutcome == [a \in Admins |-> "none"]
Off == [at |-> "off", id |-> 0, batch |-> <<>>, fresh |-> {}, todo |-> {}, wrote |-> {},
        missed |-> FALSE, patched |-> FALSE, apart |-> {}, out |-> NoOutcome, got |-> NothingSaved]

Init ==
    /\ inst \in Instances
    /\ queue = <<>>
    /\ state = [a \in Admins |-> "active"]
    /\ saved = NothingSaved
    /\ known = [a \in Admins |-> Full]
    /\ rows = (Admins \ Late) \cup Users
    /\ seen = Users
    /\ due = [a \in Admins |-> IF a \in Indebted THEN "owed" ELSE "none"]
    /\ calls = {}
    /\ on = Users
    /\ limit = [a \in Admins |-> Full]
    /\ locked = {}
    /\ exists = (Admins \ Late) \cup Users
    /\ lane = Off

-----------------------------------------------------------------------------
(* Reading the tree and the queue.                                         *)

\* _bundle: the reseller and every row below it.
Bundle(r) == {a \in rows \cap Admins : a = r \/ r \in Above[a]}
UsersUnder(r) == {u \in rows \cap Users : OwnerOf[u] \in Bundle(r)}
\* A deleted admin's users go to its nearest ancestor on the panel.
Owner(u) ==
    LET heirs == Above[OwnerOf[u]] \cap exists
    IN IF OwnerOf[u] \in exists \/ heirs = {} THEN OwnerOf[u]
       ELSE CHOOSE a \in heirs : \A b \in heirs : Above[b] \subseteq Above[a]
Due(r) == due[r] # "none"

\* _enforced_ancestor, suspended_branch_root.
AncestorEnforced(r) == \E a \in Above[r] \cap rows : state[a] = "enforced"

Ids == DOMAIN queue
RowsOf(q, r, kinds, statuses) ==
    {i \in DOMAIN q : q[i].r = r /\ q[i].kind \in kinds /\ q[i].status \in statuses}
Newest(ids) == CHOOSE i \in ids : \A j \in ids : j <= i

\* Mutant of Independent: a restore takes the whole branch.
NobodyApart(r) == {}
\* _independently_restricted: descendants that own a live suspend or freeze themselves.
Independent(r) ==
    {a \in Bundle(r) \ {r} :
        state[a] # "active" /\ RowsOf(queue, a, {"suspend", "freeze"}, Live) # {}}

\* _applied_users: the users an action really turned off.
Applied(row) ==
    IF row.usersDone # {} THEN (row.users \cap row.usersDone) \ row.missing
    ELSE IF row.status = "done" THEN row.users \ row.missing ELSE {}

NoTries == [x \in Admins \cup Users |-> 0]
NewRow(kind, r) ==
    [kind |-> kind, status |-> "planned", r |-> r, debt |-> FALSE, reassert |-> FALSE,
     users |-> {}, admins |-> {}, limits |-> NothingSaved, phase |-> "users",
     usersDone |-> {}, missing |-> {}, adminsDone |-> {}, captured |-> NothingSaved,
     tries |-> NoTries, passwords |-> 0, source |-> 0, absorbed |-> {}, noDue |-> FALSE]
Again(row) == [row EXCEPT !.status = "planned", !.tries = NoTries, !.passwords = 0]
Revert(q, ids) == [i \in DOMAIN q |-> IF i \in ids THEN [q[i] EXCEPT !.status = "reverted"] ELSE q[i]]

-----------------------------------------------------------------------------
(* Requests.                                                               *)

\* queue_enforcement: one row per invoice, re-planned when it had failed; a manual
\* request of an active reseller always adds a row.
Planned(r, debt) ==
    [NewRow("suspend", r) EXCEPT !.debt = debt, !.users = UsersUnder(r) \cap seen,
        !.admins = Bundle(r), !.limits = [a \in Admins |-> IF a \in Bundle(r) THEN known[a] ELSE None]]
ForInvoice(r) == {i \in RowsOf(queue, r, {"suspend"}, Live) : queue[i].debt}
Suspended(r) == state[r] = "enforced" /\ RowsOf(queue, r, {"suspend"}, {"done"}) # {}

QueueEnforcement(r, debt) ==
    IF debt /\ ForInvoice(r) # {}
    THEN LET i == Newest(ForInvoice(r))
         IN queue[i].status = "failed" /\ queue' = [queue EXCEPT ![i] = Again(@)]
    ELSE /\ ~Suspended(r)
         /\ Len(queue) < MaxActions
         /\ queue' = Append(queue, Planned(r, debt))

\* Dunning asks for an active reseller with a due invoice; a parent or the owner by hand.
Dun(r) ==
    /\ "dun" \in Ops /\ r \in rows /\ Due(r) /\ state[r] = "active"
    /\ QueueEnforcement(r, TRUE)
    /\ UNCHANGED <<state, saved, known, rows, seen, due, calls, panelVars, lane, inst>>

Suspend(r) ==
    /\ "suspend" \in Ops /\ r \in rows
    /\ QueueEnforcement(r, FALSE)
    /\ UNCHANGED <<state, saved, known, rows, seen, due, calls, panelVars, lane, inst>>

\* queue_freeze.
Freeze(r) ==
    /\ "freeze" \in Ops /\ r \in rows /\ state[r] = "active"
    /\ RowsOf(queue, r, {"freeze"}, Waiting) = {}
    /\ Len(queue) < MaxActions
    /\ queue' = Append(queue, [NewRow("freeze", r) EXCEPT !.phase = "limits", !.admins = Bundle(r)])
    /\ UNCHANGED <<state, saved, known, rows, seen, due, calls, panelVars, lane, inst>>

\* queue_admin_deletion.
Delete(r) ==
    /\ "delete" \in Ops /\ r \in rows
    /\ RowsOf(queue, r, {"delete"}, Waiting) = {}
    /\ Len(queue) < MaxActions
    /\ queue' = Append(queue, [NewRow("delete", r) EXCEPT !.admins = Bundle(r)])
    /\ UNCHANGED <<state, saved, known, rows, seen, due, calls, panelVars, lane, inst>>

\* _stamp_invoices_enforced, _unstamp_invoices_enforced.
Stamped(d, r) == IF d[r] = "owed" THEN [d EXCEPT ![r] = "enforced"] ELSE d
Unstamped(d, r) == IF d[r] = "enforced" THEN [d EXCEPT ![r] = "owed"] ELSE d

\* reassert_enforced: turn off again the users a debtor turned on.
Reassert(r) ==
    LET back == {u \in UsersUnder(r) \cap seen : u \in exists}
        again == Due(r) /\ back # {} /\ RowsOf(queue, r, {"suspend"}, Waiting) = {}
    IN  /\ "reassert" \in Ops /\ r \in rows /\ state[r] = "enforced"
        /\ Len(queue) < MaxActions
        /\ again \/ due[r] = "owed"
        /\ due' = Stamped(due, r)
        /\ queue' = IF again
                    THEN Append(queue, [NewRow("suspend", r) EXCEPT !.reassert = TRUE, !.users = back])
                    ELSE queue
        /\ UNCHANGED <<state, saved, known, rows, seen, calls, panelVars, lane, inst>>

-----------------------------------------------------------------------------
(* queue_restore.                                                          *)

\* The newest row that is no re-assert is the source; newer re-asserts are absorbed.
Candidates(q, r) == RowsOf(q, r, {"suspend", "freeze"}, Live)
Originals(q, r) == {i \in Candidates(q, r) : ~q[i].reassert}
\* Mutant of Source: the newest row, re-assert or not.
SourceNewest(q, r) == Newest(Candidates(q, r))
Source(q, r) == Newest(IF Originals(q, r) = {} THEN Candidates(q, r) ELSE Originals(q, r))
Absorbed(q, r) == {i \in Candidates(q, r) : i > Source(q, r) /\ Originals(q, r) # {}}

Captured(row) == IF row.captured # NothingSaved THEN row.captured ELSE row.limits

\* The work set of a new restore: all of a finished suspension, what an unfinished one
\* committed; a finished one without admins falls back to the recovery snapshots.
RestoreRow(q, r, noDue) ==
    LET s == Source(q, r)
        row == q[s]
        whole == row.status = "done"
        again == UNION {Applied(q[i]) : i \in Absorbed(q, r)}
        users == IF whole THEN row.users ELSE (row.users \cap row.usersDone) \ row.missing
        admins == IF ~whole THEN row.admins \cap row.adminsDone
                  ELSE IF row.admins # {} THEN row.admins
                  ELSE {a \in Bundle(r) : Captured(row)[a] # None \/ saved[a] # None}
        limits == [a \in Admins |-> IF whole \/ a \in admins THEN Captured(row)[a] ELSE None]
    IN [NewRow("restore", r) EXCEPT
            !.debt = row.debt, !.phase = "limits", !.users = users \cup again, !.admins = admins,
            !.limits = limits, !.captured = limits, !.source = s,
            !.absorbed = Absorbed(q, r), !.noDue = noDue]

\* queue_restore returns nothing, an existing row, or a new one; it may revert rows.
WaitingRestore(q, r) == RowsOf(q, r, {"restore"}, {"planned", "partial", "failed"})
QueueRestore(q, r, noDue) ==
    IF AncestorEnforced(r) THEN [queue |-> q, got |-> "none"]
    ELSE IF WaitingRestore(q, r) # {}
    THEN LET i == Newest(WaitingRestore(q, r))
         IN [queue |-> IF q[i].status = "failed" THEN [q EXCEPT ![i] = [Again(@) EXCEPT !.noDue = noDue]]
                       ELSE q,
             got |-> "existing"]
    ELSE IF Candidates(q, r) = {} THEN [queue |-> q, got |-> "none"]
    ELSE LET s == Source(q, r)
             new == RestoreRow(q, r, noDue)
             unfinished == q[s].status \in {"partial", "failed"}
         IN IF q[s].status = "planned" \/ (unfinished /\ new.users = {} /\ new.admins = {})
            THEN [queue |-> Revert(q, {s} \cup Absorbed(q, r)), got |-> "none"]
            ELSE [queue |-> Append(IF unfinished THEN Revert(q, {s}) ELSE q, new), got |-> "new"]

Restore(r, noDue) ==
    LET x == QueueRestore(queue, r, noDue)
    IN  /\ queue' = x.queue
        /\ state' = IF x.got = "new" /\ state[r] # "frozen" THEN [state EXCEPT ![r] = "enforced"] ELSE state

\* The worker's row locks, held from picking a batch to its first commit: a restore
\* that reads one of these rows waits.
RowsFree(r) == lane.at = "picked" => queue[lane.id].r # r /\ \A n \in DOMAIN lane.batch : queue[lane.batch[n]].r # r

\* Payment, cancellation or deferral of everything the reseller owes.  The restore is
\* asked for after that commit, in the same request; auto_restore_on_payment is on.
Settle(r) ==
    /\ "settle" \in Ops /\ Due(r)
    /\ due' = [due EXCEPT ![r] = "none"]
    /\ calls' = calls \cup {r}
    /\ UNCHANGED <<queue, state, saved, known, rows, seen, panelVars, lane, inst>>

\* _maybe_restore.
RestoreSettled(r) ==
    /\ r \in calls /\ RowsFree(r)
    /\ calls' = calls \ {r}
    /\ IF Due(r) THEN UNCHANGED <<queue, state>> ELSE Restore(r, TRUE)
    /\ UNCHANGED <<saved, known, rows, seen, due, panelVars, lane, inst>>

\* A restore somebody asks for by hand.
RestoreByHand(r) ==
    /\ "restore" \in Ops /\ r \in rows /\ RowsFree(r)
    /\ Restore(r, FALSE)
    /\ UNCHANGED <<saved, known, rows, seen, due, calls, panelVars, lane, inst>>

\* A payment deadline passes, or a new invoice falls due.
FallDue(r) ==
    /\ "due" \in Ops /\ r \in rows \cap Indebted /\ due[r] = "none"
    /\ due' = [due EXCEPT ![r] = "owed"]
    /\ UNCHANGED <<queue, state, saved, known, rows, seen, calls, panelVars, lane, inst>>

-----------------------------------------------------------------------------
(* The panel's own users, the sync and the retention sweep.                *)

\* A suspended debtor who still has a panel login turns a user on again.
DebtorEnables(u) ==
    /\ "debtor" \in Ops /\ u \in exists \ on /\ OwnerOf[u] \notin locked
    /\ state[OwnerOf[u]] = "enforced"
    /\ on' = on \cup {u}
    /\ UNCHANGED <<dbVars, limit, locked, exists, lane, inst>>

\* A reseller adds a sub-admin on the panel, or deletes one: its users move up.
AddAdmin(a) ==
    /\ a \in Late \ (exists \cup rows) /\ Above[a] \subseteq exists
    /\ exists' = exists \cup {a}
    /\ limit' = [limit EXCEPT ![a] = Full]
    /\ locked' = locked \ {a}
    /\ UNCHANGED <<dbVars, on, lane, inst>>
DropAdmin(a) ==
    /\ "drop" \in Ops /\ a \in exists /\ Above[a] # {}
    /\ \A b \in Admins \cap exists : a \notin Above[b]
    /\ exists' = exists \ {a}
    /\ UNCHANGED <<dbVars, on, limit, locked, lane, inst>>

\* sync_panel: the stored users, limits and admins become what the panel shows.
SyncPanel ==
    /\ seen' = (seen \ exists) \cup (on \cap exists)
    /\ known' = [a \in Admins |-> IF a \in exists /\ state[a] = "active" THEN limit[a] ELSE known[a]]
    /\ rows' = rows \cup exists
    /\ <<seen, known, rows>>' # <<seen, known, rows>>
    /\ UNCHANGED <<queue, state, saved, due, calls, panelVars, lane, inst>>
Sync == "sync" \in Ops /\ SyncPanel

-----------------------------------------------------------------------------
(* The worker: picking rows.                                               *)

Me == queue[lane.id]
R == Me.r
At(places) == lane.at \in places
Write(row) == queue' = [queue EXCEPT ![lane.id] = row]
Goto(place) == lane' = [lane EXCEPT !.at = place]
NextRow ==
    IF lane.batch = <<>> THEN Off
    ELSE [Off EXCEPT !.at = "head", !.id = Head(lane.batch), !.batch = Tail(lane.batch),
                     !.fresh = lane.fresh]
Leave == lane' = NextRow

Fault == inst.faults > 0 /\ inst' = [inst EXCEPT !.faults = @ - 1]
NoFault == UNCHANGED inst

\* _process_panel_queue: restores first, then the oldest.
Pending == {i \in Ids : queue[i].status \in Waiting}
Before(i, j) ==
    \/ queue[i].kind = "restore" /\ queue[j].kind # "restore"
    \/ (queue[i].kind = "restore" <=> queue[j].kind = "restore") /\ i < j
Place(i) == Cardinality({j \in Pending : Before(j, i)}) + 1
Picked == [n \in 1..(IF Cardinality(Pending) < Batch THEN Cardinality(Pending) ELSE Batch) |->
             CHOOSE i \in Pending : Place(i) = n]
StartRun ==
    /\ At({"off"}) /\ Pending # {}
    /\ lane' = [Off EXCEPT !.at = "picked", !.id = Head(Picked), !.batch = Tail(Picked),
                           !.fresh = {i \in Pending : queue[i].status = "planned"}]
    /\ UNCHANGED <<dbVars, panelVars, inst>>

\* The status a row gets when the worker sets partial: SQLAlchemy writes the column
\* only when the loaded value was another one.
Started == IF lane.id \in lane.fresh THEN "partial" ELSE Me.status

\* No debt left: hand what was done to a restore, or drop the row.
GiveBack ==
    LET x == QueueRestore(queue, R, FALSE)
    IN  /\ queue' = IF x.got = "none" THEN Revert(x.queue, {lane.id}) ELSE x.queue
        /\ state' = IF x.got = "new" /\ state[R] # "frozen" THEN [state EXCEPT ![R] = "enforced"] ELSE state

\* The heads of the three handlers, up to their first commit: the action is closed
\* without a call, or its first phase begins.
NothingOwed == Me.kind = "suspend" /\ Me.debt /\ ~Due(R)
AlreadyDone == state[R] = "enforced" /\ ~Me.reassert
StillOwes == Me.noDue /\ Due(R)
\* The panel no longer has the reseller.  That closes the action only where the last sync
\* missed the reseller too and the panel answers that it is gone; otherwise it goes on.
Obsolete == R \notin exists

Close(status) == Write([Me EXCEPT !.status = status]) /\ Leave
FirstPhase(apart) ==
    /\ Write([Me EXCEPT !.status = Started])
    /\ lane' = [lane EXCEPT !.apart = apart, !.at = IF Me.phase = "limits" THEN "limits" ELSE "resolve"]

BeginSuspend ==
    /\ At({"picked", "head"}) /\ Me.kind = "suspend"
    /\ \/ NothingOwed /\ GiveBack /\ Leave
       \/ ~NothingOwed /\ (AlreadyDone \/ Obsolete) /\ Close("done") /\ UNCHANGED state
       \/ ~NothingOwed /\ ~AlreadyDone /\ FirstPhase({}) /\ UNCHANGED state
    /\ NoFault
    /\ UNCHANGED <<saved, known, rows, seen, due, calls, panelVars>>

\* A descendant restricted by an action of its own is left to that action.
BeginRestore ==
    /\ At({"picked", "head"}) /\ Me.kind = "restore"
    /\ \/ StillOwes /\ Close("failed") /\ UNCHANGED state
       \/ ~StillOwes /\ Obsolete /\ Close("done") /\ state' = [state EXCEPT ![R] = "active"]
       \/ ~StillOwes /\ FirstPhase(Independent(R)) /\ UNCHANGED state
    /\ NoFault
    /\ UNCHANGED <<saved, known, rows, seen, due, calls, panelVars>>

\* A full suspension supersedes a freeze.
BeginFreeze ==
    /\ At({"picked", "head"}) /\ Me.kind = "freeze"
    /\ \/ (AlreadyDone \/ Obsolete) /\ Close("done")
       \/ ~AlreadyDone /\ FirstPhase({})
    /\ NoFault
    /\ UNCHANGED <<state, saved, known, rows, seen, due, calls, panelVars>>

\* Mutant of Merge: the rollback is all that is done.
NothingMerged == UNCHANGED queue
\* _RevertedMidFlight and _merge_into_pending_restore: what was applied joins the
\* restore of this row, or makes one.  The rollback expires what the lane had loaded.
MergeRow(row) ==
    LET s == Me
        admins == {a \in s.adminsDone : Captured(s)[a] # None}
        limits == [a \in Admins |-> IF row.limits[a] # None THEN row.limits[a]
                                    ELSE IF a \in admins THEN Captured(s)[a] ELSE None]
    IN [row EXCEPT !.users = @ \cup (s.usersDone \ s.missing), !.admins = @ \cup admins,
                   !.limits = limits, !.captured = limits]
Merge ==
    LET mine == {i \in RowsOf(queue, R, {"restore"}, Waiting) : queue[i].source = lane.id}
        new == MergeRow([NewRow("restore", R) EXCEPT !.debt = Me.debt, !.phase = "limits", !.source = lane.id])
    IN queue' = IF new.users = {} /\ new.admins = {} THEN queue
                ELSE IF mine # {} THEN [queue EXCEPT ![Newest(mine)] = MergeRow(@)]
                ELSE Append(queue, new)
Reverted == Me.status = "reverted"
Abort ==
    /\ Merge
    /\ lane' = [NextRow EXCEPT !.fresh = Ids]
    /\ UNCHANGED <<state, saved, known, rows, seen, due, calls, panelVars, inst>>

-----------------------------------------------------------------------------
(* _run_user_chunks.                                                       *)

Enables == Me.kind = "restore"
Remaining == Me.users \ (Me.usersDone \cup Me.missing)

\* A failed attempt; at the last one the row fails.
Tried(row, xs) == [row EXCEPT !.tries = [x \in DOMAIN @ |-> IF x \in xs THEN @[x] + 1 ELSE @[x]]]
Exhausted(row, x) == row.tries[x] >= MaxRetries

\* Users that are gone or belong to somebody outside this action are skipped; one
\* whose lookup keeps failing is skipped at last.
Ours(u) == Owner(u) \in Me.admins \cup {OwnerOf[v] : v \in Me.users}
Resolve(failing) ==
    LET tried == Tried(Me, failing)
        skip == {u \in Remaining \ failing : u \notin exists \/ ~Ours(u)}
                    \cup {u \in failing : Exhausted(tried, u)}
    IN  /\ At({"resolve"}) /\ failing \subseteq Remaining
        /\ IF failing = {} THEN NoFault ELSE Fault
        /\ Write([tried EXCEPT !.usersDone = @ \cup skip, !.missing = @ \cup skip])
        /\ lane' = [lane EXCEPT !.at = "first", !.missed = failing \ skip # {},
                                !.todo = {<<u, Owner(u)>> : u \in Remaining \ (failing \cup skip)}]
        /\ UNCHANGED <<state, saved, known, rows, seen, due, calls, panelVars>>

\* Between two chunks a suspension looks whether it was reverted.
StopsHere == At({"more"}) /\ Me.kind = "suspend" /\ Reverted /\ lane.todo # {}
StopChunks == StopsHere /\ Abort

\* The panel switches a user only under the key of its owner.
Switched(u, key) ==
    IF u \in exists /\ Owner(u) = key THEN (IF Enables THEN on \cup {u} ELSE on \ {u}) ELSE on
SendChunk(u, key) ==
    /\ At({"first", "more"}) /\ ~StopsHere /\ <<u, key>> \in lane.todo /\ key \in exists
    /\ on' = Switched(u, key)
    /\ lane' = [lane EXCEPT !.at = "commit", !.wrote = {u}]
    /\ UNCHANGED <<dbVars, limit, locked, exists, inst>>

\* A refused chunk ends the pass; an answer that is lost after the panel switched the
\* user looks the same.
RefuseChunk(u, key) ==
    LET tried == Tried(Me, {u})
    IN  /\ At({"first", "more"}) /\ ~StopsHere /\ <<u, key>> \in lane.todo
        /\ Fault
        /\ on' \in {on} \cup (IF "lost answer" \in Ops THEN {Switched(u, key)} ELSE {})
        /\ Write(IF Exhausted(tried, u) THEN [tried EXCEPT !.status = "failed"] ELSE tried)
        /\ Leave
        /\ UNCHANGED <<state, saved, known, rows, seen, due, calls, limit, locked, exists>>

\* The owner whose key it would use is gone: the users are skipped.
SkipChunk(u, key) ==
    /\ At({"first", "more"}) /\ ~StopsHere /\ <<u, key>> \in lane.todo /\ key \notin exists
    /\ Write([Me EXCEPT !.usersDone = @ \cup {u}, !.missing = @ \cup {u}])
    /\ lane' = [lane EXCEPT !.at = "first", !.todo = @ \ {<<u, key>>}]
    /\ UNCHANGED <<state, saved, known, rows, seen, due, calls, panelVars, inst>>

CommitChunk ==
    /\ At({"commit"})
    /\ Write([Me EXCEPT !.usersDone = @ \cup lane.wrote])
    /\ seen' = IF Enables THEN seen \cup (lane.wrote \cap rows) ELSE seen \ lane.wrote
    /\ lane' = [lane EXCEPT !.at = "more", !.wrote = {}, !.patched = TRUE,
                            !.todo = {p \in @ : p[1] \notin lane.wrote}]
    /\ UNCHANGED <<state, saved, known, rows, due, calls, panelVars, inst>>

\* _fail_if_writes_missed reads the users back: one that differs may be the
\* reseller's doing, two or nothing but different ones fail the row.
WritesMissed ==
    LET read == (Me.usersDone \ Me.missing) \cap exists
        wrong == {u \in read : (u \in on) # Enables}
    IN lane.patched /\ (Cardinality(wrong) >= 2 \/ (wrong # {} /\ wrong = read))
UsersDone(next) ==
    /\ IF lane.missed THEN Leave /\ UNCHANGED queue
       ELSE IF WritesMissed THEN Close("failed")
       ELSE next
    /\ UNCHANGED <<state, saved, known, rows, seen, due, calls, panelVars, inst>>
Sent == At({"first", "more"}) /\ lane.todo = {}
UsersDisabled == Sent /\ ~Enables /\ UsersDone(Write([Me EXCEPT !.phase = "limits"]) /\ Goto("limits"))
UsersEnabled == Sent /\ Enables /\ UsersDone(Goto("finish") /\ UNCHANGED queue)

-----------------------------------------------------------------------------
(* _run_admin_limits.                                                      *)

AdminsLeft ==
    LET planned == IF Me.kind = "restore" /\ Me.admins = {}
                   THEN {a \in Admins : Me.limits[a] # None} ELSE Me.admins
    IN planned \ (Me.adminsDone \cup lane.apart)

StopLimits == At({"limits"}) /\ ~Enables /\ AdminsLeft # {} /\ Reverted /\ Abort

Behind(a, field) == IF saved[a] = None THEN 0 ELSE saved[a][field]
\* Mutant of Real: it trusts the panel alone.
RealOnPanel(a, read) == read
\* The limits to capture: what the panel shows, and where that is zero the recovery snapshot.
Real(a, read) == [f \in {"mu", "mau"} |-> IF read[f] = 0 THEN Behind(a, f) ELSE read[f]]
ToRestore(a) == IF Me.captured[a] # None THEN Me.captured[a] ELSE saved[a]
NewLimit(a, read) ==
    IF Enables THEN ToRestore(a)
    ELSE [mu |-> 0, mau |-> IF Me.kind = "freeze" THEN Real(a, read)["mau"] ELSE 0]
Unwritable(a) == Enables /\ ToRestore(a) = None

\* One pass over the admins that are left.  One call may be refused, or its answer
\* lost, or the read before it fails and the synced columns stand in.
LimitsPass(bad, how) ==
    LET read == [a \in Admins |-> IF a = bad /\ how = "unread" THEN known[a] ELSE limit[a]]
        failed(a) == Unwritable(a) \/ (a = bad /\ how \in {"refused", "lost answer"})
        out == [a \in Admins |->
                  IF a \notin AdminsLeft THEN "none"
                  ELSE IF a \notin Bundle(R) \/ a \notin exists THEN "gone"
                  ELSE IF ~Enables /\ Real(a, read[a]) = Zero THEN "zero"
                  ELSE IF failed(a) THEN "fail" ELSE "ok"]
    IN  /\ At({"limits"}) /\ AdminsLeft # {} /\ ~(~Enables /\ Reverted)
        /\ bad \in AdminsLeft \cup {None}
        /\ IF bad = None THEN NoFault ELSE Fault
        /\ limit' = [a \in Admins |->
                       IF out[a] = "ok" \/ (out[a] = "fail" /\ a = bad /\ how = "lost answer" /\ ~Unwritable(a))
                       THEN NewLimit(a, read[a]) ELSE limit[a]]
        /\ lane' = [lane EXCEPT !.at = "limitsCommit", !.out = out,
                        !.got = [a \in Admins |-> IF out[a] = "ok" /\ ~Enables THEN Real(a, read[a]) ELSE None]]
        /\ UNCHANGED <<dbVars, on, locked, exists>>

With(outs) == {a \in Admins : lane.out[a] \in outs}
Over(f, g) == [a \in Admins |-> IF g[a] # None THEN g[a] ELSE f[a]]
AfterLimits == IF Enables THEN "resolve" ELSE IF Me.kind = "freeze" THEN "finish" ELSE "check"
CommitLimits ==
    LET tried == Tried(Me, With({"fail"}))
        row == [tried EXCEPT !.adminsDone = @ \cup With({"ok", "zero", "gone"}),
                             !.captured = Over(@, lane.got)]
        hard == \E a \in With({"fail"}) : Exhausted(tried, a)
    IN  /\ At({"limitsCommit"})
        /\ saved' = Over(saved, lane.got)
        /\ IF With({"fail"}) # {}
           THEN Write(IF hard THEN [row EXCEPT !.status = "failed"] ELSE row) /\ Leave
           ELSE /\ Write(IF Enables THEN [row EXCEPT !.phase = "users"] ELSE row)
                /\ lane' = [lane EXCEPT !.at = AfterLimits, !.out = NoOutcome, !.got = NothingSaved]
        /\ UNCHANGED <<state, known, rows, seen, due, calls, panelVars, inst>>
NoLimits ==
    /\ At({"limits"}) /\ AdminsLeft = {}
    /\ Write(IF Enables THEN [Me EXCEPT !.phase = "users"] ELSE Me)
    /\ Goto(AfterLimits)
    /\ UNCHANGED <<state, saved, known, rows, seen, due, calls, panelVars, inst>>

-----------------------------------------------------------------------------
(* Finishing.                                                              *)

\* The last look before a suspension is final, and the panel logins it then locks.
Logins(kept) == (Bundle(R) \cap exists) \ kept
Idle == Me.usersDone = {} /\ Me.adminsDone = {}
CheckSuspend(kept) ==
    /\ At({"check"}) /\ (Idle \/ ~Reverted)
    /\ IF kept = {} THEN NoFault ELSE Fault
    /\ IF Idle THEN Write([Me EXCEPT !.status = "failed"]) /\ Leave /\ UNCHANGED <<state, locked>>
       ELSE IF NothingOwed THEN GiveBack /\ Leave /\ UNCHANGED locked
       ELSE /\ locked' = IF Me.reassert \/ Me.admins = {} \/ "no lockout" \in Ops THEN locked ELSE locked \cup Logins(kept)
            /\ Goto("finish") /\ UNCHANGED <<queue, state>>
    /\ UNCHANGED <<saved, known, rows, seen, due, calls, on, limit, exists>>
StopSuspend == At({"check"}) /\ Reverted /\ ~Idle /\ Abort

FinishSuspend ==
    /\ At({"finish"}) /\ Me.kind = "suspend"
    /\ Write([Me EXCEPT !.status = "done", !.phase = "done"])
    /\ state' = [a \in Admins |->
                   IF a = R \/ (a \in Bundle(R) \cap Me.adminsDone /\ state[a] = "active")
                   THEN "enforced" ELSE state[a]]
    /\ due' = Stamped(due, R)
    /\ Leave
    /\ UNCHANGED <<saved, known, rows, seen, calls, panelVars, inst>>

FinishFreeze ==
    /\ At({"finish"}) /\ Me.kind = "freeze" /\ ~Reverted
    /\ Write([Me EXCEPT !.status = "done", !.phase = "done"])
    /\ state' = [state EXCEPT ![R] = "frozen"]
    /\ Leave
    /\ UNCHANGED <<saved, known, rows, seen, due, calls, panelVars, inst>>
StopFreeze == At({"finish"}) /\ Me.kind = "freeze" /\ Reverted /\ Abort

\* The logins are given back, then the snapshots of the admins that got their limits
\* are cleared and the source and the absorbed rows are spent.
Restored == (Bundle(R) \cap Me.adminsDone) \ lane.apart
FinishRestore(kept) ==
    LET tries == Me.passwords + (IF kept = {} THEN 0 ELSE 1)
        status == IF kept = {} THEN "done" ELSE IF tries >= MaxRetries THEN "failed" ELSE "partial"
        row == [Me EXCEPT !.status = status, !.passwords = tries,
                          !.phase = IF kept = {} THEN "done" ELSE "passwords"]
    IN  /\ At({"finish"}) /\ Me.kind = "restore"
        /\ IF kept = {} THEN NoFault ELSE Fault
        /\ locked' = locked \ (Logins(kept) \ lane.apart)
        /\ queue' = Revert([queue EXCEPT ![lane.id] = row], Me.absorbed \cup ({Me.source} \cap Ids))
        /\ state' = [a \in Admins |-> IF a = R \/ a \in Restored THEN "active" ELSE state[a]]
        /\ saved' = [a \in Admins |-> IF a \in Restored THEN None ELSE saved[a]]
        /\ due' = Unstamped(due, R)
        /\ Leave
        /\ UNCHANGED <<known, rows, seen, calls, on, limit, exists>>

-----------------------------------------------------------------------------
(* _process_delete_action.                                                 *)

\* Deletion never widens past what was confirmed: a subtree that grew is handed back.
Grown == ~(Bundle(R) \subseteq Me.admins)
PhasePlace == IF Me.phase = "users" THEN "deleteUsers"
              ELSE IF Me.phase = "admins" THEN "deleteAdmins" ELSE "purge"
BeginDelete ==
    /\ At({"picked", "head"}) /\ Me.kind = "delete"
    /\ IF R \notin rows THEN Write([Me EXCEPT !.status = "done"]) /\ Leave
       ELSE IF Grown THEN Write([Me EXCEPT !.status = "failed"]) /\ Leave
       ELSE Goto(PhasePlace) /\ UNCHANGED queue
    /\ UNCHANGED <<state, saved, known, rows, seen, due, calls, panelVars, inst>>

\* A batch of users goes under their owners' keys; their rows are dropped when the
\* panel answered.
Doomed == UsersUnder(R)
DeleteUsers ==
    LET gone == {u \in Doomed : Owner(u) = OwnerOf[u]}
    IN  /\ At({"deleteUsers"}) /\ Doomed # {}
        /\ exists' = exists \ gone
        /\ on' = on \ gone
        /\ lane' = [lane EXCEPT !.at = "dropUsers", !.wrote = Doomed]
        /\ UNCHANGED <<dbVars, limit, locked, inst>>
RefuseDelete ==
    /\ At({"deleteUsers"}) /\ Doomed # {} /\ Fault
    /\ Write([Me EXCEPT !.status = "partial"]) /\ Leave
    /\ UNCHANGED <<state, saved, known, rows, seen, due, calls, panelVars>>
DropUsers ==
    /\ At({"dropUsers"})
    /\ rows' = rows \ lane.wrote
    /\ seen' = seen \ lane.wrote
    /\ lane' = [lane EXCEPT !.at = "deleteUsers", !.wrote = {}]
    /\ UNCHANGED <<queue, state, saved, known, due, calls, panelVars, inst>>
EndDelete ==
    /\ At({"deleteUsers"}) /\ Doomed = {}
    /\ Write([Me EXCEPT !.phase = "admins"]) /\ Goto("deleteAdmins")
    /\ UNCHANGED <<state, saved, known, rows, seen, due, calls, panelVars, inst>>

\* Admins go deepest first; the panel keeps one that still has a child, and the pass
\* stops there.
Depth(a) == Cardinality(Above[a])
DeleteAdmins(bad) ==
    LET left == Bundle(R) \ Me.adminsDone
        stuck == {a \in left : a = bad \/ \E b \in (exists \cap Admins) \ left : a \in Above[b]}
        gone == {a \in left : \A b \in stuck : Depth(b) < Depth(a)}
        tried == Tried([Me EXCEPT !.adminsDone = @ \cup gone], stuck \ gone)
    IN  /\ At({"deleteAdmins"}) /\ bad \in left \cup {None}
        /\ IF bad = None THEN NoFault ELSE Fault
        /\ exists' = exists \ gone
        /\ IF stuck = {} THEN Write([tried EXCEPT !.phase = "db"]) /\ Goto("purge")
           ELSE /\ Write([tried EXCEPT !.status =
                            IF \E a \in stuck : Exhausted(tried, a) THEN "failed" ELSE "partial"])
                /\ Leave
        /\ UNCHANGED <<state, saved, known, rows, seen, due, calls, on, limit, locked>>

\* purge_subtree: the rows of the subtree go, and with them, by cascade, its actions.
Purge ==
    LET all == Bundle(R)
    IN  /\ At({"purge"})
        /\ rows' = rows \ (all \cup UsersUnder(R))
        /\ seen' = seen \ UsersUnder(R)
        /\ due' = [a \in Admins |-> IF a \in all THEN "none" ELSE due[a]]
        /\ queue' = [i \in Ids |-> IF queue[i].r \in all THEN [queue[i] EXCEPT !.status = "purged"]
                                   ELSE queue[i]]
        /\ lane' = [NextRow EXCEPT !.at = IF \E n \in DOMAIN lane.batch : queue[lane.batch[n]].r \in all
                                          THEN "off" ELSE @]
        /\ state' = [a \in Admins |-> IF a \in all THEN "active" ELSE state[a]]
        /\ saved' = [a \in Admins |-> IF a \in all THEN None ELSE saved[a]]
        /\ known' = [a \in Admins |-> IF a \in all THEN Full ELSE known[a]]
        /\ UNCHANGED <<calls, panelVars, inst>>

-----------------------------------------------------------------------------
(* A crash or restart loses the lane, and what it wrote without committing. *)

Uncommitted == {"commit", "limitsCommit", "dropUsers"}
Crash ==
    /\ ~At({"off"}) /\ ("crash" \in Ops \/ ("clean crash" \in Ops /\ ~At(Uncommitted)))
    /\ Fault
    /\ lane' = Off
    /\ UNCHANGED <<dbVars, panelVars>>

\* prune_logs: an old finished or reverted row goes, but for the newest live one of a
\* reseller that is still restricted.
Protected == {Newest(RowsOf(queue, a, {"suspend", "freeze"}, Live)) :
                a \in {b \in Admins : state[b] # "active" /\ RowsOf(queue, b, {"suspend", "freeze"}, Live) # {}}}
Prune(i) ==
    /\ "prune" \in Ops /\ At({"off"})
    /\ queue[i].status \in {"done", "failed", "reverted"} /\ i \notin Protected
    /\ queue' = [queue EXCEPT ![i].status = "purged"]
    /\ UNCHANGED <<state, saved, known, rows, seen, due, calls, panelVars, lane, inst>>

Work ==
    \/ StartRun \/ BeginSuspend \/ BeginRestore \/ BeginFreeze \/ BeginDelete
    \/ Resolve({}) \/ StopChunks \/ CommitChunk \/ UsersDisabled \/ UsersEnabled
    \/ \E u \in Users, key \in Admins : SendChunk(u, key) \/ SkipChunk(u, key)
    \/ StopLimits \/ LimitsPass(None, "none") \/ CommitLimits \/ NoLimits
    \/ CheckSuspend({}) \/ StopSuspend
    \/ FinishSuspend \/ FinishFreeze \/ StopFreeze \/ FinishRestore({})
    \/ DeleteUsers \/ DropUsers \/ EndDelete \/ DeleteAdmins(None) \/ Purge

CallFails == {"refused", "unread"} \cup (IF "lost answer" \in Ops THEN {"lost answer"} ELSE {})
Trouble ==
    \/ \E u \in Users : Resolve({u})
    \/ \E u \in Users, key \in Admins : RefuseChunk(u, key)
    \/ \E a \in Admins : (\E how \in CallFails : LimitsPass(a, how)) \/ DeleteAdmins(a)
    \/ \E a \in Admins : CheckSuspend({a}) \/ FinishRestore({a})
    \/ RefuseDelete \/ Crash

Request ==
    \E r \in Admins :
        Dun(r) \/ Suspend(r) \/ Freeze(r) \/ Delete(r) \/ Reassert(r)
            \/ Settle(r) \/ RestoreSettled(r) \/ RestoreByHand(r) \/ FallDue(r)

Around ==
    \/ \E u \in Users : DebtorEnables(u)
    \/ \E a \in Admins : AddAdmin(a) \/ DropAdmin(a)
    \/ Sync
    \/ \E i \in Ids : Prune(i)

Next == Work \/ Trouble \/ Request \/ Around
Spec == Init /\ [][Next]_vars

\* The queue job, the sync and the daily sweep keep running; a payment's request goes on.
Fairness ==
    /\ WF_vars(Work)
    /\ \A r \in Indebted : WF_vars(RestoreSettled(r)) /\ WF_vars(Reassert(r))
    /\ WF_vars(Sync)
FairSpec == Spec /\ Fairness

-----------------------------------------------------------------------------
(* Properties.                                                             *)

\* Debt, dunning, payment, deferral and the sweep, and nothing that interferes: no
\* freeze, deletion, suspension by hand, lost admin, pruned row or restart.
Everyday == Ops \cap {"freeze", "prune", "drop", "delete", "suspend", "clean crash"} = {}

\* Every day, a user the queue turned off (nothing else does) is
\* on the work list of something that turns it on again: a waiting restore, a
\* suspension a restore would read, or what the lane is about to commit or merge.
Tracked(u) ==
    \/ \E i \in Ids : queue[i].kind = "restore" /\ queue[i].status \in {"planned", "partial", "failed"}
                        /\ u \in queue[i].users
    \/ \E i \in Ids : queue[i].kind = "suspend" /\ queue[i].status \in Live /\ u \in queue[i].usersDone
    \/ lane.at # "off" /\ Me.kind = "suspend" /\ u \in lane.wrote \cup Me.usersDone
UsersHandedBack == Everyday => \A u \in exists \cap Users : u \notin on => Tracked(u)

\* The limits an admin had before it was restricted are never forgotten: they are on
\* the panel, in its recovery snapshot, in what the lane captured or in the row that a
\* restore will read.
LimitsRemembered ==
    \A a \in exists \cap Admins :
        \/ Full \in {limit[a], saved[a], lane.got[a]}
        \/ \E r \in Above[a] \cup {a} :
              \/ \E i \in WaitingRestore(queue, r) : queue[i].captured[a] = Full
              \/ Candidates(queue, r) # {} /\ Captured(queue[Source(queue, r)])[a] = Full

\* Debt that is settled does not keep anybody off: unless more falls due or a restore
\* gave up, every user of the reseller is on again.
GaveUp(r) == \E i \in RowsOf(queue, r, {"restore"}, {"failed"}) : TRUE
Down(r) == \E u \in UsersUnder(r) \cap exists : u \notin on
SettledIsRestored ==
    \A r \in Indebted : (Everyday /\ ~Due(r) /\ Down(r)) ~> (Due(r) \/ ~Down(r) \/ GaveUp(r))

\* A frozen reseller cannot make users while its freeze stands, whatever happens to the
\* branch above it.
FreezeHolds ==
    \A r \in exists \cap Admins :
        state[r] = "frozen" /\ RowsOf(queue, r, {"restore"}, Live) = {} => limit[r].mu = 0

=============================================================================
