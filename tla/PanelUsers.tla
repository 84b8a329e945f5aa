------------------------------ MODULE PanelUsers ------------------------------
(***************************************************************************)
(* The users of one Hiddify panel and the rows that bill them: the owner   *)
(* deletes users through the panel, removes rows, and brings lost users    *)
(* back; resellers and the shop make users; the sync writes the rows.      *)
(*                                                                         *)
(* A row stands for a user's snapshot with its meters and meter events,    *)
(* which every purge drops together.  Quotas are big (at or above the      *)
(* floor of the delete) or not.  A request's database reads before its     *)
(* first call to the panel are one step; every call is a step of its own.  *)
(***************************************************************************)
EXTENDS Integers, FiniteSets

CONSTANTS
    Users, Admins,      \* user uuids, and the admins that own users
    Ids,                \* the panel's numbers of users
    Requests,           \* delete requests under way at once
    MaxUsers,           \* panel_max_users of an admin
    MaxOps,             \* bound on what happens on the panel and in the shop
    Panels,             \* panels to begin with
    Worlds,             \* sets of what happens at all, one of them in each behaviour
    None

ASSUME BoundsAssumption == MaxUsers \in Nat /\ MaxOps \in Nat
ASSUME NoneAssumption == None \notin Admins /\ None \notin Ids

PanelUser == [id : Ids, owner : Admins \cup {None}, big : BOOLEAN]
\* A panel numbers its users apart.
Numbered(p) == \A u, v \in Users : p[u] # None /\ p[v] # None /\ p[u].id = p[v].id => u = v
ASSUME PanelsAssumption == \A p \in Panels : p \in [Users -> PanelUser \cup {None}] /\ Numbered(p)

VARIABLES
    panel,      \* users of the panel
    backup,     \* the panel's latest backup
    fetched,    \* what a running sync has read
    snap,       \* end_user_snapshots; here: seen by the latest sync
    tab,        \* users whose rows the owner's page shows
    order,      \* how far the shop's sale of a user is
    suspended,  \* admins that may not create users
    making,     \* users an admitted creation still has to make, per admin
    recovery,   \* the user being brought back
    req,        \* delete requests
    world,      \* what happens in this behaviour
    ops,        \* how often the panel and the shop changed so far
    gone,       \* history: named users the panel lacked since a request began
    allowed,    \* history: users a request may remove, by what held when it began
    moved       \* history: requests since whose begin the panel was renumbered

dbVars == <<fetched, snap, tab>>
shopVars == <<order, suspended, making>>
hist == <<gone, allowed, moved>>
vars == <<panel, backup, dbVars, shopVars, recovery, req, world, ops, hist>>

Row == [owner : Admins \cup {None}, big : BOOLEAN, here : BOOLEAN]
Purgeable == {"deleted", "already_absent"}
DeleteStatus == Purgeable \cup
    {"unnamed", "not_found", "skipped_low_quota", "skipped_no_owner", "skipped_storefront",
     "owner_mismatch", "lookup_failed", "delete_failed", "verify_failed",
     "pending", "unowned", "resolved", "sent"}
Request == [owner : [Users -> Admins \cup {None}], id : [Users -> Ids \cup {None}],
            status : [Users -> DeleteStatus]]

TypeOK ==
    /\ panel \in [Users -> PanelUser \cup {None}]
    /\ backup \in [Users -> PanelUser \cup {None}]
    /\ fetched \in {None} \cup [Users -> PanelUser \cup {None}]
    /\ snap \in [Users -> Row \cup {None}]
    /\ tab \subseteq Users
    /\ order \in [Users -> {None, "provisioning", "provisioned"}]
    /\ suspended \subseteq Admins
    /\ making \in [Admins -> Nat]
    /\ recovery \in {None} \cup [user : Users, owner : Admins, big : BOOLEAN, checked : BOOLEAN]
    /\ req \in [Requests -> Request \cup {None}]
    /\ ops \in 0..MaxOps
    /\ gone \in [Requests -> SUBSET Users]
    /\ allowed \in [Requests -> SUBSET Users]
    /\ moved \subseteq Requests

\* The panel has been synced once.
FirstRow(p) == IF p = None THEN None ELSE [owner |-> p.owner, big |-> p.big, here |-> TRUE]
Init ==
    /\ world \in Worlds
    /\ panel \in Panels
    /\ backup = panel
    /\ fetched = None
    /\ snap = [u \in Users |-> FirstRow(panel[u])] /\ tab = {}
    /\ order = [u \in Users |-> None]
    /\ suspended = {} /\ making = [a \in Admins |-> 0]
    /\ recovery = None
    /\ req = [r \in Requests |-> None]
    /\ ops = 0 /\ gone = [r \in Requests |-> {}] /\ allowed = gone /\ moved = {}

-----------------------------------------------------------------------------
(* The panel and who else uses it.                                         *)

OnPanel == {u \in Users : panel[u] # None}
\* The panel counts on: it gives no number again that a request still holds.
FreeId(i) ==
    /\ \A u \in OnPanel : panel[u].id # i
    /\ \A r \in Requests, u \in Users : req[r] # None => req[r].id[u] # i
Named(r) == IF req[r] = None THEN {} ELSE {u \in Users : req[r].status[u] # "unnamed"}
PanelBecomes(p) ==
    /\ panel' = p
    /\ gone' = [r \in Requests |-> gone[r] \cup {u \in Named(r) : p[u] = None}]
On(op) == op \in world /\ ops < MaxOps /\ ops' = ops + 1 /\ world' = world
NewId == CHOOSE i \in Ids : FreeId(i)
HasNewId == \E i \in Ids : FreeId(i)
User(i, a, big) == [id |-> i, owner |-> a, big |-> big]

DeletedOnPanel(u) ==
    /\ On("lost") /\ u \in OnPanel
    /\ PanelBecomes([panel EXCEPT ![u] = None])
    /\ UNCHANGED <<backup, dbVars, shopVars, recovery, req, allowed, moved>>

\* Deleting an admin on the panel gives its users to its parent.
Reparent(u, a) ==
    /\ On("reparent") /\ u \in OnPanel /\ panel[u].owner # a
    /\ PanelBecomes([panel EXCEPT ![u].owner = a])
    /\ UNCHANGED <<backup, dbVars, shopVars, recovery, req, allowed, moved>>

\* A backup brought back on another server numbers the users anew.
Renumbered(u, ids) == IF backup[u] = None THEN None ELSE [backup[u] EXCEPT !.id = ids[u]]
Numberings == {ids \in [Users -> Ids] : \A u, v \in Users : ids[u] = ids[v] => u = v}
RestorePanel ==
    /\ On("restore")
    /\ \E ids \in Numberings : PanelBecomes([u \in Users |-> Renumbered(u, ids)])
    /\ moved' = {r \in Requests : req[r] # None}
    /\ UNCHANGED <<backup, dbVars, shopVars, recovery, req, allowed>>

BackUp ==
    /\ "restore" \in world /\ backup # panel /\ backup' = panel
    /\ UNCHANGED <<panel, dbVars, shopVars, recovery, req, world, ops, hist>>

-----------------------------------------------------------------------------
(* Resellers and the shop making users.                                    *)

\* Users of other admins, lost users and users the sync has not seen do not count.
Counted(a) == {u \in Users : snap[u] # None /\ snap[u].owner = a /\ snap[u].here}
CreationAllowed(a, count) == a \notin suspended /\ Cardinality(Counted(a)) + count <= MaxUsers
CreateForReseller(a, count) ==
    /\ "create" \in world /\ making[a] = 0 /\ CreationAllowed(a, count)
    /\ making' = [making EXCEPT ![a] = count]
    /\ UNCHANGED <<panel, backup, dbVars, order, suspended, recovery, req, world, ops, hist>>

NewUuid(u) == panel[u] = None /\ snap[u] = None /\ backup[u] = None /\ order[u] = None
CreateUser(a, u, big) ==
    /\ On("create") /\ making[a] > 0 /\ NewUuid(u) /\ HasNewId
    /\ PanelBecomes([panel EXCEPT ![u] = User(NewId, a, big)])
    /\ making' = [making EXCEPT ![a] = @ - 1]
    /\ UNCHANGED <<backup, dbVars, order, suspended, recovery, req, allowed, moved>>

\* The panel refuses or cannot be reached: what is made stays, the rest is not made.
CreateFails(a) ==
    /\ making[a] > 0
    /\ making' = [making EXCEPT ![a] = 0]
    /\ UNCHANGED <<panel, backup, dbVars, order, suspended, recovery, req, world, ops, hist>>

Suspend(a) ==
    /\ On("create") /\ a \notin suspended /\ suspended' = suspended \cup {a}
    /\ UNCHANGED <<panel, backup, dbVars, order, making, recovery, req, hist>>

\* The shop makes its user before the order is provisioned.
ShopSells(a, u) ==
    /\ On("shop") /\ a \notin suspended /\ NewUuid(u) /\ HasNewId
    /\ PanelBecomes([panel EXCEPT ![u] = User(NewId, a, TRUE)])
    /\ order' = [order EXCEPT ![u] = "provisioning"]
    /\ UNCHANGED <<backup, dbVars, suspended, making, recovery, req, allowed, moved>>

ShopProvisioned(u) ==
    /\ order[u] = "provisioning"
    /\ order' = [order EXCEPT ![u] = "provisioned"]
    /\ UNCHANGED <<panel, backup, dbVars, suspended, making, recovery, req, world, ops, hist>>

-----------------------------------------------------------------------------
(* The sync and the owner's page.                                          *)

Fetch ==
    /\ "sync" \in world /\ fetched = None /\ fetched' = panel
    /\ UNCHANGED <<panel, backup, snap, tab, shopVars, recovery, req, world, ops, hist>>

Synced(u) ==
    IF fetched[u] # None THEN [owner |-> fetched[u].owner, big |-> fetched[u].big, here |-> TRUE]
    ELSE IF snap[u] # None THEN [snap[u] EXCEPT !.here = FALSE] ELSE None
WriteSync ==
    /\ fetched # None /\ fetched' = None
    /\ snap' = [u \in Users |-> Synced(u)]
    /\ UNCHANGED <<panel, backup, tab, shopVars, recovery, req, world, ops, hist>>

Known == {u \in Users : snap[u] # None}
Shows(S) ==
    /\ tab # S /\ tab' = S
    /\ UNCHANGED <<panel, backup, fetched, snap, shopVars, recovery, req, world, ops, hist>>
Search == "search" \in world /\ Shows(Known)

\* A lost user is listed when its consumption will be billed at its quota.
HighVolume == {u \in Known : snap[u].big /\ snap[u].owner # None}
ListHighVolume ==
    /\ "list" \in world
    /\ \E S \in SUBSET HighVolume : {u \in HighVolume : snap[u].here} \subseteq S /\ Shows(S)

\* A row a later sync adds for the user is another row, which the page does not show.
Purge(S) ==
    /\ snap' = [u \in Users |-> IF u \in S THEN None ELSE snap[u]]
    /\ tab' = tab \ S

RemoveEndUser(u) ==
    /\ "remove" \in world /\ u \in tab /\ snap[u] # None
    /\ Purge({u})
    /\ UNCHANGED <<panel, backup, fetched, shopVars, recovery, req, world, ops, hist>>

-----------------------------------------------------------------------------
(* Bringing lost users back.                                               *)

Lost(u) == u \in Known /\ ~snap[u].here
\* A row without a reseller of its owner is refused.
Recover(u) ==
    /\ On("recover") /\ recovery = None /\ Lost(u) /\ snap[u].owner # None
    /\ recovery' = [user |-> u, owner |-> snap[u].owner, big |-> snap[u].big, checked |-> FALSE]
    /\ UNCHANGED <<panel, backup, dbVars, shopVars, req, hist>>

\* What an admin's key shows of a user; the panel's own key shows every user.
Shown(u, a) == panel[u] # None /\ panel[u].owner = a
RecoveryChecks ==
    /\ recovery # None /\ ~recovery.checked
    /\ ~Shown(recovery.user, recovery.owner)
    /\ recovery' = [recovery EXCEPT !.checked = TRUE]
    /\ UNCHANGED <<panel, backup, dbVars, shopVars, req, world, ops, hist>>

\* Already back, or a call that failed.
RecoveryStops ==
    /\ recovery # None /\ recovery' = None
    /\ UNCHANGED <<panel, backup, dbVars, shopVars, req, world, ops, hist>>

\* The panel refuses the uuid of a user it has.
RecoveryCreates ==
    /\ recovery # None /\ recovery.checked /\ panel[recovery.user] = None /\ HasNewId
    /\ PanelBecomes([panel EXCEPT ![recovery.user] = User(NewId, recovery.owner, recovery.big)])
    /\ recovery' = None
    /\ UNCHANGED <<backup, dbVars, shopVars, req, world, ops, allowed, moved>>

-----------------------------------------------------------------------------
(* Deleting users on the panel and then their rows.                        *)

BelowFloor(u) == ~snap[u].big     \* HIGH_VOLUME_DELETE_FLOOR_GB
LiveOrder(u) == order[u] = "provisioned"
FirstStatus(u, named) ==
    IF u \notin named THEN "unnamed"
    ELSE IF snap[u] = None THEN "not_found"
    ELSE IF BelowFloor(u) THEN "skipped_low_quota"
    ELSE IF snap[u].owner = None THEN "skipped_no_owner"
    ELSE IF LiveOrder(u) THEN "skipped_storefront" ELSE "pending"

DeleteEndUsers(r, named) ==
    /\ "delete" \in world /\ req[r] = None
    /\ req' = [req EXCEPT ![r] =
                  [owner |-> [u \in Users |-> IF u \in named \cap Known THEN snap[u].owner ELSE None],
                   id |-> [u \in Users |-> None],
                   status |-> [u \in Users |-> FirstStatus(u, named)]]]
    /\ gone' = [gone EXCEPT ![r] = {u \in named : panel[u] = None}]
    /\ allowed' = [allowed EXCEPT ![r] =
           {u \in named \cap Known : snap[u].big /\ snap[u].owner # None /\ ~LiveOrder(u)}]
    /\ UNCHANGED <<panel, backup, dbVars, shopVars, recovery, world, ops, moved>>

HighVolumeDelete(r, named) == named # {} /\ DeleteEndUsers(r, named)

With(r, s) == {u \in Users : req[r].status[u] = s}
Waiting(r, S) == \A s \in S : With(r, s) = {}
Becomes(r, S, s) ==
    req' = [req EXCEPT ![r].status = [u \in Users |-> IF u \in S THEN s ELSE @[u]]]
Quiet == UNCHANGED <<panel, backup, dbVars, shopVars, recovery, world, ops, hist>>

CallFails(r, u) ==
    /\ req[r] # None
    /\ \/ req[r].status[u] \in {"pending", "unowned"} /\ Becomes(r, {u}, "lookup_failed")
       \/ req[r].status[u] = "sent" /\ Becomes(r, {u}, "verify_failed")
    /\ Quiet

Resolve(r, u) ==
    /\ req[r] # None /\ req[r].status[u] = "pending"
    /\ \/ /\ Shown(u, req[r].owner[u])
          /\ req' = [req EXCEPT ![r].id[u] = panel[u].id, ![r].status[u] = "resolved"]
       \/ /\ ~Shown(u, req[r].owner[u])
          /\ Becomes(r, {u}, "unowned")
    /\ Quiet

\* Mutant of Absence: what the owner's key does not show counts as absent.
UnownedIsAbsent(u) == "already_absent"
\* get_user_id answers None for a 404 and for an answer that names no id; the
\* panel of this model never sends the second.
Absence(u) == IF panel[u] = None THEN "already_absent" ELSE "owner_mismatch"
ConfirmAbsent(r, u) ==
    /\ req[r] # None /\ req[r].status[u] = "unowned"
    /\ Becomes(r, {u}, Absence(u))
    /\ Quiet

Batch(r, a) == {u \in With(r, "resolved") : req[r].owner[u] = a}
\* Mutant of Removed: the panel's own key, which owns every user.
RemovedByAnyone(ids, a) == {v \in OnPanel : panel[v].id \in ids}
Removed(ids, a) == {v \in OnPanel : panel[v].id \in ids /\ panel[v].owner = a}
\* The panel does it and answers, does it and the answer is lost, or does not.
BulkDelete(r, a) ==
    /\ req[r] # None /\ Waiting(r, {"pending", "unowned"})
    /\ Batch(r, a) # {}
    /\ \E answered, done \in BOOLEAN :
         /\ answered => done
         /\ Becomes(r, Batch(r, a), IF answered THEN "sent" ELSE "delete_failed")
         /\ IF done
            THEN LET out == Removed({req[r].id[u] : u \in Batch(r, a)}, a)
                 IN PanelBecomes([u \in Users |-> IF u \in out THEN None ELSE panel[u]])
            ELSE UNCHANGED <<panel, gone>>
    /\ UNCHANGED <<backup, dbVars, shopVars, recovery, world, ops, allowed, moved>>

Verify(r, u) ==
    /\ req[r] # None /\ Waiting(r, {"pending", "unowned", "resolved"})
    /\ req[r].status[u] = "sent"
    /\ Becomes(r, {u}, IF panel[u] = None THEN "deleted" ELSE "verify_failed")
    /\ Quiet

PurgeProven(r) ==
    /\ req[r] # None /\ Waiting(r, {"pending", "unowned", "resolved", "sent"})
    /\ Purge({u \in Users : req[r].status[u] \in Purgeable})
    /\ req' = [req EXCEPT ![r] = None]
    /\ gone' = [gone EXCEPT ![r] = {}] /\ allowed' = [allowed EXCEPT ![r] = {}] /\ moved' = moved \ {r}
    /\ UNCHANGED <<panel, backup, fetched, shopVars, recovery, world, ops>>

\* Nothing of a request is stored before it purges.
Crash ==
    /\ recovery # None \/ \E a \in Admins : making[a] > 0 \/ \E r \in Requests : req[r] # None
    /\ recovery' = None
    /\ making' = [a \in Admins |-> 0]
    /\ req' = [r \in Requests |-> None]
    /\ fetched' = None
    /\ gone' = [r \in Requests |-> {}] /\ allowed' = gone' /\ moved' = {}
    /\ UNCHANGED <<panel, backup, snap, tab, order, suspended, world, ops>>

PanelNext ==
    \/ \E u \in Users : DeletedOnPanel(u)
    \/ \E u \in Users, a \in Admins : Reparent(u, a)
    \/ RestorePanel \/ BackUp
CreateNext ==
    \/ \E a \in Admins, count \in 1..2 : CreateForReseller(a, count)
    \/ \E a \in Admins, u \in Users, big \in BOOLEAN : CreateUser(a, u, big)
    \/ \E a \in Admins : CreateFails(a) \/ Suspend(a)
    \/ \E a \in Admins, u \in Users : ShopSells(a, u)
    \/ \E u \in Users : ShopProvisioned(u)
RowNext ==
    \/ Fetch \/ WriteSync \/ Search \/ ListHighVolume
    \/ \E u \in Users : RemoveEndUser(u) \/ Recover(u)
    \/ RecoveryChecks \/ RecoveryStops \/ RecoveryCreates
DeleteNext ==
    \E r \in Requests :
      \/ \E named \in SUBSET tab : HighVolumeDelete(r, named)
      \/ \E u \in Users : Resolve(r, u) \/ ConfirmAbsent(r, u) \/ Verify(r, u) \/ CallFails(r, u)
      \/ \E a \in Admins : BulkDelete(r, a)
      \/ PurgeProven(r)
Next == PanelNext \/ CreateNext \/ RowNext \/ DeleteNext \/ Crash
Spec == Init /\ [][Next]_vars

-----------------------------------------------------------------------------
(* Properties.                                                             *)

Acts(r) == req[r] # None /\ req'[r] # req[r]

\* A delete request drops a user's billing rows only if the panel was without that user
\* at some moment after the request began (delete_end_users: "ONLY when the panel is
\* proven to no longer hold that user"), whatever failed, moved or was renumbered.
PurgedWasGone ==
    [][\A r \in Requests, u \in Users :
         Acts(r) /\ snap[u] # None /\ snap'[u] = None => u \in gone[r]]_vars

\* A request removes from the panel only users of admins whose users it named; unless
\* the panel was renumbered meanwhile, only users it named, with a big quota and not
\* behind a live order when it looked (the 2026-07-18 accident of _user_bulk_action).
DeletesOnlyNamed ==
    [][\A r \in Requests, u \in Users :
         Acts(r) /\ panel[u] # None /\ panel'[u] = None =>
           \E v \in allowed[r] : panel[u].owner = req[r].owner[v] /\ (u = v \/ r \in moved)]_vars
=============================================================================
