--------------------------- MODULE PanelUsersProofs ---------------------------
(* A delete request of the owner removes what it named and purges only what *)
(* was gone, for any users, admins, numberings and requests.                *)
EXTENDS PanelUsers, TLAPS

\* A purgeable status was read off a panel without the user.
Proven ==
    \A r \in Requests, u \in Users :
      req[r] # None /\ req[r].status[u] \in Purgeable => u \in gone[r]
\* Users that may still be deleted passed every guard, and have an owner to act as.
Aimed ==
    \A r \in Requests, u \in Users :
      req[r] # None /\ req[r].status[u] \in {"pending", "unowned", "resolved"} =>
        u \in allowed[r] /\ req[r].owner[u] \in Admins
\* A number a request resolved stays its user's until the panel is renumbered.
Fixed ==
    \A r \in Requests : \A u, v \in Users :
      req[r] # None /\ req[r].status[u] = "resolved" /\ r \notin moved /\
      panel[v] # None /\ panel[v].id = req[r].id[u] => v = u
\* While a request runs, gone misses no named user that the panel lacks.
Remembered ==
    \A r \in Requests : \A u \in Named(r) : panel[u] = None => u \in gone[r]
IInv == TypeOK /\ Numbered(panel) /\ Proven /\ Aimed /\ Fixed /\ Remembered

LEMMA PanelInit == Init => IInv
<1> SUFFICES ASSUME Init PROVE IInv
  OBVIOUS
<1>1. panel \in [Users -> PanelUser \cup {None}] /\ Numbered(panel)
  BY PanelsAssumption DEF Init
<1>2. snap \in [Users -> Row \cup {None}]
  BY <1>1 DEF Init, FirstRow, PanelUser, Row
<1>3. TypeOK
  BY <1>1, <1>2, BoundsAssumption DEF Init, TypeOK
<1>. QED  BY <1>1, <1>3 DEF Init, IInv, Proven, Aimed, Fixed, Remembered, Named

LEMMA NewIdIsFree ==
  ASSUME HasNewId
  PROVE  NewId \in Ids /\ FreeId(NewId)
  BY DEF HasNewId, NewId

\* What the panel, the resellers, the shop, the sync and the recovery do leaves
\* the requests alone.
LEMMA AsideKeeps ==
  ASSUME IInv, TypeOK', Numbered(panel'),
         req' = req, allowed' = allowed, moved \subseteq moved',
         \A r \in Requests : gone[r] \subseteq gone'[r],
         panel' = panel \/ Remembered',
         \A r \in Requests \ moved', v \in Users :
           req[r] # None /\ panel'[v] # None =>
             \/ panel[v] # None /\ panel'[v].id = panel[v].id
             \/ \A u \in Users : panel'[v].id # req[r].id[u]
  PROVE  IInv'
<1>1. Proven' /\ Aimed'
  BY DEF IInv, Proven, Aimed
<1>2. Fixed'
  <2> SUFFICES ASSUME NEW r \in Requests, NEW u \in Users, NEW v \in Users,
                      req[r] # None, req[r].status[u] = "resolved", r \notin moved',
                      panel'[v] # None, panel'[v].id = req[r].id[u]
               PROVE  v = u
    BY DEF Fixed
  <2>1. panel[v] # None /\ panel[v].id = req[r].id[u]
    OBVIOUS
  <2>. QED  BY <2>1 DEF IInv, Fixed
<1>3. Remembered'
  BY DEF IInv, Remembered, Named
<1>. QED  BY <1>1, <1>2, <1>3 DEF IInv

LEMMA OnCounts ==
  ASSUME TypeOK, NEW op, On(op)
  PROVE  ops' \in 0..MaxOps
  BY BoundsAssumption DEF TypeOK, On

LEMMA BecomesTyped ==
  ASSUME TypeOK, NEW p \in [Users -> PanelUser \cup {None}], PanelBecomes(p)
  PROVE  /\ panel' = p
         /\ gone' \in [Requests -> SUBSET Users]
         /\ \A r \in Requests : gone[r] \subseteq gone'[r]
         /\ req' = req => Remembered'
  BY DEF TypeOK, PanelBecomes, Named, Remembered

\* One user more or fewer, or of another admin, numbered as before or anew.
LEMMA AUserChanges ==
  ASSUME IInv, NEW w \in Users, NEW x \in PanelUser \cup {None},
         PanelBecomes([panel EXCEPT ![w] = x]),
         x # None => \/ panel[w] # None /\ x.id = panel[w].id
                     \/ FreeId(x.id),
         backup' = backup, req' = req, allowed' = allowed, moved' = moved,
         ops' \in 0..MaxOps,
         fetched' = fetched, snap' = snap, tab' = tab, suspended' = suspended,
         order' \in [Users -> {None, "provisioning", "provisioned"}],
         making' \in [Admins -> Nat], recovery' \in {recovery, None}
  PROVE  IInv'
<1>1. [panel EXCEPT ![w] = x] \in [Users -> PanelUser \cup {None}]
  BY DEF IInv, TypeOK
<1>2. /\ panel' = [panel EXCEPT ![w] = x]
      /\ gone' \in [Requests -> SUBSET Users]
      /\ \A r \in Requests : gone[r] \subseteq gone'[r]
      /\ Remembered'
  BY <1>1, BecomesTyped DEF IInv
<1>3. TypeOK'
  BY <1>1, <1>2 DEF IInv, TypeOK
<1>4. \A v \in Users \ {w} : panel'[v] = panel[v]
  BY <1>2 DEF IInv, TypeOK
<1>5. panel'[w] = x
  BY <1>2 DEF IInv, TypeOK
<1>6. Numbered(panel')
  BY <1>4, <1>5 DEF IInv, Numbered, FreeId, OnPanel
<1>7. \A r \in Requests, v \in Users :
        req[r] # None /\ panel'[v] # None =>
          \/ panel[v] # None /\ panel'[v].id = panel[v].id
          \/ \A u \in Users : panel'[v].id # req[r].id[u]
  BY <1>4, <1>5 DEF FreeId
<1>. QED  BY <1>2, <1>3, <1>6, <1>7, AsideKeeps

LEMMA PanelNextKeeps ==
  ASSUME IInv, PanelNext
  PROVE  IInv'
<1>1. ASSUME NEW u \in Users, DeletedOnPanel(u)
      PROVE  IInv'
  <2>1. ops' \in 0..MaxOps
    BY <1>1, OnCounts DEF DeletedOnPanel, IInv
  <2>2. order \in [Users -> {None, "provisioning", "provisioned"}] /\ making \in [Admins -> Nat]
    BY DEF IInv, TypeOK
  <2>. QED
    BY <1>1, <2>1, <2>2, AUserChanges DEF DeletedOnPanel, dbVars, shopVars
<1>2. ASSUME NEW u \in Users, NEW a \in Admins, Reparent(u, a)
      PROVE  IInv'
  <2> DEFINE x == [panel[u] EXCEPT !.owner = a]
  <2>1. x \in PanelUser /\ x.id = panel[u].id /\ panel[u] # None
    BY <1>2 DEF Reparent, OnPanel, IInv, TypeOK, PanelUser
  <2>2. PanelBecomes([panel EXCEPT ![u] = x])
    BY <1>2 DEF Reparent, IInv, TypeOK
  <2>3. ops' \in 0..MaxOps
    BY <1>2, OnCounts DEF Reparent, IInv
  <2>4. order \in [Users -> {None, "provisioning", "provisioned"}] /\ making \in [Admins -> Nat]
    BY DEF IInv, TypeOK
  <2> HIDE DEF x
  <2>. QED
    BY <1>2, <2>1, <2>2, <2>3, <2>4, AUserChanges DEF Reparent, dbVars, shopVars
<1>3. CASE RestorePanel
  <2>1. PICK ids \in Numberings : PanelBecomes([u \in Users |-> Renumbered(u, ids)])
    BY <1>3 DEF RestorePanel
  <2> DEFINE p == [u \in Users |-> Renumbered(u, ids)]
  <2>2. \A u \in Users : backup[u] # None =>
          p[u] \in PanelUser /\ p[u].id = ids[u]
    BY <2>1 DEF Renumbered, Numberings, IInv, TypeOK, PanelUser
  <2>3. \A u \in Users : p[u] # None => backup[u] # None
    BY DEF Renumbered
  <2>4. p \in [Users -> PanelUser \cup {None}]
    BY <2>2 DEF Renumbered
  <2>5. Numbered(p)
    BY <2>1, <2>2, <2>3 DEF Numbered, Numberings
  <2>6. /\ panel' = p /\ gone' \in [Requests -> SUBSET Users]
        /\ \A r \in Requests : gone[r] \subseteq gone'[r]
        /\ Remembered'
    BY <1>3, <2>1, <2>4, BecomesTyped DEF IInv, RestorePanel
  <2>10. ops' \in 0..MaxOps
    BY <1>3, OnCounts DEF RestorePanel, IInv
  <2>7. TypeOK'
    BY <1>3, <2>4, <2>6, <2>10 DEF RestorePanel, dbVars, shopVars, IInv, TypeOK
  <2>8. Proven' /\ Aimed'
    BY <1>3, <2>6 DEF RestorePanel, IInv, Proven, Aimed
  <2>9. Fixed'
    BY <1>3 DEF RestorePanel, Fixed
  <2> HIDE DEF p
  <2>11. Numbered(panel')
    BY <2>5, <2>6 DEF Numbered
  <2>12. Remembered'
    BY <2>6
  <2>. QED  BY <2>7, <2>8, <2>9, <2>11, <2>12 DEF IInv
<1>4. CASE BackUp
  <2>1. TypeOK'
    BY <1>4 DEF BackUp, hist, dbVars, shopVars, IInv, TypeOK
  <2>. QED  BY <1>4, <2>1, AsideKeeps DEF BackUp, hist, IInv
<1>. QED  BY <1>1, <1>2, <1>3, <1>4 DEF PanelNext

LEMMA CreateNextKeeps ==
  ASSUME IInv, CreateNext
  PROVE  IInv'
<1>1. ASSUME NEW a \in Admins, NEW count \in 1..2, CreateForReseller(a, count)
      PROVE  IInv'
  <2>1. TypeOK'
    BY <1>1 DEF CreateForReseller, hist, dbVars, IInv, TypeOK
  <2>. QED  BY <1>1, <2>1, AsideKeeps DEF CreateForReseller, hist, IInv
<1>2. ASSUME NEW a \in Admins, NEW u \in Users, NEW big \in BOOLEAN, CreateUser(a, u, big)
      PROVE  IInv'
  <2> DEFINE x == User(NewId, a, big)
  <2>1. x \in PanelUser /\ FreeId(x.id)
    BY <1>2, NewIdIsFree DEF CreateUser, User, PanelUser
  <2>2. ops' \in 0..MaxOps
    BY <1>2, OnCounts DEF CreateUser, IInv
  <2>3. order \in [Users -> {None, "provisioning", "provisioned"}] /\ making' \in [Admins -> Nat]
    BY <1>2 DEF CreateUser, IInv, TypeOK
  <2>4. PanelBecomes([panel EXCEPT ![u] = x])
    BY <1>2 DEF CreateUser
  <2> HIDE DEF x
  <2>. QED  BY <1>2, <2>1, <2>2, <2>3, <2>4, AUserChanges DEF CreateUser, dbVars
<1>3. ASSUME NEW a \in Admins, CreateFails(a) \/ Suspend(a)
      PROVE  IInv'
  <2>1. ops' \in 0..MaxOps
    BY <1>3, OnCounts DEF CreateFails, Suspend, IInv, TypeOK
  <2>2. TypeOK'
    BY <1>3, <2>1 DEF CreateFails, Suspend, hist, dbVars, IInv, TypeOK
  <2>. QED  BY <1>3, <2>2, AsideKeeps DEF CreateFails, Suspend, hist, IInv
<1>4. ASSUME NEW a \in Admins, NEW u \in Users, ShopSells(a, u)
      PROVE  IInv'
  <2> DEFINE x == User(NewId, a, TRUE)
  <2>1. x \in PanelUser /\ FreeId(x.id)
    BY <1>4, NewIdIsFree DEF ShopSells, User, PanelUser
  <2>2. ops' \in 0..MaxOps
    BY <1>4, OnCounts DEF ShopSells, IInv
  <2>3. order' \in [Users -> {None, "provisioning", "provisioned"}] /\ making \in [Admins -> Nat]
    BY <1>4 DEF ShopSells, IInv, TypeOK
  <2>4. PanelBecomes([panel EXCEPT ![u] = x])
    BY <1>4 DEF ShopSells
  <2> HIDE DEF x
  <2>. QED  BY <1>4, <2>1, <2>2, <2>3, <2>4, AUserChanges DEF ShopSells, dbVars
<1>5. ASSUME NEW u \in Users, ShopProvisioned(u)
      PROVE  IInv'
  <2>1. TypeOK'
    BY <1>5 DEF ShopProvisioned, hist, dbVars, IInv, TypeOK
  <2>. QED  BY <1>5, <2>1, AsideKeeps DEF ShopProvisioned, hist, IInv
<1>. QED  BY <1>1, <1>2, <1>3, <1>4, <1>5 DEF CreateNext

LEMMA RowNextKeeps ==
  ASSUME IInv, RowNext
  PROVE  IInv'
<1>1. CASE Fetch
  <2>1. TypeOK'
    BY <1>1 DEF Fetch, hist, shopVars, IInv, TypeOK
  <2>. QED  BY <1>1, <2>1, AsideKeeps DEF Fetch, hist, IInv
<1>2. CASE WriteSync
  <2>1. snap' \in [Users -> Row \cup {None}]
    <3>1. ASSUME NEW u \in Users
          PROVE  Synced(u) \in Row \cup {None}
      <4>1. fetched[u] \in PanelUser \cup {None} /\ snap[u] \in Row \cup {None}
        BY <1>2 DEF WriteSync, IInv, TypeOK
      <4>2. CASE fetched[u] # None
        BY <4>1, <4>2 DEF Synced, Row, PanelUser
      <4>3. CASE fetched[u] = None
        BY <4>1, <4>3 DEF Synced, Row
      <4>. QED  BY <4>2, <4>3
    <3>. QED  BY <1>2, <3>1 DEF WriteSync
  <2>2. TypeOK'
    BY <1>2, <2>1 DEF WriteSync, hist, shopVars, IInv, TypeOK
  <2>. QED  BY <1>2, <2>2, AsideKeeps DEF WriteSync, hist, IInv
<1>3. CASE Search \/ ListHighVolume
  <2>1. PICK S \in SUBSET Users : Shows(S)
    BY <1>3 DEF Search, ListHighVolume, HighVolume, Known
  <2>2. TypeOK'
    BY <2>1 DEF Shows, hist, shopVars, IInv, TypeOK
  <2>. QED  BY <2>1, <2>2, AsideKeeps DEF Shows, hist, IInv
<1>4. ASSUME NEW u \in Users, RemoveEndUser(u)
      PROVE  IInv'
  <2>1. TypeOK'
    BY <1>4 DEF RemoveEndUser, Purge, hist, shopVars, IInv, TypeOK
  <2>. QED  BY <1>4, <2>1, AsideKeeps DEF RemoveEndUser, hist, IInv
<1>5. ASSUME NEW u \in Users, Recover(u)
      PROVE  IInv'
  <2>1. ops' \in 0..MaxOps
    BY <1>5, OnCounts DEF Recover, IInv
  <2>2. recovery' \in [user : Users, owner : Admins, big : BOOLEAN, checked : BOOLEAN]
    BY <1>5 DEF Recover, Lost, Known, IInv, TypeOK, Row
  <2>3. TypeOK'
    BY <1>5, <2>1, <2>2 DEF Recover, hist, dbVars, shopVars, IInv, TypeOK
  <2>. QED  BY <1>5, <2>3, AsideKeeps DEF Recover, hist, IInv
<1>6. CASE RecoveryChecks \/ RecoveryStops
  <2>1. TypeOK'
    BY <1>6 DEF RecoveryChecks, RecoveryStops, hist, dbVars, shopVars, IInv, TypeOK
  <2>. QED  BY <1>6, <2>1, AsideKeeps DEF RecoveryChecks, RecoveryStops, hist, IInv
<1>7. CASE RecoveryCreates
  <2> DEFINE w == recovery.user
             x == User(NewId, recovery.owner, recovery.big)
  <2>1. w \in Users /\ x \in PanelUser /\ FreeId(x.id)
    BY <1>7, NewIdIsFree DEF RecoveryCreates, User, PanelUser, IInv, TypeOK
  <2>2. order \in [Users -> {None, "provisioning", "provisioned"}] /\ making \in [Admins -> Nat]
        /\ ops \in 0..MaxOps
    BY DEF IInv, TypeOK
  <2>3. PanelBecomes([panel EXCEPT ![w] = x])
    BY <1>7 DEF RecoveryCreates
  <2> HIDE DEF x, w
  <2>. QED  BY <1>7, <2>1, <2>2, <2>3, AUserChanges DEF RecoveryCreates, dbVars, shopVars
<1>. QED  BY <1>1, <1>2, <1>3, <1>4, <1>5, <1>6, <1>7 DEF RowNext

\* Only request r changes, and in it only the status of the users S.
Redecided(r, S, s) ==
    /\ req' \in [Requests -> Request \cup {None}]
    /\ \A q \in Requests : req'[q] # None => req[q] # None
    /\ \A q \in Requests, u \in Users : req[q] # None =>
         /\ req'[q].owner[u] = req[q].owner[u] /\ req'[q].id[u] = req[q].id[u]
         /\ req'[q].status[u] = IF q = r /\ u \in S THEN s ELSE req[q].status[u]

LEMMA BecomesRedecides ==
  ASSUME IInv, NEW r \in Requests, NEW S \in SUBSET Users, NEW s \in DeleteStatus,
         req[r] # None, Becomes(r, S, s)
  PROVE  Redecided(r, S, s)
<1>1. req \in [Requests -> Request \cup {None}] /\ req[r] \in Request
  BY DEF IInv, TypeOK
<1> DEFINE new == [req[r] EXCEPT !.status = [u \in Users |-> IF u \in S THEN s ELSE req[r].status[u]]]
<1>2. req' = [req EXCEPT ![r] = new]
  BY <1>1 DEF Becomes
<1>3. new \in Request /\ new.owner = req[r].owner /\ new.id = req[r].id
      /\ \A u \in Users : new.status[u] = IF u \in S THEN s ELSE req[r].status[u]
  BY <1>1 DEF Request
<1> HIDE DEF new
<1>4. req'[r] = new /\ \A q \in Requests \ {r} : req'[q] = req[q]
  BY <1>1, <1>2
<1>5. req' \in [Requests -> Request \cup {None}]
  BY <1>1, <1>2, <1>3
<1>. QED  BY <1>3, <1>4, <1>5 DEF Redecided

\* A verdict other than "deleted" and "already_absent" proves and permits nothing.
LEMMA VerdictKeeps ==
  ASSUME IInv, NEW r \in Requests, NEW S \in SUBSET Users, NEW s \in DeleteStatus,
         req[r] # None, Becomes(r, S, s),
         s \in Purgeable => \A u \in S : u \in gone[r],
         \A u \in S : req[r].status[u] # "unnamed",
         s = "unowned" => \A u \in S : req[r].status[u] = "pending",
         s \notin {"pending", "resolved"},
         Quiet
  PROVE  IInv'
<1>1. Redecided(r, S, s)
  BY BecomesRedecides
<1>2. TypeOK'
  BY <1>1 DEF Redecided, Quiet, hist, dbVars, shopVars, IInv, TypeOK
<1>3. Proven'
  BY <1>1 DEF Redecided, Quiet, hist, IInv, Proven
<1>4. Aimed'
  BY <1>1 DEF Redecided, Quiet, hist, IInv, Aimed
<1>5. Fixed'
  BY <1>1 DEF Redecided, Quiet, hist, IInv, Fixed
<1>6. Remembered'
  BY <1>1 DEF Redecided, Quiet, hist, IInv, Remembered, Named
<1>. QED  BY <1>2, <1>3, <1>4, <1>5, <1>6 DEF Quiet, IInv

LEMMA DeleteEndUsersKeeps ==
  ASSUME IInv, NEW r \in Requests, NEW named \in SUBSET tab, DeleteEndUsers(r, named)
  PROVE  IInv'
<1> DEFINE new == [owner |-> [u \in Users |-> IF u \in named \cap Known THEN snap[u].owner ELSE None],
                   id |-> [u \in Users |-> None],
                   status |-> [u \in Users |-> FirstStatus(u, named)]]
<1>1. req' = [req EXCEPT ![r] = new] /\ req[r] = None
  BY DEF DeleteEndUsers
<1>2. new \in Request
  <2>1. \A u \in Users : FirstStatus(u, named) \in DeleteStatus
    BY DEF FirstStatus, DeleteStatus
  <2>2. \A u \in Users : u \in Known => snap[u].owner \in Admins \cup {None}
    BY DEF Known, IInv, TypeOK, Row
  <2>. QED  BY <2>1, <2>2 DEF Request
<1>3. req'[r] = new /\ \A q \in Requests \ {r} : req'[q] = req[q]
  BY <1>1 DEF IInv, TypeOK
<1>4. \A u \in Users : new.status[u] \notin Purgeable \cup {"unowned", "resolved"}
  BY DEF FirstStatus, Purgeable
<1>5. \A u \in Users : new.status[u] = "pending" =>
        u \in allowed'[r] /\ new.owner[u] \in Admins
  <2> SUFFICES ASSUME NEW u \in Users, FirstStatus(u, named) = "pending"
               PROVE  u \in allowed'[r] /\ new.owner[u] \in Admins
    OBVIOUS
  <2>1. u \in named /\ snap[u] # None /\ snap[u].big /\ snap[u].owner # None /\ ~LiveOrder(u)
    BY DEF FirstStatus, BelowFloor
  <2>2. u \in Known /\ snap[u].owner \in Admins
    BY <2>1 DEF Known, IInv, TypeOK, Row
  <2>. QED  BY <2>1, <2>2 DEF DeleteEndUsers, IInv, TypeOK
<1>6. \A u \in Users : new.status[u] # "unnamed" /\ panel[u] = None => u \in gone'[r]
  <2>1. \A u \in Users : u \notin named => FirstStatus(u, named) = "unnamed"
    BY DEF FirstStatus
  <2>2. gone'[r] = {u \in named : panel[u] = None}
    BY DEF DeleteEndUsers, IInv, TypeOK
  <2>. QED  BY <2>1, <2>2
<1> HIDE DEF new
<1>7. /\ gone' \in [Requests -> SUBSET Users] /\ allowed' \in [Requests -> SUBSET Users]
      /\ \A q \in Requests \ {r} : gone'[q] = gone[q] /\ allowed'[q] = allowed[q]
      /\ panel' = panel /\ moved' = moved
  BY DEF DeleteEndUsers, IInv, TypeOK
<1>8. TypeOK'
  BY <1>1, <1>2, <1>7 DEF DeleteEndUsers, dbVars, shopVars, IInv, TypeOK
<1>9. Proven'
  BY <1>3, <1>4, <1>7 DEF IInv, Proven
<1>10. Aimed'
  BY <1>3, <1>4, <1>5, <1>7 DEF IInv, Aimed
<1>11. Fixed'
  BY <1>3, <1>4, <1>7 DEF IInv, Fixed
<1>12. Remembered'
  BY <1>3, <1>6, <1>7 DEF IInv, Remembered, Named
<1>. QED  BY <1>7, <1>8, <1>9, <1>10, <1>11, <1>12 DEF IInv

LEMMA LookUpKeeps ==
  ASSUME IInv, NEW r \in Requests, NEW u \in Users,
         Resolve(r, u) \/ ConfirmAbsent(r, u) \/ Verify(r, u) \/ CallFails(r, u)
  PROVE  IInv'
<1>1. CASE CallFails(r, u)
  BY <1>1, VerdictKeeps DEF CallFails, DeleteStatus, Purgeable
<1>2. CASE ConfirmAbsent(r, u)
  <2>1. Absence(u) = "already_absent" => u \in gone[r]
    BY <1>2 DEF ConfirmAbsent, Absence, IInv, Remembered, Named
  <2>2. Absence(u) \in {"already_absent", "owner_mismatch"}
    BY DEF Absence
  <2>. QED
    BY <1>2, <2>1, <2>2, VerdictKeeps DEF ConfirmAbsent, DeleteStatus, Purgeable
<1>3. CASE Verify(r, u)
  <2> DEFINE s == IF panel[u] = None THEN "deleted" ELSE "verify_failed"
  <2>1. s = "deleted" => u \in gone[r]
    BY <1>3 DEF Verify, IInv, Remembered, Named
  <2>2. s \in {"deleted", "verify_failed"}
    OBVIOUS
  <2>3. Becomes(r, {u}, s)
    BY <1>3 DEF Verify
  <2> HIDE DEF s
  <2>. QED
    BY <1>3, <2>1, <2>2, <2>3, VerdictKeeps DEF Verify, DeleteStatus, Purgeable
<1>4. CASE Resolve(r, u)
  <2>1. CASE ~Shown(u, req[r].owner[u])
    BY <1>4, <2>1, VerdictKeeps DEF Resolve, DeleteStatus, Purgeable
  <2>2. CASE Shown(u, req[r].owner[u])
    <3>1. req' = [req EXCEPT ![r].id[u] = panel[u].id, ![r].status[u] = "resolved"] /\ Quiet
      BY <1>4, <2>2 DEF Resolve
    <3>2. req[r] \in Request /\ panel[u].id \in Ids /\ panel[u] # None
      BY <1>4, <2>2 DEF Resolve, Shown, IInv, TypeOK, PanelUser
    <3> DEFINE new == [req[r] EXCEPT !.id[u] = panel[u].id, !.status[u] = "resolved"]
    <3>3. new \in Request /\ new.owner = req[r].owner /\ new.status[u] = "resolved"
          /\ new.id[u] = panel[u].id
          /\ \A v \in Users \ {u} : new.id[v] = req[r].id[v] /\ new.status[v] = req[r].status[v]
      BY <3>2 DEF Request, DeleteStatus
    <3>4. req'[r] = new /\ \A q \in Requests \ {r} : req'[q] = req[q]
      BY <3>1 DEF IInv, TypeOK
    <3>5. req' \in [Requests -> Request \cup {None}]
      BY <3>1, <3>3 DEF IInv, TypeOK
    <3> HIDE DEF new
    <3>6. req[r] # None /\ req[r].status[u] = "pending"
      BY <1>4 DEF Resolve
    <3>11. \A q \in Requests, v \in Users : req'[q] # None =>
             /\ req[q] # None /\ req'[q].owner = req[q].owner
             /\ \/ /\ req'[q].status[v] = req[q].status[v] /\ req'[q].id[v] = req[q].id[v]
                \/ /\ q = r /\ v = u /\ req'[q].status[v] = "resolved"
                   /\ req'[q].id[v] = panel[u].id
      BY <3>3, <3>4, <3>6
    <3>7. TypeOK'
      BY <3>1, <3>5 DEF Quiet, hist, dbVars, shopVars, IInv, TypeOK
    <3>8. Proven'
      BY <3>1, <3>11 DEF Quiet, hist, IInv, Proven, Purgeable
    <3>12. Aimed'
      <4>1. u \in allowed[r] /\ req[r].owner[u] \in Admins
        BY <3>6 DEF IInv, Aimed
      <4> SUFFICES ASSUME NEW q \in Requests, NEW v \in Users, req'[q] # None,
                          req'[q].status[v] \in {"pending", "unowned", "resolved"}
                   PROVE  v \in allowed'[q] /\ req'[q].owner[v] \in Admins
        BY DEF Aimed
      <4>2. allowed' = allowed /\ req[q] # None /\ req'[q].owner = req[q].owner
        BY <3>1, <3>11 DEF Quiet, hist
      <4>3. CASE q = r /\ v = u
        BY <4>1, <4>2, <4>3
      <4>4. CASE ~(q = r /\ v = u)
        BY <3>11, <4>2, <4>4 DEF IInv, Aimed
      <4>. QED  BY <4>3, <4>4
    <3>9. Fixed'
      <4>1. \A v \in Users : panel[v] # None /\ panel[v].id = panel[u].id => v = u
        BY <3>2 DEF IInv, Numbered
      <4>. QED  BY <3>1, <3>11, <4>1 DEF Quiet, hist, IInv, Fixed
    <3>10. Remembered'
      BY <3>1, <3>3, <3>4, <3>6 DEF Quiet, hist, IInv, Remembered, Named
    <3>. QED  BY <3>1, <3>7, <3>8, <3>9, <3>10, <3>12 DEF Quiet, IInv
  <2>. QED  BY <2>1, <2>2
<1>. QED  BY <1>1, <1>2, <1>3, <1>4

LEMMA BulkDeleteKeeps ==
  ASSUME IInv, NEW r \in Requests, NEW a \in Admins, BulkDelete(r, a)
  PROVE  IInv'
<1> DEFINE S == Batch(r, a)
           out == Removed({req[r].id[u] : u \in S}, a)
           p == [u \in Users |-> IF u \in out THEN None ELSE panel[u]]
<1>1. PICK answered \in BOOLEAN, done \in BOOLEAN :
        /\ Becomes(r, S, IF answered THEN "sent" ELSE "delete_failed")
        /\ IF done THEN PanelBecomes(p) ELSE UNCHANGED <<panel, gone>>
  BY DEF BulkDelete
<1> DEFINE s == IF answered THEN "sent" ELSE "delete_failed"
<1>2. s \in DeleteStatus /\ s \notin Purgeable \cup {"pending", "unowned", "resolved"}
  BY DEF DeleteStatus, Purgeable
<1>3. S \in SUBSET Users /\ req[r] # None /\ \A u \in S : req[r].status[u] = "resolved"
  BY DEF BulkDelete, Batch, With
<1>4. Becomes(r, S, s)
  BY <1>1
<1> HIDE DEF s, S
<1>5. Redecided(r, S, s)
  BY <1>2, <1>3, <1>4, BecomesRedecides
<1>6. p \in [Users -> PanelUser \cup {None}] /\ \A u \in Users : p[u] = panel[u] \/ p[u] = None
  BY DEF IInv, TypeOK
<1>7. Numbered(p)
  BY <1>6 DEF IInv, Numbered
<1>8. \A q \in Requests : Named(q)' \subseteq Named(q)
  BY <1>3, <1>5 DEF Redecided, Named
<1> HIDE DEF p
<1>9. /\ panel' \in [Users -> PanelUser \cup {None}] /\ Numbered(panel')
      /\ \A u \in Users : panel'[u] = panel[u] \/ panel'[u] = None
      /\ gone' \in [Requests -> SUBSET Users] /\ \A q \in Requests : gone[q] \subseteq gone'[q]
      /\ \A q \in Requests : \A u \in Named(q) : panel'[u] = None => u \in gone'[q]
  <2>1. CASE done
    <3>1. PanelBecomes(p)
      BY <1>1, <2>1
    <3>2. gone' \in [Requests -> SUBSET Users] /\ panel' = p
          /\ \A q \in Requests : gone[q] \subseteq gone'[q]
      BY <1>6, <3>1, BecomesTyped DEF IInv
    <3>3. \A q \in Requests : \A u \in Named(q) : panel'[u] = None => u \in gone'[q]
      BY <3>1 DEF PanelBecomes, Named
    <3>. QED  BY <1>6, <1>7, <3>2, <3>3
  <2>2. CASE ~done
    BY <1>1, <2>2 DEF IInv, TypeOK, Remembered
  <2>. QED  BY <2>1, <2>2
<1>10. allowed' = allowed /\ moved' = moved
  BY DEF BulkDelete
<1>11. TypeOK'
  BY <1>5, <1>9 DEF Redecided, BulkDelete, dbVars, shopVars, IInv, TypeOK
<1>12. Proven'
  BY <1>2, <1>5, <1>9 DEF Redecided, IInv, Proven
<1>13. Aimed'
  BY <1>2, <1>5, <1>10 DEF Redecided, IInv, Aimed
<1>14. Fixed'
  BY <1>2, <1>5, <1>9, <1>10 DEF Redecided, IInv, Fixed
<1>15. Remembered'
  BY <1>8, <1>9 DEF Remembered
<1>. QED  BY <1>9, <1>11, <1>12, <1>13, <1>14, <1>15 DEF IInv

LEMMA RequestsEndKeep ==
  ASSUME IInv, (\E r \in Requests : PurgeProven(r)) \/ Crash
  PROVE  IInv'
<1>1. ASSUME NEW r \in Requests, PurgeProven(r)
      PROVE  IInv'
  <2>1. req'[r] = None /\ \A q \in Requests \ {r} : req'[q] = req[q]
        /\ gone'[q] = gone[q] /\ allowed'[q] = allowed[q] /\ (q \in moved' <=> q \in moved)
    BY <1>1 DEF PurgeProven, IInv, TypeOK
  <2>2. TypeOK'
    BY <1>1 DEF PurgeProven, Purge, shopVars, IInv, TypeOK
  <2>3. panel' = panel
    BY <1>1 DEF PurgeProven
  <2>. QED  BY <2>1, <2>2, <2>3 DEF IInv, Proven, Aimed, Fixed, Remembered, Named
<1>2. CASE Crash
  <2>1. TypeOK'
    BY <1>2 DEF Crash, IInv, TypeOK
  <2>2. panel' = panel /\ \A q \in Requests : req'[q] = None
    BY <1>2 DEF Crash
  <2>. QED  BY <2>1, <2>2 DEF IInv, Proven, Aimed, Fixed, Remembered, Named
<1>. QED  BY <1>1, <1>2

LEMMA DeleteNextKeeps ==
  ASSUME IInv, DeleteNext
  PROVE  IInv'
<1>1. ASSUME NEW r \in Requests, NEW named \in SUBSET tab, DeleteEndUsers(r, named)
      PROVE  IInv'
  BY <1>1, DeleteEndUsersKeeps
<1>2. ASSUME NEW r \in Requests, NEW u \in Users,
             Resolve(r, u) \/ ConfirmAbsent(r, u) \/ Verify(r, u) \/ CallFails(r, u)
      PROVE  IInv'
  BY <1>2, LookUpKeeps
<1>3. ASSUME NEW r \in Requests, NEW a \in Admins, BulkDelete(r, a)
      PROVE  IInv'
  BY <1>3, BulkDeleteKeeps
<1>4. ASSUME NEW r \in Requests, PurgeProven(r)
      PROVE  IInv'
  BY <1>4, RequestsEndKeep
<1>. QED  BY <1>1, <1>2, <1>3, <1>4 DEF DeleteNext, HighVolumeDelete

LEMMA PanelUsersInvariant == Spec => []IInv
<1>1. ASSUME IInv, UNCHANGED vars
      PROVE  IInv'
  <2>1. TypeOK'
    BY <1>1 DEF vars, dbVars, shopVars, hist, IInv, TypeOK
  <2>. QED
    BY <1>1, <2>1 DEF vars, hist, IInv, Proven, Aimed, Fixed, Remembered, Named
<1>2. ASSUME IInv, Next
      PROVE  IInv'
  BY <1>2, PanelNextKeeps, CreateNextKeeps, RowNextKeeps, DeleteNextKeeps, RequestsEndKeep DEF Next
<1>. QED  BY <1>1, <1>2, PanelInit, PTL DEF Spec

-----------------------------------------------------------------------------
(* The theorems.                                                           *)

\* Every variable keeps to its set.
THEOREM PanelUsersTypeCorrect == Spec => []TypeOK
<1>1. IInv => TypeOK
  BY DEF IInv
<1>. QED  BY <1>1, PanelUsersInvariant, PTL

\* A request purges only what was gone, and so reads no panel wrong.
THEOREM PurgesOnlyTheGone == Spec => PurgedWasGone
<1> DEFINE A == \A r \in Requests, u \in Users :
                  Acts(r) /\ snap[u] # None /\ snap'[u] = None => u \in gone[r]
<1>1. ASSUME IInv, Next, NEW r \in Requests, NEW u \in Users,
             Acts(r), snap[u] # None, snap'[u] = None
      PROVE  u \in gone[r]
  <2>1. \E q \in Requests : PurgeProven(q)
    <3>1. snap' # snap
      BY <1>1
    <3>2. ASSUME NEW w \in Users, RemoveEndUser(w)
          PROVE  FALSE
      BY <1>1, <3>2 DEF RemoveEndUser, Acts
    <3>3. CASE WriteSync
      BY <1>1, <3>3 DEF WriteSync, Acts
    <3>. QED
      BY <1>1, <3>1, <3>2, <3>3 DEF Next, PanelNext, CreateNext, RowNext, DeleteNext,
           DeletedOnPanel, Reparent, RestorePanel, BackUp, CreateForReseller, CreateUser,
           CreateFails, Suspend, ShopSells, ShopProvisioned, Fetch, Search, ListHighVolume, Shows, Recover,
           RecoveryChecks, RecoveryStops, RecoveryCreates, DeleteEndUsers, Resolve,
           ConfirmAbsent, Verify, CallFails, BulkDelete, Crash, Quiet, HighVolumeDelete, dbVars
  <2>2. PICK q \in Requests : PurgeProven(q)
    BY <2>1
  <2>3. q = r
    BY <1>1, <2>2 DEF PurgeProven, Acts, IInv, TypeOK
  <2>4. req[r].status[u] \in Purgeable
    BY <1>1, <2>2, <2>3 DEF PurgeProven, Purge
  <2>. QED  BY <1>1, <2>4 DEF Acts, IInv, Proven
<1>2. IInv /\ Next => A
  BY <1>1
<1>. QED  BY <1>2, PanelUsersInvariant, PTL DEF Spec, PurgedWasGone

\* A request removes only users it named, passed by every guard, of the admin whose
\* key it used; renumbering in between can only mislead it among that admin's users.
THEOREM DeletesOnlyWhatItNamed == Spec => DeletesOnlyNamed
<1> DEFINE A == \A r \in Requests, u \in Users :
                  Acts(r) /\ panel[u] # None /\ panel'[u] = None =>
                    \E v \in allowed[r] :
                      panel[u].owner = req[r].owner[v] /\ (u = v \/ r \in moved)
<1>1. ASSUME IInv, Next, NEW r \in Requests, NEW u \in Users,
             Acts(r), panel[u] # None, panel'[u] = None
      PROVE  \E v \in allowed[r] :
               panel[u].owner = req[r].owner[v] /\ (u = v \/ r \in moved)
  <2>1. panel' # panel /\ req' # req
    BY <1>1 DEF Acts
  <2>2. \E q \in Requests, a \in Admins : BulkDelete(q, a)
    BY <1>1, <2>1 DEF Next, PanelNext, CreateNext, RowNext, DeleteNext,
         DeletedOnPanel, Reparent, RestorePanel, BackUp, CreateForReseller, CreateUser,
         CreateFails, Suspend, ShopSells, ShopProvisioned, Fetch, WriteSync, Search, ListHighVolume, Shows,
         RemoveEndUser, Recover, RecoveryChecks, RecoveryStops, RecoveryCreates,
         DeleteEndUsers, Resolve, ConfirmAbsent, Verify, CallFails, PurgeProven, Crash, Quiet, HighVolumeDelete
  <2>3. PICK q \in Requests, a \in Admins : BulkDelete(q, a)
    BY <2>2
  <2>4. q = r
    BY <1>1, <2>3 DEF BulkDelete, Becomes, Acts, IInv, TypeOK
  <2>5. u \in Removed({req[r].id[v] : v \in Batch(r, a)}, a)
    BY <1>1, <2>1, <2>3, <2>4 DEF BulkDelete, PanelBecomes
  <2>6. PICK v \in Batch(r, a) : panel[u].id = req[r].id[v] /\ panel[u].owner = a
    BY <2>5 DEF Removed
  <2>7. v \in Users /\ req[r].status[v] = "resolved" /\ req[r].owner[v] = a /\ req[r] # None
    BY <1>1, <2>6 DEF Batch, With, Acts
  <2>8. v \in allowed[r]
    BY <1>1, <2>7 DEF IInv, Aimed
  <2>9. r \notin moved => u = v
    BY <1>1, <2>6, <2>7 DEF IInv, Fixed
  <2>. QED  BY <2>6, <2>7, <2>8, <2>9
<1>2. IInv /\ Next => A
  BY <1>1
<1>. QED  BY <1>2, PanelUsersInvariant, PTL DEF Spec, DeletesOnlyNamed

=============================================================================
