------------------------- MODULE ShopNoticesProofs -------------------------
(***************************************************************************)
(* What backups, restores and the daily notices promise, for any orders,   *)
(* secrets, batch size and number of backups, restores and crashes: the    *)
(* secrets stay readable, the last backup is held, and an order that       *)
(* counts as notified is one whose customer was told.                      *)
(***************************************************************************)
EXTENDS ShopNotices, FiniteSetTheorems, TLAPS

-----------------------------------------------------------------------------
(* Types.  An archive is whole from the dump on, and as long as a restore   *)
(* holds it.                                                                *)

Keys == {Here, There}
Periods == 0..MaxRenewals
Database == [rows : [Orders -> Order], secrets : [Secrets -> Keys], stamp : Nat]
BackupArchive == [id : Nat, rows : [Orders -> Order], secrets : [Secrets -> Keys], stamp : Nat, key : Keys]
Making == [at : {"idle", "dumping", "built", "stamp", "stream"}, archive : BackupArchive \cup [id : Nat],
           download : BOOLEAN]
Restoring == [at : {"idle", "opening", "dumped", "imported", "cut", "keyed"},
              archive : BackupArchive \cup [id : Nat]]
Sweep == [at : {"off", "scan", "due", "send"}, n : 0..4, due : SUBSET (Orders \X Periods), now : Periods,
          stamped : SUBSET Orders]

LanesTyped ==
    /\ \A p \in Procs : making[p].at \in {"built", "stamp", "stream"} => making[p].archive \in BackupArchive
    /\ \A p \in Restorers : IF restoring[p].at = "idle" THEN restoring[p] = NoRestore
                            ELSE restoring[p].archive \in BackupArchive

BackupTypes ==
    /\ world \in World /\ db \in Database
    /\ env \in Keys /\ key \in [Procs -> Keys]
    /\ owner \subseteq BackupArchive /\ disk \subseteq BackupArchive
    /\ making \in [Procs -> Making] /\ restoring \in [Restorers -> Restoring]
    /\ made \in Nat /\ begun \in Nat
    /\ LanesTyped

NoticeTypes ==
    /\ clock \in Periods /\ sweep \in Sweep
    /\ sweep.at # "off" => sweep.n \in 1..4

Types == BackupTypes /\ NoticeTypes

-----------------------------------------------------------------------------
(* Who holds which archive.                                                *)

Delivered == owner \cup disk
InMaking == {making[p].archive : p \in {q \in Procs : making[q].at \in {"built", "stamp", "stream"}}}
InRestore == {restoring[p].archive : p \in {q \in Restorers : restoring[q].at # "idle"}}
AllArchives == Delivered \cup InMaking \cup InRestore

-----------------------------------------------------------------------------
(* The keys.  Where every archive is this server's own, there is one key.   *)
(* Otherwise restores go one at a time, and nobody makes a backup in the    *)
(* middle of one; where a re-encryption can fail, the containers are made   *)
(* anew before the next restore, and secrets and backups wait for that.     *)

OwnArchives(w) == w.archives \subseteq {Here}
KeyStays(w) == w.unkeyed = {} /\ "apart" \in w.ops
KeyMoves(w) == w.unkeyed \subseteq {"api"} /\ "recreated" \in w.ops /\ w.ops \cap {"backup", "secret"} = {}
OneAtATime(w) == "together" \notin w.ops /\ (KeyStays(w) \/ KeyMoves(w))

SelfKeyed == \A a \in AllArchives : \A s \in Secrets : a.secrets[s] = a.key

OneKey ==
    /\ env = Here /\ \A p \in Procs : key[p] = Here
    /\ \A s \in Secrets : db.secrets[s] = Here
    /\ \A a \in AllArchives : a.key = Here

AtMostOne ==
    /\ \A p, q \in Restorers : restoring[p].at # "idle" /\ restoring[q].at # "idle" => p = q
    /\ \A p \in Restorers : restoring[p].at # "cut"

KeysAgree ==
    /\ KeyStays(world) => \A q \in Procs : key[q] = env
    /\ ~KeyStays(world) => \A q \in Procs : making[q] = Idle
    /\ \A p \in Restorers : restoring[p].at \in {"opening", "dumped", "imported"} => \A q \in Procs : key[q] = env

Underway ==
    /\ MidRestore = {} => \A s \in Secrets : db.secrets[s] = env
    /\ \A p \in Restorers : restoring[p].at = "imported" =>
          \A s \in Secrets : \/ db.secrets[s] = restoring[p].archive.key
                             \/ KeyStays(world) /\ db.secrets[s] = env

SecretsInv ==
    /\ OwnArchives(world) \/ OneAtATime(world)
    /\ SelfKeyed
    /\ OwnArchives(world) => OneKey
    /\ ~OwnArchives(world) => AtMostOne /\ KeysAgree /\ Underway

-----------------------------------------------------------------------------
(* The stamps of backups: every stamp, in the database or in an archive, is  *)
(* that of a download on its way or given up, or no later than the newest    *)
(* backup somebody holds.                                                   *)

Held(n) ==
    \/ n \in {0} \cup abandoned \cup Streamed(Procs)
    \/ \E a \in Delivered : a.id >= n

Newest(archives) == archives = {} \/ \E a \in archives : \A b \in archives : b.id <= a.id

\* The backup a process is making.
MakingOne(p) == making[p].at = "stamp" /\ ~making[p].download => Held(making[p].archive.id)

StampInv ==
    /\ Newest(disk)
    /\ Held(db.stamp) /\ \A a \in AllArchives : Held(a.stamp)
    /\ \A p \in Procs : MakingOne(p)

-----------------------------------------------------------------------------
(* The notices.  A sweep takes its time after the scan, so that a renewal    *)
(* is in the scan or later than the time, and a restore brings back no      *)
(* earlier period.                                                          *)

NoticesCareful(w) == "gap" \notin w.ops /\ ("restore" \in w.ops => "renew" \notin w.ops)

ToldIn(row, o) ==
    /\ row.renewed <= clock /\ \A k \in Kinds : row.stamp[k] <= clock
    /\ \A k \in Kinds : row.stamp[k] # Never /\ row.renewed <= row.stamp[k] => <<o, k, row.renewed>> \in told
RowsTold(rows) == \A o \in Orders : ToldIn(rows[o], o)

SweepTold ==
    /\ sweep.now <= clock /\ (sweep.at # "send" => sweep.stamped = {})
    /\ sweep.at = "due" => \A x \in sweep.due : Row(x[1]).renewed = x[2]
    /\ sweep.at = "send" =>
          /\ \A x \in sweep.due : Row(x[1]).renewed = x[2] \/ Row(x[1]).renewed > sweep.now
          /\ \A o \in sweep.stamped : Row(o).renewed > sweep.now \/ <<o, Kind, Row(o).renewed>> \in told

ToldInv ==
    /\ NoticesCareful(world)
    /\ "renew" \notin world.ops => clock = 0
    /\ "restore" \notin world.ops => \A p \in Restorers : restoring[p] = NoRestore
    /\ RowsTold(db.rows) /\ \A a \in AllArchives : RowsTold(a.rows)
    /\ SweepTold

-----------------------------------------------------------------------------
(* How often a message can come again.  A notice can be repeated while the   *)
(* customer was told and neither the order's stamp nor the batch in hand     *)
(* says so, or while it is due in the sweep that goes on.  A stop of the     *)
(* scheduler makes a batch repeatable, an import the orders it rewinds.      *)

Open(n) ==
    /\ n[3] = Row(n[1]).renewed /\ NeedsAlert(Row(n[1]), n[2])
    /\ ~(sweep.at = "send" /\ n[2] = Kind /\ n[1] \in sweep.stamped)
Awaits(n) == sweep.at \in {"due", "send"} /\ n[2] = Kind /\ <<n[1], n[3]>> \in sweep.due
Repeatable == {n \in told : Open(n) \/ Awaits(n)}

Waits(p) == IF restoring[p].at \in {"opening", "dumped"} THEN 1 ELSE 0
Imports == begun - Waits("api") - Waits("bot")
Rewinds == Cardinality(Orders) * Cardinality(Kinds)

ToldTyped ==
    /\ IsFiniteSet(told) /\ told \subseteq Orders \X Kinds \X Periods
    /\ again \in Nat /\ unsure \in Nat /\ stops \in Nat /\ Imports \in Nat
    /\ \A n \in told : n[3] <= clock /\ (sweep.at = "send" => n[3] <= sweep.now)
    /\ \A x \in sweep.due : x[2] <= clock /\ (sweep.at = "send" => x[2] <= sweep.now)

OnceInv ==
    /\ ToldTyped
    /\ Cardinality(sweep.stamped) <= Batch
    /\ again + Cardinality(Repeatable) <= unsure + Batch * stops + Rewinds * Imports

-----------------------------------------------------------------------------
(* Type correctness.                                                       *)

LEMMA IdleTypes == Idle \in Making /\ NoRestore \in Restoring
  BY DEF Idle, NoRestore, Nothing, Making, Restoring

LEMMA DatabaseFields ==
    ASSUME NEW d \in Database
    PROVE  d.rows \in [Orders -> Order] /\ d.secrets \in [Secrets -> Keys] /\ d.stamp \in Nat
  BY DEF Database

LEMMA ArchiveFields ==
    ASSUME NEW a \in BackupArchive
    PROVE  /\ a.id \in Nat /\ a.rows \in [Orders -> Order] /\ a.secrets \in [Secrets -> Keys]
           /\ a.stamp \in Nat /\ a.key \in Keys
  BY DEF BackupArchive

\* The database an import leaves is the archive's.
LEMMA ImportedDatabase ==
    ASSUME NEW d \in Database, NEW a \in BackupArchive, NEW i, i = [f \in DOMAIN d |-> a[f]]
    PROVE  i \in Database /\ i.rows = a.rows /\ i.secrets = a.secrets /\ i.stamp = a.stamp
<1>1. DOMAIN d = {"rows", "secrets", "stamp"}
  BY DEF Database
<1>2. i = [rows |-> a.rows, secrets |-> a.secrets, stamp |-> a.stamp]
  BY <1>1
<1> QED
  BY <1>2, ArchiveFields DEF Database

LEMMA DumpedArchive ==
    ASSUME BackupTypes, NEW p \in Procs
    PROVE  /\ making[p].at = "dumping" => making[p].archive.id \in Nat
           /\ making[p].archive.id \in Nat => Archive(p) \in BackupArchive
  BY DatabaseFields, ArchiveFields DEF BackupTypes, Archive, BackupArchive, Making

LEMMA KeptInside ==
    ASSUME NEW archives
    PROVE  Kept(archives) \subseteq archives
  BY DEF Kept

\* What a step of the processes does with the lanes, the keys and the archives.
LEMMA BackupStepTypes ==
    ASSUME BackupConstants, BackupTypes, BackupStep
    PROVE  BackupTypes'
<1> USE DEF BackupTypes, LanesTyped
<1>1. ASSUME NEW s \in Secrets, WriteSecret(s) PROVE BackupTypes'
  BY <1>1 DEF WriteSecret, Database, Procs, serverVars, filesVars, lanesVars
<1>2. ASSUME NEW p \in Procs, NEW download \in BOOLEAN, CreateBackup(p, download) PROVE BackupTypes'
  BY <1>2 DEF CreateBackup, Making, serverVars, filesVars
<1>3. ASSUME NEW p \in Procs, Dump(p) PROVE BackupTypes'
  BY <1>3, DumpedArchive DEF Dump, Making, serverVars, filesVars
<1>4. ASSUME NEW p \in Procs, DumpFails(p) \/ SendFails(p) \/ StreamFails(p) PROVE BackupTypes'
  <2>1. making' = Done(p) /\ UNCHANGED <<db, serverVars, disk, restoring, made, begun, world>>
    BY <1>4 DEF DumpFails, SendFails, StreamFails, Done, filesVars
  <2>2. making' \in [Procs -> Making]
    BY <2>1, IdleTypes DEF Done
  <2>3. owner' \subseteq BackupArchive
    BY <1>4 DEF DumpFails, SendFails, StreamFails, Built, filesVars
  <2> QED
    BY <2>1, <2>2, <2>3 DEF Done, Idle, serverVars
<1>5. ASSUME NEW p \in Procs, KeepOnDisk(p) \/ TooLarge(p) \/ SendBackup(p) \/ Stream(p) PROVE BackupTypes'
  <2>1. making[p].archive \in BackupArchive
    BY <1>5 DEF KeepOnDisk, TooLarge, SendBackup, Stream, Built, Streaming
  <2>2. Kept(disk \cup {making[p].archive}) \subseteq BackupArchive
    BY <2>1, KeptInside
  <2>3. /\ owner' \subseteq BackupArchive /\ disk' \subseteq BackupArchive
        /\ UNCHANGED <<db, serverVars, restoring, made, begun, world>>
        /\ making' = Done(p) \/ making' = Step(p, "stamp")
    BY <1>5, <2>1, <2>2 DEF KeepOnDisk, TooLarge, SendBackup, Stream
  <2>4. making' \in [Procs -> Making]
    BY <2>3, IdleTypes DEF Done, Step, Making
  <2>5. LanesTyped'
    BY <2>1, <2>3 DEF Done, Step, Idle, Making
  <2> QED
    BY <2>3, <2>4, <2>5 DEF serverVars
<1>6. ASSUME NEW p \in Procs, MarkBackupDone(p) PROVE BackupTypes'
  <2>1. making[p].archive \in BackupArchive
    BY <1>6 DEF MarkBackupDone
  <2>2. db' \in Database
    BY <1>6, <2>1, ArchiveFields DEF MarkBackupDone, Database
  <2>3. making' = Done(p) \/ making' = Step(p, "stream")
    BY <1>6 DEF MarkBackupDone
  <2>4. making' \in [Procs -> Making]
    BY <2>3, IdleTypes DEF Done, Step, Making
  <2>5. LanesTyped'
    BY <1>6, <2>1, <2>3 DEF MarkBackupDone, Done, Step, Idle, Making
  <2> QED
    BY <1>6, <2>2, <2>4, <2>5 DEF MarkBackupDone, serverVars, filesVars
<1>7. ASSUME NEW p \in Restorers, NEW a \in owner \cup disk, BeginRestore(p, a) PROVE BackupTypes'
  BY <1>7 DEF BeginRestore, Restoring, serverVars, filesVars
<1>8. ASSUME NEW p \in Restorers, Refuse(p) \/ ImportFails(p) \/ RequestRestart(p) PROVE BackupTypes'
  BY <1>8, IdleTypes DEF Refuse, ImportFails, RequestRestart, NoRestore, serverVars, filesVars
<1>9. ASSUME NEW p \in Restorers, SafetyDump(p) PROVE BackupTypes'
  BY <1>9 DEF SafetyDump, At, Restoring, serverVars
<1>10. ASSUME NEW p \in Restorers, Import(p) PROVE BackupTypes'
  <2>1. restoring[p].archive \in BackupArchive
    BY <1>10 DEF Import
  <2>2. db' \in Database
    <3>1. db' = [f \in DOMAIN db |-> restoring[p].archive[f]]
      BY <1>10 DEF Import
    <3> QED
      BY <2>1, <3>1, ImportedDatabase
  <2>3. PICK hit \in SUBSET (MidRestore \ {p}) :
          restoring' = [q \in Restorers |-> IF q = p THEN [restoring[p] EXCEPT !.at = "imported"]
                                            ELSE IF q \in hit THEN [restoring[q] EXCEPT !.at = "cut"]
                                            ELSE restoring[q]]
    BY <1>10 DEF Import
  <2>4. PICK lost \in SUBSET {q \in Procs : making[q].at = "dumping"} :
          making' = [q \in Procs |-> IF q \in lost THEN Idle ELSE making[q]]
    BY <1>10 DEF Import
  <2>5. restoring' \in [Restorers -> Restoring]
    BY <2>3 DEF Restoring
  <2>6. making' \in [Procs -> Making]
    BY <2>4, IdleTypes
  <2>7. LanesTyped'
    BY <1>10, <2>3, <2>4 DEF Import, Idle, Restoring, MidRestore
  <2> QED
    BY <1>10, <2>2, <2>5, <2>6, <2>7 DEF Import, serverVars, filesVars
<1>11. ASSUME NEW p \in Restorers, Recrypt(p) PROVE BackupTypes'
  <2>1. restoring[p].archive \in BackupArchive
    BY <1>11 DEF Recrypt
  <2>2. Recrypted(db.secrets, restoring[p].archive.key, key[p]) \in [Secrets -> Keys]
    BY DatabaseFields DEF Recrypted, Restorers, Procs
  <2>3. db' \in Database
    BY <1>11, <2>2 DEF Recrypt, Database
  <2> QED
    BY <1>11, <2>3 DEF Recrypt, At, Restoring, serverVars, filesVars
<1>12. ASSUME NEW p \in Restorers, RecryptFails(p) \/ SameKey(p) PROVE BackupTypes'
  BY <1>12, ArchiveFields DEF RecryptFails, SameKey, At, Restoring, serverVars, filesVars
<1> QED
  BY <1>1, <1>2, <1>3, <1>4, <1>5, <1>6, <1>7, <1>8, <1>9, <1>10, <1>11, <1>12 DEF BackupStep

\* A process that starts holds nothing.
LEMMA StartTypes ==
    ASSUME BackupTypes, NEW p \in Procs, Starts(p), key' = key, world' \in World
    PROVE  BackupTypes'
<1>1. making' \in [Procs -> Making] /\ restoring' \in [Restorers -> Restoring]
  BY IdleTypes DEF BackupTypes, Starts, Done
<1>2. LanesTyped'
  BY DEF BackupTypes, LanesTyped, Starts, Done, Idle, NoRestore
<1> QED
  BY <1>1, <1>2 DEF BackupTypes, Starts, filesVars

LEMMA CrashWorld ==
    ASSUME BackupTypes, NEW p \in Procs, Crash(p)
    PROVE  /\ world' \in World
           /\ world'.ops = world.ops /\ world'.archives = world.archives /\ world'.unkeyed = world.unkeyed
  BY DEF BackupTypes, Crash, World

LEMMA StopTypes ==
    ASSUME BackupConstants, NoticeConstants, Types, Stop
    PROVE  Types'
<1> USE DEF Types, NoticeTypes
<1>1. Off \in Sweep
  BY NoticeConstants DEF Off, Sweep, Periods
<1>2. ASSUME NEW p \in Procs, WatchLoop(p) \/ Crash(p),
             IF p = "scheduler" THEN SweepStops ELSE UNCHANGED noticeVars
      PROVE  Types'
  <2>1. Starts(p) /\ key' = key /\ world' \in World
    BY <1>2, CrashWorld DEF WatchLoop, Crash, BackupTypes
  <2>2. BackupTypes'
    BY <2>1, StartTypes
  <2>3. NoticeTypes'
    BY <1>1, <1>2 DEF SweepStops, noticeVars, Off
  <2> QED
    BY <2>2, <2>3
<1>3. ASSUME Update, SweepStops PROVE Types'
  <2>1. making' \in [Procs -> Making] /\ restoring' \in [Restorers -> Restoring] /\ key' \in [Procs -> Keys]
    BY <1>3, IdleTypes DEF Update, BackupTypes
  <2>2. LanesTyped'
    BY <1>3 DEF Update, LanesTyped, Idle, NoRestore
  <2>3. BackupTypes'
    BY <1>3, <2>1, <2>2 DEF Update, BackupTypes, filesVars
  <2>4. NoticeTypes'
    BY <1>1, <1>3 DEF SweepStops, Off
  <2> QED
    BY <2>3, <2>4
<1> QED
  BY <1>2, <1>3 DEF Stop

-----------------------------------------------------------------------------
(* What the shop and the job do with the orders.                           *)

LEMMA RowIsOrder ==
    ASSUME BackupTypes, NEW o \in Orders
    PROVE  Row(o) \in Order
  BY DatabaseFields DEF BackupTypes, Row

\* Only a renewal changes the period of an order, and nothing here its stamps.
RowStep(o, row) ==
    /\ row \in Order /\ row.stamp = Row(o).stamp
    /\ \/ row.renewed = Row(o).renewed /\ clock' = clock
       \/ /\ row.renewed = clock + 1 /\ clock' = clock + 1 /\ clock < MaxRenewals
          /\ "renew" \in Ops /\ ("gap" \in Ops \/ sweep.at # "due")

LEMMA AnewOrder ==
    ASSUME NoticeConstants, NEW row \in Order
    PROVE  Anew(row) \in Order /\ Anew(row).stamp = row.stamp /\ Anew(row).renewed = row.renewed
  BY DEF Anew, Order, Lives

LEMMA ShopSteps ==
    ASSUME NoticeConstants, Types, Shop
    PROVE  \E o \in Orders, row \in Order : RowStep(o, row) /\ SetRow(o, row) /\ OrdersOnly
<1> USE DEF RowStep
<1>1. PICK o \in Orders : Age(o) \/ UseUp(o) \/ Renew(o) \/ Sync(o) \/ Arm(o) \/ Hide(o)
  BY DEF Shop
<1>2. Row(o) \in Order
  BY RowIsOrder DEF Types
<1>3. OrdersOnly
  BY <1>1 DEF Age, UseUp, Renew, Sync, Arm, Hide
<1>4. CASE Age(o)
  <2>1. PICK step \in {<<"far", "near">>, <<"near", "lapsed">>, <<"lapsed", "old">>} :
           SetRow(o, [Row(o) EXCEPT !.life = step[2]])
    BY <1>4 DEF Age
  <2>2. step[2] \in Lives
    BY DEF Lives
  <2>3. RowStep(o, [Row(o) EXCEPT !.life = step[2]])
    BY <1>2, <1>4, <2>2 DEF Age, Order
  <2> QED
    BY <1>3, <2>1, <2>3
<1>5. CASE UseUp(o)
  <2>1. RowStep(o, [Row(o) EXCEPT !.high = TRUE])
    BY <1>2, <1>5 DEF UseUp, Order
  <2> QED
    BY <1>3, <1>5, <2>1 DEF UseUp
<1>6. CASE Renew(o)
  <2> DEFINE row == [Row(o) EXCEPT !.renewed = clock + 1, !.armed = FALSE]
             mid == [Row(o) EXCEPT !.renewed = clock + 1]
  <2>a. clock + 1 \in 0..MaxRenewals
    BY <1>6, NoticeConstants DEF Renew, Types, NoticeTypes, Periods
  <2>b. mid \in Order /\ mid.stamp = Row(o).stamp /\ mid.renewed = clock + 1
    BY <1>2, <2>a DEF Order
  <2>c. row = [mid EXCEPT !.armed = FALSE]
    BY <1>2 DEF Order
  <2> HIDE DEF mid
  <2>1. row \in Order /\ row.stamp = Row(o).stamp /\ row.renewed = clock + 1
    BY <2>b, <2>c DEF Order
  <2>2. [row EXCEPT !.behind = TRUE] \in Order /\ [row EXCEPT !.behind = TRUE].stamp = row.stamp
        /\ [row EXCEPT !.behind = TRUE].renewed = row.renewed
    BY <2>1 DEF Order
  <2>3. Anew(row) \in Order /\ Anew(row).stamp = row.stamp /\ Anew(row).renewed = row.renewed
    BY <2>1, AnewOrder
  <2>4. SetRow(o, [row EXCEPT !.behind = TRUE]) \/ SetRow(o, Anew(row))
    BY <1>6 DEF Renew
  <2>5. /\ clock' = clock + 1 /\ clock < MaxRenewals
        /\ "renew" \in Ops /\ ("gap" \in Ops \/ sweep.at # "due")
    BY <1>6 DEF Renew
  <2> HIDE DEF row
  <2> QED
    BY <1>3, <2>1, <2>2, <2>3, <2>4, <2>5
<1>7. CASE Sync(o)
  <2>1. RowStep(o, Anew(Row(o)))
    BY <1>2, <1>7, AnewOrder DEF Sync
  <2> QED
    BY <1>3, <1>7, <2>1 DEF Sync
<1>8. CASE Arm(o)
  <2>1. RowStep(o, [Row(o) EXCEPT !.armed = ~Row(o).armed])
    BY <1>2, <1>8 DEF Arm, Order
  <2> QED
    BY <1>3, <1>8, <2>1 DEF Arm
<1>9. CASE Hide(o)
  <2>1. RowStep(o, [Row(o) EXCEPT !.reachable = ~Row(o).reachable])
    BY <1>2, <1>9 DEF Hide, Order
  <2> QED
    BY <1>3, <1>9, <2>1 DEF Hide
<1> QED
  BY <1>1, <1>4, <1>5, <1>6, <1>7, <1>8, <1>9

\* Only the rows of the database change.
NewRows(rows) ==
    /\ db'.rows = rows /\ db'.secrets = db.secrets /\ db'.stamp = db.stamp
    /\ UNCHANGED <<serverVars, filesVars, lanesVars, world>>

LEMMA NewRowsTypes ==
    ASSUME BackupTypes, NEW rows \in [Orders -> Order],
           db' = [db EXCEPT !.rows = rows], UNCHANGED <<serverVars, filesVars, lanesVars, world>>
    PROVE  BackupTypes' /\ NewRows(rows)
<1>1. db' \in Database /\ db'.rows = rows /\ db'.secrets = db.secrets /\ db'.stamp = db.stamp
  BY DEF BackupTypes, Database
<1> QED
  BY <1>1 DEF BackupTypes, LanesTyped, NewRows, serverVars, filesVars, lanesVars

LEMMA SetRowTypes ==
    ASSUME BackupTypes, NEW o \in Orders, NEW row \in Order, SetRow(o, row),
           UNCHANGED <<serverVars, filesVars, lanesVars, world>>
    PROVE  BackupTypes' /\ NewRows([db.rows EXCEPT ![o] = row])
<1> DEFINE rows == [db.rows EXCEPT ![o] = row]
<1>1. db' = [db EXCEPT !.rows = rows]
  BY DEF SetRow
<1>2. rows \in [Orders -> Order]
  BY DatabaseFields DEF BackupTypes
<1> HIDE DEF rows
<1>3. BackupTypes' /\ NewRows(rows)
  BY <1>1, <1>2, NewRowsTypes
<1> QED
  BY <1>3 DEF rows

\* A kind at a time.
LEMMA KindIsKind ==
    ASSUME NoticeTypes, sweep.at # "off"
    PROVE  Kind \in Kinds
<1>1. sweep.n \in 1..4
  BY DEF NoticeTypes
<1>2. /\ Sequence[1] = "expiring" /\ Sequence[2] = "trial ended"
      /\ Sequence[3] = "usage high" /\ Sequence[4] = "expired"
  BY DEF Sequence
<1>3. sweep.n = 1 \/ sweep.n = 2 \/ sweep.n = 3 \/ sweep.n = 4
  BY <1>1
<1> QED
  BY <1>2, <1>3 DEF Kind, Kinds

\* The rows a flush leaves.
Flushed == [o \in Orders |-> IF o \in sweep.stamped THEN [Row(o) EXCEPT !.stamp[Kind] = sweep.now] ELSE Row(o)]

LEMMA FlushedRow ==
    ASSUME NoticeConstants, Types, sweep.at = "send", NEW o \in Orders
    PROVE  /\ Flushed[o] \in Order /\ Flushed[o].renewed = Row(o).renewed
           /\ \A k \in Kinds : Flushed[o].stamp[k] = IF o \in sweep.stamped /\ k = Kind THEN sweep.now
                                                     ELSE Row(o).stamp[k]
<1>1. Row(o) \in Order /\ Kind \in Kinds /\ sweep.now \in Periods
  BY RowIsOrder, KindIsKind DEF Types, NoticeTypes, Sweep
<1>2. Row(o).stamp \in [Kinds -> Never..MaxRenewals]
  BY <1>1 DEF Order
<1> DEFINE stamp == [Row(o).stamp EXCEPT ![Kind] = sweep.now]
<1>3. /\ stamp \in [Kinds -> Never..MaxRenewals]
      /\ \A k \in Kinds : stamp[k] = IF k = Kind THEN sweep.now ELSE Row(o).stamp[k]
  BY <1>1, <1>2, NoticeConstants DEF Periods, Never
<1>4. [Row(o) EXCEPT !.stamp[Kind] = sweep.now] = [Row(o) EXCEPT !.stamp = stamp]
  BY <1>1 DEF Order
<1> HIDE DEF stamp
<1>5. /\ [Row(o) EXCEPT !.stamp = stamp] \in Order
      /\ [Row(o) EXCEPT !.stamp = stamp].renewed = Row(o).renewed
      /\ [Row(o) EXCEPT !.stamp = stamp].stamp = stamp
  BY <1>1, <1>3 DEF Order
<1>6. Flushed[o] = IF o \in sweep.stamped THEN [Row(o) EXCEPT !.stamp = stamp] ELSE Row(o)
  BY <1>4 DEF Flushed
<1> QED
  BY <1>1, <1>3, <1>5, <1>6

LEMMA FlushRows ==
    ASSUME NoticeConstants, Types, Flush
    PROVE  BackupTypes' /\ NewRows(Flushed)
<1>1. Flushed \in [Orders -> Order]
  BY FlushedRow DEF Flush, Flushed
<1>2. db' = [db EXCEPT !.rows = Flushed] /\ UNCHANGED <<serverVars, filesVars, lanesVars, world>>
  BY DEF Flush, Flushed, SweepOnly
<1> QED
  BY <1>1, <1>2, NewRowsTypes DEF Types

\* The other steps of the job change no row.
LEMMA JobRows ==
    ASSUME NoticeConstants, Types, Job
    PROVE  /\ UNCHANGED <<serverVars, filesVars, lanesVars, world, clock>>
           /\ BackupTypes'
           /\ db' # db => sweep.at = "send" /\ NewRows(Flushed)
<1>1. CASE Flush
  BY <1>1, FlushRows DEF Flush, SweepOnly
<1>2. CASE ~Flush
  <2>1. db' = db /\ SweepOnly
    BY <1>2 DEF Job, StartJob, Scan, Begin, EndSweep, Tell, Fail
  <2>2. UNCHANGED <<serverVars, filesVars, lanesVars, world, clock>>
    BY <2>1 DEF SweepOnly
  <2>3. BackupTypes'
    BY <2>1, <2>2 DEF Types, BackupTypes, LanesTyped, serverVars, filesVars, lanesVars
  <2> QED
    BY <2>1, <2>2, <2>3
<1> QED
  BY <1>1, <1>2

LEMMA NextKindTypes ==
    ASSUME NoticeConstants, NoticeTypes, sweep.at # "off"
    PROVE  NextKind \in Sweep /\ (NextKind.at # "off" => NextKind.n \in 1..4) /\ NextKind.at \in {"off", "scan"}
<1>1. sweep.n \in 1..4
  BY DEF NoticeTypes
<1>2. [Off EXCEPT !.at = "scan", !.n = sweep.n + 1]
        = [at |-> "scan", n |-> sweep.n + 1, due |-> {}, now |-> 0, stamped |-> {}]
  <2> DEFINE mid == [Off EXCEPT !.at = "scan"]
  <2>1. mid = [at |-> "scan", n |-> 0, due |-> {}, now |-> 0, stamped |-> {}]
    BY DEF Off
  <2>2. [Off EXCEPT !.at = "scan", !.n = sweep.n + 1] = [mid EXCEPT !.n = sweep.n + 1]
    BY DEF Off
  <2> HIDE DEF mid
  <2> QED
    BY <2>1, <2>2
<1>3. 0 \in Periods
  BY NoticeConstants DEF Periods
<1>4. CASE sweep.n < 4
  <2>1. NextKind = [at |-> "scan", n |-> sweep.n + 1, due |-> {}, now |-> 0, stamped |-> {}]
    BY <1>2, <1>4 DEF NextKind
  <2>2. sweep.n + 1 \in 1..4
    BY <1>1, <1>4
  <2> QED
    BY <1>3, <2>1, <2>2 DEF Sweep
<1>5. CASE ~(sweep.n < 4)
  BY <1>3, <1>5 DEF NextKind, Off, Sweep
<1> QED
  BY <1>4, <1>5

\* Whom a scan finds.
DueNow == IF Readable(ShopToken, "scheduler")
          THEN {<<o, Row(o).renewed>> : o \in {x \in Orders : Due(Row(x), Kind)}} ELSE {}

LEMMA DueNowPairs ==
    ASSUME Types
    PROVE  /\ DueNow \subseteq Orders \X Periods
           /\ \A x \in DueNow : x[1] \in Orders /\ x[2] = Row(x[1]).renewed
<1>1. \A o \in Orders : Row(o).renewed \in Periods
  BY RowIsOrder DEF Types, Order, Periods
<1> QED
  BY <1>1 DEF DueNow

LEMMA JobTypes ==
    ASSUME NoticeConstants, Types, Job
    PROVE  Types'
<1> USE DEF Types, NoticeTypes
<1>1. BackupTypes' /\ clock' = clock
  BY JobRows
<1>2. ASSUME sweep' \in Sweep, sweep'.at # "off" => sweep'.n \in 1..4 PROVE Types'
  BY <1>1, <1>2
<1>3. CASE StartJob
  <2>1. sweep' = [at |-> "scan", n |-> 1, due |-> {}, now |-> 0, stamped |-> {}]
    BY <1>3 DEF StartJob, Off
  <2> QED
    BY <1>2, <2>1, NoticeConstants DEF Sweep, Periods
<1>4. CASE Scan
  <2>1. sweep' = NextKind \/ sweep' = [sweep EXCEPT !.at = "due", !.due = DueNow]
    BY <1>4 DEF Scan, DueNow
  <2>2. sweep.at = "scan"
    BY <1>4 DEF Scan
  <2>3. CASE sweep' = NextKind
    BY <1>2, <2>2, <2>3, NoticeConstants, NextKindTypes
  <2>4. CASE sweep' = [sweep EXCEPT !.at = "due", !.due = DueNow]
    BY <1>2, <2>2, <2>4, DueNowPairs DEF Sweep
  <2> QED
    BY <2>1, <2>3, <2>4
<1>5. CASE Begin
  BY <1>2, <1>5 DEF Begin, Sweep
<1>6. CASE Flush
  BY <1>2, <1>6 DEF Flush, Sweep
<1>7. CASE EndSweep
  BY <1>2, <1>7, NoticeConstants, NextKindTypes DEF EndSweep
<1>8. ASSUME NEW x \in sweep.due, Tell(x) \/ Fail(x) PROVE Types'
  <2>1. x[1] \in Orders
    BY DEF Sweep
  <2> DEFINE left == [sweep EXCEPT !.due = sweep.due \ {x}]
  <2>2. left \in Sweep /\ left.at = sweep.at /\ left.n = sweep.n /\ left.stamped = sweep.stamped
    BY DEF Sweep
  <2>3. sweep' = left \/ sweep' = [left EXCEPT !.stamped = left.stamped \cup {x[1]}]
    BY <1>8, <2>2 DEF Tell, Fail, Sweep
  <2> HIDE DEF left
  <2>4. sweep'.at = sweep.at /\ sweep'.n = sweep.n /\ sweep' \in Sweep
    BY <2>1, <2>2, <2>3 DEF Sweep
  <2> QED
    BY <1>2, <2>4
<1> QED
  BY <1>3, <1>4, <1>5, <1>6, <1>7, <1>8 DEF Job

LEMMA InitTypes ==
    ASSUME BackupConstants, NoticeConstants, NoticeWorlds, Init
    PROVE  Types
<1>1. world \in World
  BY NoticeWorlds DEF Init
<1> DEFINE rows == [o \in Orders |-> NewOrder(o)]
<1>2. rows \in [Orders -> Order]
  <2>1. world.life \in Lives
    BY <1>1 DEF World
  <2>2. \A o \in Orders : NewOrder(o) \in Order
    <3> TAKE o \in Orders
    <3>1. (o \in world.trials) \in BOOLEAN
      OBVIOUS
    <3>2. [k \in Kinds |-> Never] \in [Kinds -> Never..MaxRenewals] /\ 0 \in 0..MaxRenewals
      BY NoticeConstants DEF Never
    <3> QED
      BY <2>1, <3>1, <3>2 DEF Order, NewOrder
  <2> QED
    BY <2>2
<1>3. BackupInit(rows)
  BY DEF Init
<1> HIDE DEF rows
<1>4. db \in Database /\ env \in Keys /\ key \in [Procs -> Keys]
  BY <1>2, <1>3 DEF BackupInit, Database, Keys
<1>5. owner \subseteq BackupArchive /\ disk = {}
  <2>1. world.archives \subseteq Keys
    BY <1>1 DEF World, Keys
  <2>2. owner = {[id |-> 0, rows |-> rows, secrets |-> [s \in Secrets |-> k], stamp |-> 0, key |-> k]
                    : k \in world.archives}
    BY <1>3 DEF BackupInit
  <2> QED
    BY <1>2, <1>3, <2>1, <2>2 DEF BackupInit, BackupArchive
<1>6. /\ making \in [Procs -> Making] /\ restoring \in [Restorers -> Restoring]
      /\ made \in Nat /\ begun \in Nat
  BY <1>3, IdleTypes DEF BackupInit
<1>7. LanesTyped
  BY <1>3 DEF BackupInit, LanesTyped, Idle, NoRestore
<1>8. NoticeTypes
  BY NoticeConstants DEF Init, NoticeTypes, Off, Sweep, Periods
<1> QED
  BY <1>1, <1>4, <1>5, <1>6, <1>7, <1>8 DEF Types, BackupTypes

LEMMA NextTypes ==
    ASSUME BackupConstants, NoticeConstants, Types, [Next]_vars
    PROVE  Types'
<1>1. ASSUME BackupStep, UNCHANGED noticeVars PROVE Types'
  BY <1>1, BackupStepTypes DEF Types, NoticeTypes, noticeVars
<1>2. CASE Stop
  BY <1>2, StopTypes
<1>3. CASE Shop
  <2>1. PICK o \in Orders, row \in Order : RowStep(o, row) /\ SetRow(o, row) /\ OrdersOnly
    BY <1>3, ShopSteps
  <2>2. BackupTypes'
    BY <2>1, SetRowTypes DEF OrdersOnly, Types
  <2>3. NoticeTypes'
    BY <2>1, NoticeConstants DEF RowStep, OrdersOnly, Types, NoticeTypes, Periods
  <2> QED
    BY <2>2, <2>3 DEF Types
<1>4. CASE Job
  BY <1>4, JobTypes
<1>5. CASE UNCHANGED vars
  BY <1>5 DEF vars, backupVars, serverVars, filesVars, lanesVars, noticeVars, Types, BackupTypes,
              LanesTyped, NoticeTypes
<1> QED
  BY <1>1, <1>2, <1>3, <1>4, <1>5 DEF Next

\* Every variable of the server and of the job stays in its type, with any number of
\* orders, secrets, backups, restores and crashes: an archive that is being sent,
\* stamped or restored is whole.
THEOREM BackupTypesHold == Spec => []Types
<1>1. Init => Types
  BY InitTypes, BackupConstants, NoticeConstants, NoticeWorlds
<1>2. Types /\ [Next]_vars => Types'
  BY NextTypes, BackupConstants, NoticeConstants
<1> QED
  BY <1>1, <1>2, PTL DEF Spec

-----------------------------------------------------------------------------
(* Where archives come from: only a dump makes one.                        *)

\* Each process has the archives it had, or fewer.
LEMMA FewerArchives ==
    ASSUME \A q \in Procs : making'[q].at \in {"built", "stamp", "stream"} => making'[q].archive \in AllArchives,
           \A q \in Restorers : restoring'[q].at # "idle" => restoring'[q].archive \in AllArchives,
           owner' \cup disk' \subseteq AllArchives
    PROVE  AllArchives' \subseteq AllArchives
  BY DEF AllArchives, Delivered, InMaking, InRestore

LEMMA ArchiveHolders ==
    /\ \A q \in Procs : making[q].at \in {"built", "stamp", "stream"} => making[q].archive \in AllArchives
    /\ \A q \in Restorers : restoring[q].at # "idle" => restoring[q].archive \in AllArchives
    /\ owner \cup disk \subseteq AllArchives
  BY DEF AllArchives, Delivered, InMaking, InRestore

LEMMA StartKeepsArchives ==
    ASSUME BackupTypes, NEW p \in Procs, Starts(p)
    PROVE  AllArchives' \subseteq AllArchives
<1>1. /\ \A q \in Procs : making'[q] = Idle \/ making'[q] = making[q]
      /\ \A q \in Restorers : restoring'[q] = NoRestore \/ restoring'[q] = restoring[q]
      /\ owner' = owner /\ disk' = disk
  BY DEF Starts, Done, BackupTypes, filesVars
<1> QED
  BY <1>1, FewerArchives, ArchiveHolders DEF Idle, NoRestore

LEMMA BackupArchives ==
    ASSUME BackupTypes, BackupStep
    PROVE  \/ AllArchives' \subseteq AllArchives
           \/ \E p \in Procs : Dump(p) /\ AllArchives' \subseteq AllArchives \cup {Archive(p)}
<1> USE ArchiveHolders, FewerArchives DEF BackupTypes
<1>1. ASSUME NEW s \in Secrets, WriteSecret(s) PROVE AllArchives' \subseteq AllArchives
  BY <1>1 DEF WriteSecret, filesVars, lanesVars
<1>2. ASSUME NEW p \in Procs, NEW download \in BOOLEAN, CreateBackup(p, download)
      PROVE AllArchives' \subseteq AllArchives
  BY <1>2 DEF CreateBackup, filesVars
<1>3. ASSUME NEW p \in Procs, Dump(p) PROVE AllArchives' \subseteq AllArchives \cup {Archive(p)}
  <2>1. /\ \A q \in Procs : making'[q].at \in {"built", "stamp", "stream"} =>
              making'[q].archive = Archive(p) \/ making'[q] = making[q]
        /\ restoring' = restoring /\ owner' = owner /\ disk' = disk
    BY <1>3 DEF Dump, Making, filesVars
  <2> QED
    BY <2>1 DEF AllArchives, Delivered, InMaking, InRestore
<1>4. ASSUME NEW p \in Procs, DumpFails(p) \/ SendFails(p) \/ StreamFails(p) PROVE AllArchives' \subseteq AllArchives
  <2>1. making' = Done(p) /\ restoring' = restoring /\ disk' = disk
    BY <1>4 DEF DumpFails, SendFails, StreamFails, Done, filesVars
  <2>2. owner' \subseteq AllArchives
    BY <1>4 DEF DumpFails, SendFails, StreamFails, Built, filesVars
  <2> QED
    BY <2>1, <2>2 DEF Done, Idle
<1>5. ASSUME NEW p \in Procs, KeepOnDisk(p) \/ TooLarge(p) \/ SendBackup(p) \/ Stream(p)
      PROVE AllArchives' \subseteq AllArchives
  <2>1. making[p].archive \in AllArchives
    BY <1>5 DEF KeepOnDisk, TooLarge, SendBackup, Stream, Built, Streaming
  <2>2. Kept(disk \cup {making[p].archive}) \subseteq AllArchives
    BY <2>1, KeptInside
  <2>3. owner' \cup disk' \subseteq AllArchives /\ restoring' = restoring
    BY <1>5, <2>1, <2>2 DEF KeepOnDisk, TooLarge, SendBackup, Stream
  <2>4. making' = Done(p) \/ making' = Step(p, "stamp")
    BY <1>5 DEF KeepOnDisk, TooLarge, SendBackup, Stream
  <2>5. \A q \in Procs :
          making'[q].at # "idle" => making'[q].archive = making[q].archive /\ (q # p => making'[q] = making[q])
    BY <2>4 DEF Done, Step, Idle, Making
  <2> QED
    BY <2>1, <2>3, <2>5
<1>6. ASSUME NEW p \in Procs, MarkBackupDone(p) PROVE AllArchives' \subseteq AllArchives
  <2>1. making' = Done(p) \/ making' = Step(p, "stream")
    BY <1>6 DEF MarkBackupDone
  <2>2. \A q \in Procs :
          making'[q].at # "idle" => making'[q].archive = making[q].archive /\ (q # p => making'[q] = making[q])
    BY <2>1 DEF Done, Step, Idle, Making
  <2>3. making[p].archive \in AllArchives /\ restoring' = restoring /\ owner' = owner /\ disk' = disk
    BY <1>6 DEF MarkBackupDone, filesVars
  <2> QED
    BY <2>2, <2>3
<1>7. ASSUME NEW p \in Restorers, NEW a \in owner \cup disk, BeginRestore(p, a) PROVE AllArchives' \subseteq AllArchives
  <2>1. a \in AllArchives
    OBVIOUS
  <2>2. /\ \A q \in Restorers : restoring'[q].archive = a \/ restoring'[q] = restoring[q]
        /\ making' = making /\ owner' = owner /\ disk' = disk
    BY <1>7 DEF BeginRestore, filesVars
  <2> QED
    BY <2>1, <2>2
<1>8. ASSUME NEW p \in Restorers, \/ Refuse(p) \/ SafetyDump(p) \/ ImportFails(p) \/ Recrypt(p)
                                  \/ RecryptFails(p) \/ SameKey(p) \/ RequestRestart(p)
      PROVE  AllArchives' \subseteq AllArchives
  <2>1. /\ restoring[p].at # "idle"
        /\ making' = making /\ owner' = owner /\ disk' = disk
        /\ \E at \in {"dumped", "keyed"} : restoring' = [restoring EXCEPT ![p] = NoRestore] \/ restoring' = At(p, at)
    BY <1>8 DEF Refuse, SafetyDump, ImportFails, Recrypt, RecryptFails, SameKey, RequestRestart, filesVars
  <2>2. \A q \in Restorers :
          restoring'[q].at # "idle" => restoring'[q].archive = restoring[q].archive /\ (q # p => restoring'[q] = restoring[q])
    BY <2>1 DEF At, NoRestore, Restoring
  <2> QED
    BY <2>1, <2>2
<1>9. ASSUME NEW p \in Restorers, Import(p) PROVE AllArchives' \subseteq AllArchives
  <2>1. PICK hit \in SUBSET (MidRestore \ {p}) :
          restoring' = [q \in Restorers |-> IF q = p THEN [restoring[p] EXCEPT !.at = "imported"]
                                            ELSE IF q \in hit THEN [restoring[q] EXCEPT !.at = "cut"]
                                            ELSE restoring[q]]
    BY <1>9 DEF Import
  <2>2. PICK lost \in SUBSET {q \in Procs : making[q].at = "dumping"} :
          making' = [q \in Procs |-> IF q \in lost THEN Idle ELSE making[q]]
    BY <1>9 DEF Import
  <2>3.
          \A q \in Restorers : /\ restoring'[q].archive = restoring[q].archive
                               /\ restoring'[q].at # "idle" => restoring[q].at # "idle"
    BY <1>9, <2>1 DEF Import, MidRestore, Restoring
  <2>4. \A q \in Procs : making'[q] = Idle \/ making'[q] = making[q]
    BY <2>2
  <2> QED
    BY <1>9, <2>3, <2>4 DEF Import, Idle, filesVars
<1> QED
  BY <1>1, <1>2, <1>3, <1>4, <1>5, <1>6, <1>7, <1>8, <1>9 DEF BackupStep

\* Whatever a step is, the archives there are after it were there, or are what it dumps.
LEMMA StepArchives ==
    ASSUME BackupConstants, NoticeConstants, Types, [Next]_vars
    PROVE  \/ AllArchives' \subseteq AllArchives
           \/ \E p \in Procs : BackupStep /\ Dump(p) /\ AllArchives' \subseteq AllArchives \cup {Archive(p)}
<1>1. CASE BackupStep
  BY <1>1, BackupArchives DEF Types
<1>2. CASE Stop
  <2>1. ASSUME NEW p \in Procs, WatchLoop(p) \/ Crash(p) PROVE AllArchives' \subseteq AllArchives
    BY <2>1, StartKeepsArchives DEF WatchLoop, Crash, Types
  <2>2. ASSUME Update PROVE AllArchives' \subseteq AllArchives
    BY <2>2, ArchiveHolders, FewerArchives DEF Update, Idle, NoRestore, filesVars
  <2> QED
    BY <1>2, <2>1, <2>2 DEF Stop
<1>3. CASE Shop \/ Job \/ UNCHANGED vars
  <2>1. UNCHANGED <<filesVars, lanesVars>>
    BY <1>3, ShopSteps, JobRows DEF OrdersOnly, vars, backupVars
  <2> QED
    BY <2>1, ArchiveHolders, FewerArchives DEF filesVars, lanesVars
<1> QED
  BY <1>1, <1>2, <1>3 DEF Next

\* What the world allows does not change.
LEMMA WorldStays ==
    ASSUME BackupConstants, NoticeConstants, Types, [Next]_vars
    PROVE  world'.ops = world.ops /\ world'.archives = world.archives /\ world'.unkeyed = world.unkeyed
<1>1. ASSUME BackupStep PROVE world' = world
  BY <1>1 DEF BackupStep, WriteSecret, CreateBackup, Dump, DumpFails, KeepOnDisk, TooLarge, SendBackup,
              SendFails, MarkBackupDone, Stream, StreamFails, BeginRestore, Refuse, SafetyDump, Import, ImportFails,
              Recrypt, RecryptFails, SameKey, RequestRestart
<1>2. ASSUME NEW p \in Procs, WatchLoop(p) PROVE world' = world
  BY <1>2 DEF WatchLoop
<1>3. ASSUME Update PROVE world' = world
  BY <1>3 DEF Update
<1>4. ASSUME Shop \/ Job \/ UNCHANGED vars PROVE world' = world
  BY <1>4, ShopSteps, JobRows DEF OrdersOnly, vars, backupVars
<1> QED
  BY <1>1, <1>2, <1>3, <1>4, CrashWorld DEF Next, Stop, Types

\* The shop and the job leave the secrets and the server alone.
LEMMA NoticesSpareServer ==
    ASSUME NoticeConstants, Types, Shop \/ Job \/ UNCHANGED vars
    PROVE  /\ db'.secrets = db.secrets /\ db'.stamp = db.stamp
           /\ UNCHANGED <<serverVars, filesVars, lanesVars, world>>
<1>1. CASE Shop
  <2>1. PICK o \in Orders, row \in Order : RowStep(o, row) /\ SetRow(o, row) /\ OrdersOnly
    BY <1>1, ShopSteps
  <2>2. NewRows([db.rows EXCEPT ![o] = row])
    BY <2>1, SetRowTypes DEF OrdersOnly, Types
  <2> QED
    BY <2>2 DEF NewRows
<1>2. CASE Job
  BY <1>2, JobRows DEF NewRows
<1>3. CASE UNCHANGED vars
  BY <1>3 DEF vars, backupVars
<1> QED
  BY <1>1, <1>2, <1>3

-----------------------------------------------------------------------------
(* The secrets stay readable.                                              *)

\* Whoever dumps has the key the secrets are under.
LEMMA DumpIsKeyed ==
    ASSUME BackupTypes, SecretsInv, NEW p \in Procs, Dump(p)
    PROVE  \A s \in Secrets : db.secrets[s] = key[p]
<1>1. CASE OwnArchives(world)
  BY <1>1 DEF SecretsInv, OneKey
<1>2. CASE ~OwnArchives(world)
  <2>1. OneAtATime(world) /\ KeysAgree /\ Underway
    BY <1>2 DEF SecretsInv
  <2>2. making[p] # Idle
    BY DEF Dump, Idle
  <2>3. KeyStays(world)
    BY <2>1, <2>2 DEF KeysAgree
  <2>4. MidRestore = {} /\ key[p] = env
    BY <2>1, <2>3 DEF Dump, Undisturbed, KeyStays, KeysAgree, Ops
  <2> QED
    BY <2>1, <2>4 DEF Underway
<1> QED
  BY <1>1, <1>2

LEMMA SelfKeyedStays ==
    ASSUME BackupConstants, NoticeConstants, Types, SecretsInv, [Next]_vars
    PROVE  SelfKeyed'
<1>1. CASE AllArchives' \subseteq AllArchives
  BY <1>1 DEF SecretsInv, SelfKeyed
<1>2. ASSUME NEW p \in Procs, Dump(p), AllArchives' \subseteq AllArchives \cup {Archive(p)} PROVE SelfKeyed'
  <2>1. \A s \in Secrets : Archive(p).secrets[s] = Archive(p).key
    BY <1>2, DumpIsKeyed DEF Archive, Types
  <2> QED
    BY <1>2, <2>1 DEF SecretsInv, SelfKeyed
<1> QED
  BY <1>1, <1>2, StepArchives

\* Where all archives are the server's own there is one key, and nothing to fall back to.
LEMMA OneKeyStays ==
    ASSUME BackupConstants, NoticeConstants, Types, SecretsInv, OwnArchives(world), [Next]_vars
    PROVE  OneKey'
<1>0. OneKey /\ SelfKeyed
  BY DEF SecretsInv
<1>1. \A a \in AllArchives' : a.key = Here
  <2>1. ASSUME NEW p \in Procs PROVE Archive(p).key = Here
    BY <1>0 DEF OneKey, Archive
  <2> QED
    BY <1>0, <2>1, StepArchives DEF OneKey
<1>2. ASSUME env' = Here, \A p \in Procs : key'[p] = Here, \A s \in Secrets : db'.secrets[s] = Here
      PROVE  OneKey'
  BY <1>1, <1>2 DEF OneKey
<1> USE DEF OneKey, serverVars
<1>3. ASSUME NEW p \in Restorers, Import(p) PROVE OneKey'
  <2>1. restoring[p].archive \in AllArchives
    BY <1>3, ArchiveHolders DEF Import
  <2>2. \A s \in Secrets : restoring[p].archive.secrets[s] = Here
    BY <1>0, <2>1 DEF SelfKeyed
  <2>3. restoring[p].archive \in BackupArchive /\ db \in Database
    BY <1>3 DEF Import, Types, BackupTypes, LanesTyped
  <2>4. db' = [f \in DOMAIN db |-> restoring[p].archive[f]]
    BY <1>3 DEF Import
  <2>5. db'.secrets = restoring[p].archive.secrets
    BY <2>3, <2>4, ImportedDatabase
  <2> QED
    BY <1>0, <1>2, <1>3, <2>2, <2>5 DEF Import
<1>4. ASSUME NEW p \in Restorers, Recrypt(p) PROVE OneKey'
  <2>1. p \in Procs /\ db \in Database
    BY DEF Restorers, Procs, Types, BackupTypes
  <2>2. db'.secrets = Recrypted(db.secrets, restoring[p].archive.key, key[p])
    BY <1>4, <2>1 DEF Recrypt, Database
  <2> QED
    BY <1>0, <1>2, <1>4, <2>1, <2>2 DEF Recrypt, Recrypted
<1>5. ASSUME NEW p \in Restorers, RecryptFails(p) PROVE FALSE
  <2>1. restoring[p].archive \in AllArchives /\ restoring[p].archive.key # key[p] /\ p \in Procs
    BY <1>5, ArchiveHolders DEF RecryptFails, Restorers, Procs
  <2> QED
    BY <1>0, <2>1
<1>6. ASSUME NEW s \in Secrets, WriteSecret(s) PROVE FALSE
  BY <1>0, <1>6 DEF WriteSecret, Readable, Procs
<1>7. ASSUME NEW p \in Procs, MarkBackupDone(p) PROVE OneKey'
  <2>1. db'.secrets = db.secrets
    BY <1>7 DEF MarkBackupDone, Types, BackupTypes, Database
  <2> QED
    BY <1>0, <1>2, <1>7, <2>1 DEF MarkBackupDone
<1>8. ASSUME db' = db, env' = env, key' = key PROVE OneKey'
  BY <1>0, <1>2, <1>8
<1>9. CASE BackupStep
  BY <1>3, <1>4, <1>5, <1>6, <1>7, <1>8, <1>9
     DEF BackupStep, CreateBackup, Dump, DumpFails, KeepOnDisk, TooLarge, SendBackup,
         SendFails, Stream, StreamFails, BeginRestore, Refuse, SafetyDump, ImportFails, SameKey, RequestRestart
<1>10. CASE Stop
  BY <1>0, <1>8, <1>10 DEF Stop, WatchLoop, Crash, Starts, Update
<1>11. CASE Shop \/ Job \/ UNCHANGED vars
  BY <1>0, <1>2, <1>11, NoticesSpareServer
<1> QED
  BY <1>9, <1>10, <1>11 DEF Next

\* One restore at a time, under the rules of OneAtATime.
RestoreInv == AtMostOne /\ KeysAgree /\ Underway

\* Nothing a restore depends on changes.
LEMMA RestoreUndisturbed ==
    ASSUME BackupTypes, RestoreInv, world' = world,
           db'.secrets = db.secrets, UNCHANGED <<env, key, restoring>>,
           ~KeyStays(world) => \A q \in Procs : making'[q] = Idle
    PROVE  RestoreInv'
  BY DEF RestoreInv, AtMostOne, KeysAgree, Underway, MidRestore

\* Where a re-encryption can fail no backup is made.
LEMMA MakingSpares ==
    ASSUME Types, RestoreInv, OneAtATime(world), world' = world, UNCHANGED <<env, key, restoring>>,
           NEW p \in Procs,
           \/ \E download \in BOOLEAN : CreateBackup(p, download)
           \/ Dump(p) \/ DumpFails(p) \/ KeepOnDisk(p) \/ TooLarge(p) \/ SendBackup(p) \/ SendFails(p)
           \/ MarkBackupDone(p) \/ Stream(p) \/ StreamFails(p)
    PROVE  RestoreInv'
<1>1. KeyStays(world)
  <2>1. making[p] = Idle => "backup" \in world.ops
    BY DEF CreateBackup, Dump, DumpFails, KeepOnDisk, TooLarge, SendBackup, SendFails, MarkBackupDone, Stream,
           StreamFails, Built, Streaming, Idle, Ops
  <2> QED
    BY <2>1 DEF OneAtATime, KeyMoves, RestoreInv, KeysAgree
<1>2. db'.secrets = db.secrets
  BY DEF CreateBackup, Dump, DumpFails, KeepOnDisk, TooLarge, SendBackup, SendFails, MarkBackupDone, Stream,
         StreamFails, Types, BackupTypes, Database
<1> QED
  BY <1>1, <1>2, RestoreUndisturbed DEF Types

\* A restore ends, or goes on to a phase the secrets do not depend on.
LEMMA RestoreMoves ==
    ASSUME BackupTypes, RestoreInv, world' = world, NEW p \in Restorers,
           restoring[p].at \notin {"idle", "imported"}, NEW at \in {"idle", "dumped", "keyed"},
           \A q \in Restorers : restoring'[q].at = (IF q = p THEN at ELSE restoring[q].at)
                                /\ restoring'[q].archive \in {restoring[q].archive, Nothing}
                                /\ (q # p => restoring'[q] = restoring[q]),
           at = "dumped" => restoring[p].at = "opening",
           db' = db, UNCHANGED <<env, key, making>>
    PROVE  RestoreInv'
<1>1. MidRestore' = MidRestore
  BY DEF MidRestore, RestoreInv, AtMostOne
<1>2. AtMostOne'
  BY DEF RestoreInv, AtMostOne
<1>3. KeysAgree'
  BY DEF RestoreInv, KeysAgree
<1>4. Underway'
  BY <1>1 DEF RestoreInv, Underway
<1> QED
  BY <1>2, <1>3, <1>4 DEF RestoreInv

LEMMA RestoreBegins ==
    ASSUME BackupTypes, RestoreInv, OneAtATime(world), NEW p \in Restorers, NEW a, BeginRestore(p, a)
    PROVE  RestoreInv'
<1>1. /\ \A q \in Restorers : restoring[q] = NoRestore
      /\ restoring' = [restoring EXCEPT ![p] = [at |-> "opening", archive |-> a]]
      /\ db' = db /\ world' = world /\ UNCHANGED <<env, key, making>>
  BY DEF BeginRestore, OneAtATime, Ops, serverVars
<1>2. \A q \in Restorers : restoring'[q].at = IF q = p THEN "opening" ELSE "idle"
  BY <1>1 DEF BackupTypes, NoRestore
<1>3. MidRestore = {} /\ MidRestore' = {}
  BY <1>1, <1>2 DEF MidRestore, NoRestore
<1>4. \A q \in Procs : key[q] = env
  BY DEF BeginRestore, OneAtATime, KeyMoves, RestoreInv, KeysAgree, Ops
<1> QED
  BY <1>1, <1>2, <1>3, <1>4 DEF RestoreInv, AtMostOne, KeysAgree, Underway

LEMMA RestoreImports ==
    ASSUME BackupTypes, SelfKeyed, RestoreInv, NEW p \in Restorers, Import(p)
    PROVE  RestoreInv'
<1>1. restoring[p].archive \in BackupArchive /\ restoring[p].archive \in AllArchives /\ restoring[p].at = "dumped"
  BY ArchiveHolders DEF Import, BackupTypes, LanesTyped
<1>2. \A s \in Secrets : db'.secrets[s] = restoring[p].archive.key
  <2>1. db' = [f \in DOMAIN db |-> restoring[p].archive[f]] /\ db \in Database
    BY DEF Import, BackupTypes
  <2>2. db'.secrets = restoring[p].archive.secrets
    BY <1>1, <2>1, ImportedDatabase
  <2> QED
    BY <1>1, <2>2 DEF SelfKeyed
<1>3. \A q \in Restorers \ {p} : restoring[q].at = "idle"
  BY <1>1 DEF RestoreInv, AtMostOne
<1>4. PICK hit \in SUBSET (MidRestore \ {p}) :
        restoring' = [q \in Restorers |-> IF q = p THEN [restoring[p] EXCEPT !.at = "imported"]
                                          ELSE IF q \in hit THEN [restoring[q] EXCEPT !.at = "cut"]
                                          ELSE restoring[q]]
  BY DEF Import
<1>5. hit = {}
  BY <1>3 DEF MidRestore
<1>6. /\ \A q \in Restorers \ {p} : restoring'[q] = restoring[q]
      /\ restoring'[p].at = "imported" /\ restoring'[p].archive = restoring[p].archive
  BY <1>4, <1>5 DEF BackupTypes, Restoring
<1>7. MidRestore' # {}
  BY <1>6 DEF MidRestore
<1>8. UNCHANGED <<env, key, world>> /\ \A q \in Procs : making'[q] = Idle \/ making'[q] = making[q]
  BY DEF Import, serverVars
<1>9. AtMostOne'
  BY <1>3, <1>6 DEF AtMostOne
<1>10. KeysAgree'
  BY <1>1, <1>3, <1>6, <1>8 DEF RestoreInv, KeysAgree
<1>11. Underway'
  BY <1>2, <1>3, <1>6, <1>7 DEF Underway
<1> QED
  BY <1>9, <1>10, <1>11 DEF RestoreInv

LEMMA RestoreEnds ==
    ASSUME BackupTypes, RestoreInv, OneAtATime(world), NEW p \in Restorers,
           Recrypt(p) \/ RecryptFails(p) \/ SameKey(p)
    PROVE  RestoreInv'
<1>1. restoring[p].at = "imported" /\ ~SameKey(p)
  BY DEF Recrypt, RecryptFails, SameKey, RestoreInv, AtMostOne
<1>2. /\ restoring' = At(p, "keyed") /\ UNCHANGED <<key, making, world>>
      /\ p \in Procs /\ db \in Database
  BY <1>1 DEF Recrypt, RecryptFails, serverVars, BackupTypes, Restorers, Procs
<1>3. \A q \in Restorers : /\ q = p => restoring'[q].at = "keyed"
                           /\ q # p => restoring'[q] = restoring[q] /\ restoring[q].at = "idle"
  BY <1>1, <1>2 DEF At, BackupTypes, Restoring, RestoreInv, AtMostOne
<1>4. key[p] = env
  BY <1>1, <1>2 DEF RestoreInv, KeysAgree
<1>5. CASE Recrypt(p)
  <2>1. env' = env /\ db'.secrets = Recrypted(db.secrets, restoring[p].archive.key, key[p])
    BY <1>2, <1>5 DEF Recrypt, Database, serverVars
  <2>2. \A s \in Secrets : db'.secrets[s] = env'
    BY <1>1, <1>4, <2>1 DEF Recrypted, RestoreInv, Underway
  <2> QED
    BY <1>2, <1>3, <2>1, <2>2 DEF RestoreInv, AtMostOne, KeysAgree, Underway, MidRestore
<1>6. CASE RecryptFails(p)
  <2>1. p \in world.unkeyed
    BY <1>1, <1>6 DEF RecryptFails
  <2>2. ~KeyStays(world) /\ p = "api"
    BY <2>1 DEF OneAtATime, KeyStays, KeyMoves
  <2>3. env' = restoring[p].archive.key /\ db' = db
    BY <1>6, <2>2 DEF RecryptFails
  <2>4. \A s \in Secrets : db'.secrets[s] = env'
    BY <1>1, <2>2, <2>3 DEF RestoreInv, Underway
  <2> QED
    BY <1>2, <1>3, <2>2, <2>4 DEF RestoreInv, AtMostOne, KeysAgree, Underway, MidRestore
<1> QED
  BY <1>1, <1>5, <1>6

LEMMA SecretWritten ==
    ASSUME BackupTypes, RestoreInv, OneAtATime(world), NEW s \in Secrets, WriteSecret(s)
    PROVE  RestoreInv'
<1>1. KeyStays(world) /\ "api" \in Procs
  BY DEF WriteSecret, OneAtATime, KeyMoves, Ops, Procs
<1>2. key["api"] = env
  BY <1>1 DEF RestoreInv, KeysAgree
<1>3. \A t \in Secrets : db'.secrets[t] = IF t = s THEN env ELSE db.secrets[t]
  BY <1>2 DEF WriteSecret, BackupTypes, Database
<1>4. UNCHANGED <<env, key, restoring, making, world>>
  BY DEF WriteSecret, serverVars, lanesVars
<1> QED
  BY <1>1, <1>3, <1>4 DEF RestoreInv, AtMostOne, KeysAgree, Underway, MidRestore

\* A restore in the middle is not given up, unless the key does not matter to it.
LEMMA RestoreStops ==
    ASSUME BackupTypes, RestoreInv, world'.unkeyed = world.unkeyed, world'.ops = world.ops, Stop
    PROVE  RestoreInv'
<1>1. KeyStays(world') <=> KeyStays(world)
  BY DEF KeyStays
<1>2. ASSUME NEW p \in Procs, WatchLoop(p) \/ Crash(p) PROVE RestoreInv'
  <2>1. /\ UNCHANGED <<db, env, key>>
        /\ \A q \in Procs : making'[q] = Idle \/ making'[q] = making[q]
        /\ \A q \in Restorers : restoring'[q] = IF q = p THEN NoRestore ELSE restoring[q]
    BY <1>2 DEF WatchLoop, Crash, Starts, Done, BackupTypes
  <2>2. p \in MidRestore => restoring[p].archive.key = key[p]
    BY <1>2 DEF WatchLoop, Crash, MidRestore, NoRestore
  <2>3. AtMostOne' /\ KeysAgree'
    BY <1>1, <2>1 DEF RestoreInv, AtMostOne, KeysAgree, NoRestore
  <2>4. Underway'
    <3>1. \A q \in Restorers : restoring'[q].at = "imported" => restoring[q].at = "imported" /\ restoring'[q] = restoring[q]
      BY <2>1 DEF NoRestore
    <3>2. CASE p \in MidRestore
      <4>1. restoring[p].at = "imported"
        BY <3>2 DEF MidRestore, RestoreInv, AtMostOne
      <4>2. key[p] = env
        BY <3>2, <4>1 DEF RestoreInv, KeysAgree, MidRestore
      <4>3. \A s \in Secrets : db'.secrets[s] = env'
        BY <2>1, <2>2, <3>2, <4>1, <4>2 DEF RestoreInv, Underway, MidRestore
      <4> QED
        BY <1>1, <2>1, <3>1, <4>3 DEF RestoreInv, Underway
    <3>3. CASE p \notin MidRestore
      <4>1. MidRestore \subseteq MidRestore'
        BY <2>1, <3>3 DEF MidRestore
      <4> QED
        BY <1>1, <2>1, <3>1, <4>1 DEF RestoreInv, Underway
    <3> QED
      BY <3>2, <3>3
  <2> QED
    BY <2>3, <2>4 DEF RestoreInv
<1>3. ASSUME Update PROVE RestoreInv'
  <2>1. /\ MidRestore = {} /\ UNCHANGED <<db, env>>
        /\ \A q \in Procs : key'[q] = env' /\ making'[q] = Idle
        /\ \A q \in Restorers : restoring'[q].at = "idle"
    BY <1>3 DEF Update, NoRestore
  <2> QED
    BY <2>1 DEF RestoreInv, AtMostOne, KeysAgree, Underway
<1> QED
  BY <1>2, <1>3 DEF Stop

LEMMA RestoreInvStays ==
    ASSUME BackupConstants, NoticeConstants, Types, SecretsInv, ~OwnArchives(world), [Next]_vars
    PROVE  RestoreInv'
<1>0. SelfKeyed /\ OneAtATime(world) /\ RestoreInv
  BY DEF SecretsInv, RestoreInv
<1> USE DEF Types
<1>1. ASSUME NEW s \in Secrets, WriteSecret(s) PROVE RestoreInv'
  BY <1>0, <1>1, SecretWritten
<1>2. ASSUME NEW p \in Procs,
             \/ \E download \in BOOLEAN : CreateBackup(p, download)
             \/ Dump(p) \/ DumpFails(p) \/ KeepOnDisk(p) \/ TooLarge(p) \/ SendBackup(p) \/ SendFails(p)
             \/ MarkBackupDone(p) \/ Stream(p) \/ StreamFails(p)
      PROVE  RestoreInv'
  <2>1. world' = world /\ UNCHANGED <<env, key, restoring>>
    BY <1>2 DEF CreateBackup, Dump, DumpFails, KeepOnDisk, TooLarge, SendBackup, SendFails, MarkBackupDone, Stream,
           StreamFails, serverVars
  <2> QED
    BY <1>0, <1>2, <2>1, MakingSpares
<1>3. ASSUME NEW p \in Restorers, NEW a \in owner \cup disk, BeginRestore(p, a) PROVE RestoreInv'
  BY <1>0, <1>3, RestoreBegins
<1>4. ASSUME NEW p \in Restorers, Refuse(p) \/ ImportFails(p) \/ RequestRestart(p) \/ SafetyDump(p) PROVE RestoreInv'
  <2>1. /\ world' = world /\ db' = db /\ UNCHANGED <<env, key, making>>
        /\ restoring[p].at \in {"opening", "dumped", "keyed"}
        /\ \/ restoring' = [restoring EXCEPT ![p] = NoRestore]
           \/ restoring' = At(p, "dumped") /\ restoring[p].at = "opening"
    BY <1>4 DEF Refuse, ImportFails, RequestRestart, SafetyDump, serverVars
  <2>2. PICK at \in {"idle", "dumped"} :
          /\ at = "dumped" => restoring[p].at = "opening"
          /\ \A q \in Restorers : /\ restoring'[q].at = (IF q = p THEN at ELSE restoring[q].at)
                                  /\ restoring'[q].archive \in {restoring[q].archive, Nothing}
                                  /\ (q # p => restoring'[q] = restoring[q])
    BY <2>1 DEF At, NoRestore, BackupTypes, Restoring
  <2> QED
    BY <1>0, <2>1, <2>2, RestoreMoves
<1>5. ASSUME NEW p \in Restorers, Import(p) PROVE RestoreInv'
  BY <1>0, <1>5, RestoreImports
<1>6. ASSUME NEW p \in Restorers, Recrypt(p) \/ RecryptFails(p) \/ SameKey(p) PROVE RestoreInv'
  BY <1>0, <1>6, RestoreEnds
<1>7. CASE BackupStep
  BY <1>1, <1>2, <1>3, <1>4, <1>5, <1>6, <1>7 DEF BackupStep
<1>8. CASE Stop
  BY <1>0, <1>8, RestoreStops, WorldStays
<1>9. CASE Shop \/ Job \/ UNCHANGED vars
  <2>1. /\ db'.secrets = db.secrets /\ world' = world /\ UNCHANGED <<env, key, restoring, making>>
    BY <1>9, NoticesSpareServer DEF serverVars, lanesVars
  <2>2. ~KeyStays(world) => \A q \in Procs : making'[q] = Idle
    BY <1>0, <2>1 DEF RestoreInv, KeysAgree
  <2> QED
    BY <1>0, <2>1, <2>2, RestoreUndisturbed
<1> QED
  BY <1>7, <1>8, <1>9 DEF Next

\* In every world the restores follow the rules above.
SecretsCareful == \A w \in Worlds : OwnArchives(w) \/ OneAtATime(w)

LEMMA SecretsStep ==
    ASSUME BackupConstants, NoticeConstants, Types, SecretsInv, [Next]_vars
    PROVE  SecretsInv'
<1>1. /\ OwnArchives(world') <=> OwnArchives(world)
      /\ OneAtATime(world') <=> OneAtATime(world)
  BY WorldStays DEF OwnArchives, OneAtATime, KeyStays, KeyMoves
<1>2. OwnArchives(world) => OneKey'
  BY OneKeyStays
<1>3. ~OwnArchives(world) => RestoreInv'
  BY RestoreInvStays
<1> QED
  BY <1>1, <1>2, <1>3, SelfKeyedStays DEF SecretsInv, RestoreInv

LEMMA SecretsInit ==
    ASSUME SecretsCareful, Types, Init
    PROVE  SecretsInv
<1>1. /\ \A a \in AllArchives : a.key \in world.archives /\ \A s \in Secrets : a.secrets[s] = a.key
      /\ \A s \in Secrets : db.secrets[s] = Here
      /\ env = Here /\ \A p \in Procs : key[p] = Here /\ making[p] = Idle
      /\ \A p \in Restorers : restoring[p] = NoRestore
  BY DEF Init, BackupInit, AllArchives, Delivered, InMaking, InRestore, Idle, NoRestore
<1>2. MidRestore = {}
  BY <1>1 DEF MidRestore, NoRestore
<1>3. world \in Worlds
  BY DEF Init
<1> QED
  BY <1>1, <1>2, <1>3
     DEF SecretsInv, SecretsCareful, SelfKeyed, OneKey, AtMostOne, KeysAgree, Underway, OwnArchives, NoRestore

\* Whatever is restored, and however a restore ends, the secrets open under the key the
\* containers have or get, and every archive has the key of its secrets: if all archives
\* are the server's own, or else if restores go one at a time and nobody makes a backup
\* in one, and where a re-encryption can fail (in the panel) the containers are made anew
\* before the next restore, no secret is written and no backup made until then.
THEOREM SecretsStayReadable ==
    ASSUME SecretsCareful
    PROVE  Spec => []SecretsReadable
<1>1. Init => Types /\ SecretsInv
  BY InitTypes, SecretsInit, BackupConstants, NoticeConstants, NoticeWorlds
<1>2. Types /\ SecretsInv /\ [Next]_vars => (Types /\ SecretsInv)'
  BY NextTypes, SecretsStep, BackupConstants, NoticeConstants
<1>3. Types /\ SecretsInv => SecretsReadable
  BY DEF SecretsInv, OneKey, Underway, SelfKeyed, SecretsReadable, AllArchives, Delivered
<1> QED
  BY <1>1, <1>2, <1>3, PTL DEF Spec

-----------------------------------------------------------------------------
(* The last backup is held.                                                *)

\* What is pruned is older than what is kept.
LEMMA KeptIsNewest ==
    ASSUME NEW archives, \A a \in archives : a.id \in Nat, Newest(archives), NEW x, x.id \in Nat
    PROVE  /\ Newest(Kept(archives \cup {x}))
           /\ \A a \in archives \cup {x} : \E b \in Kept(archives \cup {x}) : b.id >= a.id
<1> DEFINE all == archives \cup {x}
<1>1. PICK m \in all : \A b \in all : b.id <= m.id
  <2>1. CASE archives = {}
    BY <2>1
  <2>2. CASE archives # {}
    <3>1. PICK a \in archives : \A b \in archives : b.id <= a.id
      BY <2>2 DEF Newest
    <3>2. CASE a.id >= x.id
      BY <3>1, <3>2
    <3>3. CASE ~(a.id >= x.id)
      BY <3>1, <3>3
    <3> QED
      BY <3>2, <3>3
  <2> QED
    BY <2>1, <2>2
<1>2. {b \in all : b.id > m.id} = {}
  BY <1>1
<1>3. Cardinality({b \in all : b.id > m.id}) = 0
  BY <1>2, FS_EmptySet
<1>4. m \in Kept(all)
  BY <1>3 DEF Kept
<1>5. Kept(all) \subseteq all
  BY KeptInside
<1> HIDE DEF all
<1>6. Newest(Kept(all)) /\ \A a \in all : \E b \in Kept(all) : b.id >= a.id
  BY <1>1, <1>4, <1>5 DEF Newest
<1> QED
  BY <1>6 DEF all

\* Nothing that is held, downloaded or given up is lost, but for something newer.
NothingLost ==
    /\ \A a \in Delivered : \E b \in Delivered' : b.id >= a.id
    /\ abandoned \subseteq abandoned'
    /\ \A n \in Streamed(Procs) : \/ n \in abandoned' \cup Streamed(Procs)'
                                 \/ \E b \in Delivered' : b.id >= n

LEMMA ArchiveIds ==
    ASSUME BackupTypes
    PROVE  /\ \A a \in AllArchives : a.id \in Nat /\ a.stamp \in Nat
           /\ \A q \in Procs : Streaming(q) => making[q].archive.id \in Nat
  BY ArchiveFields DEF BackupTypes, LanesTyped, Delivered, AllArchives, InMaking, InRestore, Streaming

LEMMA HandsGrow ==
    ASSUME BackupTypes,
           owner \subseteq owner', abandoned \subseteq abandoned',
           \A a \in disk : \E b \in disk' : b.id >= a.id,
           \A q \in Procs : Streaming(q) =>
              \/ making'[q] = making[q]
              \/ making[q].archive \in owner'
              \/ making[q].archive.id \in abandoned'
    PROVE  NothingLost
<1>1. \A a \in Delivered : \E b \in Delivered' : b.id >= a.id
  BY ArchiveIds DEF Delivered, AllArchives
<1>2. ASSUME NEW n \in Streamed(Procs)
      PROVE  n \in abandoned' \cup Streamed(Procs)' \/ \E b \in Delivered' : b.id >= n
  <2>1. PICK q \in Procs : Streaming(q) /\ n = making[q].archive.id
    BY <1>2 DEF Streamed
  <2>2. n \in Nat
    BY <2>1, ArchiveIds
  <2>3. CASE making'[q] = making[q]
    BY <2>1, <2>3 DEF Streamed, Streaming
  <2>4. CASE making[q].archive \in owner'
    BY <2>1, <2>2, <2>4 DEF Delivered
  <2>5. CASE making[q].archive.id \in abandoned'
    BY <2>1, <2>5
  <2> QED
    BY <2>1, <2>3, <2>4, <2>5
<1> QED
  BY <1>1, <1>2 DEF NothingLost

LEMMA MakingStampTyped ==
    ASSUME BackupTypes, NEW p \in Procs
    PROVE  making[p].at \in {"built", "stamp", "stream"} => making[p].archive.id \in Nat
  BY ArchiveFields DEF BackupTypes, LanesTyped

LEMMA BackupInHand ==
    ASSUME BackupTypes, StampInv, BackupStep
    PROVE  NothingLost /\ Newest(disk')
<1>0. \A a \in disk : a.id >= a.id
  BY ArchiveFields DEF BackupTypes
<1>1. ASSUME owner \subseteq owner', disk' = disk, abandoned' = abandoned,
             \A q \in Procs : Streaming(q) => making'[q] = making[q]
      PROVE  NothingLost /\ Newest(disk')
  BY <1>0, <1>1, HandsGrow DEF StampInv
<1>2. ASSUME NEW p \in Procs, KeepOnDisk(p) \/ TooLarge(p) PROVE NothingLost /\ Newest(disk')
  <2>1. /\ disk' = Kept(disk \cup {making[p].archive}) /\ owner' = owner /\ abandoned' = abandoned
        /\ making[p].at = "built" /\ making[p].archive.id \in Nat
        /\ \A q \in Procs \ {p} : making'[q] = making[q]
    BY <1>2, MakingStampTyped DEF KeepOnDisk, TooLarge, Built, Done, Step, BackupTypes
  <2>2. Newest(disk') /\ \A a \in disk : \E b \in disk' : b.id >= a.id
    BY <2>1, KeptIsNewest, ArchiveFields DEF BackupTypes, StampInv
  <2> QED
    BY <2>1, <2>2, HandsGrow DEF Streaming
<1>3. ASSUME NEW p \in Procs, SendBackup(p) \/ Stream(p) \/ StreamFails(p) PROVE NothingLost /\ Newest(disk')
  <2>1. /\ disk' = disk /\ owner \subseteq owner' /\ abandoned \subseteq abandoned'
        /\ \A q \in Procs \ {p} : making'[q] = making[q]
    BY <1>3 DEF SendBackup, Stream, StreamFails, Done, Step, BackupTypes, filesVars
  <2>2. Streaming(p) => making[p].archive \in owner' \/ making[p].archive.id \in abandoned'
    BY <1>3 DEF SendBackup, Built, Stream, StreamFails, Streaming, Streamed
  <2> QED
    BY <1>0, <2>1, <2>2, HandsGrow DEF StampInv
<1>4. ASSUME NEW p \in Procs,
             \/ \E download \in BOOLEAN : CreateBackup(p, download)
             \/ Dump(p) \/ DumpFails(p) \/ SendFails(p) \/ MarkBackupDone(p)
      PROVE  NothingLost /\ Newest(disk')
  <2>1. /\ owner \subseteq owner' /\ disk' = disk /\ abandoned' = abandoned /\ making[p].at # "stream"
        /\ \A q \in Procs \ {p} : making'[q] = making[q]
    BY <1>4 DEF CreateBackup, Dump, DumpFails, SendFails, MarkBackupDone, Built, Done, Step, Idle, filesVars, BackupTypes
  <2> QED
    BY <1>1, <2>1 DEF Streaming
<1>5. ASSUME NEW p \in Restorers, Import(p) PROVE NothingLost /\ Newest(disk')
  BY <1>1, <1>5 DEF Import, filesVars, Streaming
<1>6. ASSUME UNCHANGED <<owner, disk, making, abandoned>> PROVE NothingLost /\ Newest(disk')
  BY <1>1, <1>6
<1> QED
  BY <1>2, <1>3, <1>4, <1>5, <1>6
     DEF BackupStep, WriteSecret, BeginRestore, Refuse, SafetyDump, ImportFails, Recrypt, RecryptFails, SameKey,
         RequestRestart, filesVars, lanesVars

\* A download that a stop cuts off is given up.
LEMMA StopInHand ==
    ASSUME BackupTypes, StampInv, Stop
    PROVE  NothingLost /\ Newest(disk')
<1>1. owner' = owner /\ disk' = disk
  BY DEF Stop, WatchLoop, Crash, Starts, Update, filesVars
<1>2. ASSUME NEW p \in Procs, Starts(p)
      PROVE  /\ abandoned \subseteq abandoned'
             /\ \A q \in Procs : Streaming(q) => making'[q] = making[q] \/ making[q].archive.id \in abandoned'
  <2>1. /\ abandoned' = abandoned \cup Streamed({p})
        /\ \A q \in Procs \ {p} : making'[q] = making[q]
    BY <1>2 DEF Starts, Done, BackupTypes
  <2> QED
    BY <2>1 DEF Streamed
<1>3. ASSUME Update
      PROVE  /\ abandoned \subseteq abandoned'
             /\ \A q \in Procs : Streaming(q) => making[q].archive.id \in abandoned'
  BY <1>3 DEF Update, Streamed
<1>4. \A a \in disk : \E b \in disk' : b.id >= a.id
  BY <1>1, ArchiveFields DEF BackupTypes
<1>5. (\E p \in Procs : Starts(p)) \/ Update
  BY DEF Stop, WatchLoop, Crash
<1> QED
  BY <1>1, <1>2, <1>3, <1>4, <1>5, HandsGrow DEF StampInv

LEMMA StepInHand ==
    ASSUME BackupConstants, NoticeConstants, Types, StampInv, [Next]_vars
    PROVE  NothingLost /\ Newest(disk')
<1>1. CASE Shop \/ Job \/ UNCHANGED vars
  <2>1. UNCHANGED <<owner, disk, making, abandoned>>
    BY <1>1, NoticesSpareServer DEF filesVars, lanesVars
  <2>2. \A a \in disk : \E b \in disk' : b.id >= a.id
    BY <2>1, ArchiveFields DEF Types, BackupTypes
  <2> QED
    BY <2>1, <2>2, HandsGrow DEF StampInv, Types
<1> QED
  BY <1>1, BackupInHand, StopInHand DEF Next, Types

\* Where the stamp of the database comes from.
LEMMA StampFrom ==
    ASSUME BackupConstants, NoticeConstants, Types, StampInv, [Next]_vars
    PROVE  \/ db'.stamp = db.stamp
           \/ \E a \in AllArchives : db'.stamp = a.stamp
           \/ \E p \in Procs : MarkBackupDone(p) /\ db'.stamp = making[p].archive.id
<1> USE DEF Types
<1>1. ASSUME NEW p \in Restorers, Import(p) PROVE \E a \in AllArchives : db'.stamp = a.stamp
  <2>1. /\ restoring[p].archive \in BackupArchive /\ restoring[p].archive \in AllArchives
        /\ db' = [f \in DOMAIN db |-> restoring[p].archive[f]] /\ db \in Database
    BY <1>1, ArchiveHolders DEF Import, BackupTypes, LanesTyped
  <2>2. db'.stamp = restoring[p].archive.stamp
    BY <2>1, ImportedDatabase
  <2> QED
    BY <2>1, <2>2
<1>2. ASSUME NEW p \in Procs, MarkBackupDone(p) PROVE db'.stamp = making[p].archive.id
  BY <1>2 DEF MarkBackupDone, BackupTypes, Database
<1>3. ASSUME NEW p \in Restorers, Recrypt(p) PROVE db'.stamp = db.stamp
  BY <1>3 DEF Recrypt, BackupTypes, Database
<1>4. ASSUME NEW s \in Secrets, WriteSecret(s) PROVE db'.stamp = db.stamp
  BY <1>4 DEF WriteSecret, BackupTypes, Database
<1>5. CASE BackupStep
  BY <1>1, <1>2, <1>3, <1>4, <1>5
     DEF BackupStep, CreateBackup, Dump, DumpFails, KeepOnDisk, TooLarge, SendBackup, SendFails, Stream, StreamFails,
         BeginRestore, Refuse, SafetyDump, ImportFails, RecryptFails, SameKey, RequestRestart
<1>6. CASE Stop
  BY <1>6 DEF Stop, WatchLoop, Crash, Starts, Update
<1>7. CASE Shop \/ Job \/ UNCHANGED vars
  BY <1>7, NoticesSpareServer
<1> QED
  BY <1>5, <1>6, <1>7 DEF Next

\* As Held, of the state after the step.
HeldLater(n) ==
    \/ n \in {0} \cup abandoned' \cup Streamed(Procs)'
    \/ \E a \in Delivered' : a.id >= n

LEMMA HeldStays ==
    ASSUME BackupTypes, BackupTypes', NothingLost
    PROVE  \A n \in Nat : Held(n) => HeldLater(n)
<1>1. \A a \in Delivered' : a.id \in Nat
  BY ArchiveFields DEF BackupTypes, Delivered
<1>2. \A a \in Delivered : a.id \in Nat
  BY ArchiveFields DEF BackupTypes, Delivered
<1> QED
  BY <1>1, <1>2 DEF Held, HeldLater, NothingLost

\* What is delivered is held.
LEMMA DeliveredIsHeld ==
    ASSUME BackupTypes, StampInv, NEW p \in Procs, KeepOnDisk(p) \/ SendBackup(p)
    PROVE  HeldLater(making[p].archive.id)
<1>1. making[p].at = "built" /\ making[p].archive.id \in Nat
  BY MakingStampTyped DEF KeepOnDisk, SendBackup, Built
<1>2. CASE KeepOnDisk(p)
  <2>1. disk' = Kept(disk \cup {making[p].archive})
    BY <1>2 DEF KeepOnDisk
  <2>2. \E b \in disk' : b.id >= making[p].archive.id
    BY <1>1, <2>1, KeptIsNewest, ArchiveFields DEF BackupTypes, StampInv
  <2> QED
    BY <2>2 DEF HeldLater, Delivered
<1>3. CASE SendBackup(p)
  BY <1>1, <1>3 DEF SendBackup, HeldLater, Delivered
<1> QED
  BY <1>2, <1>3

\* A download is being streamed when it has been stamped.
LEMMA StampedIsStreaming ==
    ASSUME BackupTypes, StampInv, NothingLost, BackupTypes', NEW p \in Procs, MarkBackupDone(p)
    PROVE  HeldLater(making[p].archive.id)
<1>1. making[p].at = "stamp" /\ making[p].archive.id \in Nat
  BY MakingStampTyped DEF MarkBackupDone
<1>2. CASE making[p].download
  <2>1. making'[p].at = "stream" /\ making'[p].archive = making[p].archive
    BY <1>2 DEF MarkBackupDone, Step, BackupTypes, Making
  <2> QED
    BY <1>1, <2>1 DEF HeldLater, Streamed, Streaming
<1>3. CASE ~making[p].download
  BY <1>1, <1>3, HeldStays DEF StampInv, MakingOne
<1> QED
  BY <1>2, <1>3

LEMMA MakingOneKept ==
    ASSUME BackupTypes, BackupTypes', StampInv, NothingLost, NEW q \in Procs,
           making'[q] = making[q] \/ making'[q] = Idle
    PROVE  MakingOne(q)'
<1>1. CASE making'[q] = Idle
  BY <1>1 DEF MakingOne, Idle
<1>2. CASE making'[q] = making[q]
  <2>1. making[q].at = "stamp" /\ ~making[q].download => HeldLater(making[q].archive.id)
    BY HeldStays, MakingStampTyped DEF StampInv, MakingOne
  <2> QED
    BY <1>2, <2>1 DEF StampInv, MakingOne, Held, HeldLater
<1> QED
  BY <1>1, <1>2

LEMMA MakingStays ==
    ASSUME BackupConstants, NoticeConstants, Types, Types', StampInv, NothingLost, [Next]_vars
    PROVE  \A q \in Procs : MakingOne(q)'
<1>0. BackupTypes /\ BackupTypes'
  BY DEF Types
<1>1. ASSUME \A q \in Procs : making'[q] = making[q] \/ making'[q] = Idle PROVE \A q \in Procs : MakingOne(q)'
  BY <1>0, <1>1, MakingOneKept
<1>2. ASSUME NEW p \in Procs, MakingOne(p)', \A q \in Procs \ {p} : making'[q] = making[q]
      PROVE  \A q \in Procs : MakingOne(q)'
  BY <1>0, <1>2, MakingOneKept
<1>3. ASSUME NEW p \in Procs, NEW download \in BOOLEAN, CreateBackup(p, download) PROVE \A q \in Procs : MakingOne(q)'
  <2>1. /\ making'[p].at = "dumping"
        /\ \A q \in Procs \ {p} : making'[q] = making[q]
    BY <1>0, <1>3 DEF CreateBackup, BackupTypes
  <2>2. MakingOne(p)'
    BY <1>0, <2>1 DEF MakingOne
  <2> QED
    BY <1>2, <2>1, <2>2
<1>4. ASSUME NEW p \in Procs, Dump(p) PROVE \A q \in Procs : MakingOne(q)'
  <2>1. /\ making[p].at = "dumping" /\ making'[p].download = making[p].download
        /\ making'[p].at = (IF making[p].download THEN "stamp" ELSE "built")
        /\ \A q \in Procs \ {p} : making'[q] = making[q]
    BY <1>0, <1>4 DEF Dump, BackupTypes, Making
  <2>2. MakingOne(p)'
    BY <1>0, <2>1 DEF MakingOne, StampInv
  <2> QED
    BY <1>2, <2>1, <2>2
<1>5. ASSUME NEW p \in Procs, KeepOnDisk(p) \/ SendBackup(p) PROVE \A q \in Procs : MakingOne(q)'
  <2>1. /\ making[p].at = "built" /\ making' = Step(p, "stamp")
    BY <1>5 DEF KeepOnDisk, SendBackup, Built
  <2>2. /\ making'[p].at = "stamp" /\ making'[p].download = making[p].download
        /\ making'[p].archive = making[p].archive
        /\ \A q \in Procs \ {p} : making'[q] = making[q]
    BY <1>0, <2>1 DEF Step, BackupTypes, Making
  <2>3. HeldLater(making[p].archive.id)
    BY <1>0, <1>5, DeliveredIsHeld
  <2>4. MakingOne(p)'
    BY <1>0, <2>1, <2>2, <2>3 DEF MakingOne, StampInv, Held, HeldLater
  <2> QED
    BY <1>2, <2>2, <2>4
<1>6. ASSUME NEW p \in Procs, MarkBackupDone(p) PROVE \A q \in Procs : MakingOne(q)'
  <2>1. CASE making[p].download
    <3>1. /\ making[p].at = "stamp" /\ making'[p].at = "stream" /\ making'[p].download = making[p].download
          /\ \A q \in Procs \ {p} : making'[q] = making[q]
      BY <1>0, <1>6, <2>1 DEF MarkBackupDone, Step, BackupTypes, Making
    <3>2. MakingOne(p)'
      BY <1>0, <2>1, <3>1 DEF MakingOne, StampInv
    <3> QED
      BY <1>2, <3>1, <3>2
  <2>2. CASE ~making[p].download
    BY <1>0, <1>1, <1>6, <2>2 DEF MarkBackupDone, Done, BackupTypes
  <2> QED
    BY <2>1, <2>2
<1>7. ASSUME NEW p \in Procs, DumpFails(p) \/ TooLarge(p) \/ SendFails(p) \/ Stream(p) \/ StreamFails(p)
      PROVE  \A q \in Procs : MakingOne(q)'
  BY <1>0, <1>1, <1>7 DEF DumpFails, TooLarge, SendFails, Stream, StreamFails, Done, BackupTypes
<1>8. ASSUME NEW p \in Restorers, Import(p) PROVE \A q \in Procs : MakingOne(q)'
  BY <1>1, <1>8 DEF Import
<1>9. CASE BackupStep
  BY <1>1, <1>3, <1>4, <1>5, <1>6, <1>7, <1>8, <1>9
     DEF BackupStep, WriteSecret, BeginRestore, Refuse, SafetyDump, ImportFails, Recrypt, RecryptFails, SameKey,
         RequestRestart, lanesVars
<1>10. CASE Stop
  BY <1>0, <1>1, <1>10 DEF Stop, WatchLoop, Crash, Starts, Update, Done, BackupTypes
<1>11. CASE Shop \/ Job \/ UNCHANGED vars
  BY <1>1, <1>11, NoticesSpareServer DEF Types, lanesVars
<1> QED
  BY <1>9, <1>10, <1>11 DEF Next

LEMMA StampStep ==
    ASSUME BackupConstants, NoticeConstants, Types, Types', StampInv, [Next]_vars
    PROVE  StampInv'
<1>0. NothingLost /\ Newest(disk') /\ BackupTypes /\ BackupTypes'
  BY StepInHand DEF Types
<1>1. \A n \in Nat : Held(n) => HeldLater(n)
  BY <1>0, HeldStays
<1>2. db.stamp \in Nat /\ Held(db.stamp)
  BY <1>0, DatabaseFields DEF BackupTypes, StampInv
<1>3. \A a \in AllArchives : a.stamp \in Nat /\ Held(a.stamp)
  BY <1>0, ArchiveIds DEF StampInv
<1>4. HeldLater(db'.stamp)
  <2>1. ASSUME NEW p \in Procs, MarkBackupDone(p) PROVE HeldLater(making[p].archive.id)
    BY <1>0, <2>1, StampedIsStreaming
  <2> QED
    BY <1>1, <1>2, <1>3, <2>1, StampFrom
<1>5. \A a \in AllArchives' : HeldLater(a.stamp)
  <2>1. \A p \in Procs : Archive(p).stamp = db.stamp
    BY DEF Archive
  <2> QED
    BY <1>1, <1>2, <1>3, <2>1, StepArchives
<1>6. \A p \in Procs : MakingOne(p)'
  BY <1>0, MakingStays
<1> QED
  BY <1>0, <1>4, <1>5, <1>6 DEF StampInv, Held, HeldLater

LEMMA StampInit ==
    ASSUME Types, Init
    PROVE  StampInv
<1>1. /\ \A a \in AllArchives : a.stamp = 0
      /\ db.stamp = 0 /\ disk = {} /\ \A p \in Procs : making[p] = Idle
  BY DEF Init, BackupInit, AllArchives, Delivered, InMaking, InRestore, Idle, NoRestore
<1> QED
  BY <1>1 DEF StampInv, MakingOne, Newest, Held, Idle

\* The time the health report shows as that of the last backup is never later than a
\* backup somebody holds, unless it is that of a download on its way or given up after it
\* was stamped: with any number of backups, restores (which bring old times back), failed
\* and abandoned deliveries, and crashes.  A backup that fails before it is stamped never
\* counts, and what counts is never lost but for something newer.
THEOREM LastBackupIsHeld == Spec => []StampedIsHeld
<1>1. Init => Types /\ StampInv
  BY InitTypes, StampInit, BackupConstants, NoticeConstants, NoticeWorlds
<1>2. Types /\ StampInv /\ [Next]_vars => (Types /\ StampInv)'
  <2>1. ASSUME Types, StampInv, [Next]_vars PROVE Types'
    BY <2>1, NextTypes, BackupConstants, NoticeConstants
  <2> QED
    BY <2>1, StampStep, BackupConstants, NoticeConstants
<1>3. Types /\ StampInv => StampedIsHeld
  BY DEF StampInv, Held, Delivered, StampedIsHeld
<1> QED
  BY <1>1, <1>2, <1>3, PTL DEF Spec

-----------------------------------------------------------------------------
(* A stamp means the customer was told.                                    *)

\* As ToldIn, of the state after the step.
ToldLater(row, o) ==
    /\ row.renewed <= clock' /\ \A k \in Kinds : row.stamp[k] <= clock'
    /\ \A k \in Kinds : row.stamp[k] # Never /\ row.renewed <= row.stamp[k] => <<o, k, row.renewed>> \in told'

LEMMA OrderFields ==
    ASSUME NoticeConstants, NEW row \in Order
    PROVE  row.renewed \in Nat /\ \A k \in Kinds : row.stamp[k] \in Int
  BY DEF Order, Never

LEMMA ArchivesHaveOrders ==
    ASSUME BackupTypes
    PROVE  \A a \in AllArchives : a.rows \in [Orders -> Order]
  BY ArchiveFields DEF BackupTypes, LanesTyped, AllArchives, Delivered, InMaking, InRestore

LEMMA ToldStays ==
    ASSUME NoticeConstants, Types, Types', told \subseteq told', clock <= clock'
    PROVE  \A o \in Orders, row \in Order : ToldIn(row, o) => ToldLater(row, o)
  BY OrderFields DEF ToldIn, ToldLater, Types, NoticeTypes, Periods

\* What was told and the time only grow.
LEMMA JobHistory ==
    ASSUME Job
    PROVE  told \subseteq told' /\ clock' = clock
<1>1. ASSUME NEW x \in sweep.due, Tell(x) PROVE told \subseteq told' /\ clock' = clock
  BY <1>1 DEF Tell, Reaches, SweepOnly
<1>2. ASSUME NEW x \in sweep.due, Fail(x) PROVE told \subseteq told' /\ clock' = clock
  BY <1>2 DEF Fail, Reaches, SweepOnly
<1>3. StartJob \/ Scan \/ Begin \/ Flush \/ EndSweep => told' = told /\ clock' = clock
  BY DEF StartJob, Scan, Begin, Flush, EndSweep, SweepOnly
<1> QED
  BY <1>1, <1>2, <1>3 DEF Job

LEMMA HistoryGrows ==
    ASSUME NoticeConstants, Types, [Next]_vars
    PROVE  told \subseteq told' /\ clock <= clock' /\ ("renew" \notin Ops => clock' = clock)
<1>0. clock \in Nat
  BY DEF Types, NoticeTypes, Periods
<1>1. CASE BackupStep /\ UNCHANGED noticeVars
  BY <1>0, <1>1 DEF noticeVars
<1>2. CASE Stop
  BY <1>0, <1>2 DEF Stop, SweepStops, noticeVars
<1>3. CASE Shop
  BY <1>0, <1>3, ShopSteps DEF RowStep, OrdersOnly
<1>4. CASE Job
  BY <1>0, <1>4, JobHistory
<1>5. CASE UNCHANGED vars
  BY <1>0, <1>5 DEF vars, noticeVars
<1> QED
  BY <1>1, <1>2, <1>3, <1>4, <1>5 DEF Next

LEMMA NobodyRestores ==
    ASSUME BackupConstants, NoticeConstants, Types, ToldInv, "restore" \notin world.ops, [Next]_vars
    PROVE  \A p \in Restorers : restoring'[p] = NoRestore
<1>1. \A p \in Restorers : restoring[p] = NoRestore
  BY DEF ToldInv
<1>2. CASE BackupStep
  <2>1. ASSUME NEW p \in Restorers,
               \/ \E a \in owner \cup disk : BeginRestore(p, a)
               \/ Refuse(p) \/ SafetyDump(p) \/ Import(p) \/ ImportFails(p) \/ Recrypt(p) \/ RecryptFails(p)
               \/ SameKey(p) \/ RequestRestart(p)
        PROVE  FALSE
    <3>1. restoring[p].at = "idle" /\ "restore" \notin Ops
      BY <1>1 DEF NoRestore, Ops
    <3> QED
      BY <2>1, <3>1 DEF BeginRestore, Refuse, SafetyDump, Import, ImportFails, Recrypt, RecryptFails, SameKey, RequestRestart
  <2>2. restoring' = restoring
    BY <1>2, <2>1
       DEF BackupStep, WriteSecret, CreateBackup, Dump, DumpFails, KeepOnDisk, TooLarge, SendBackup, SendFails,
           MarkBackupDone, Stream, StreamFails, lanesVars
  <2> QED
    BY <1>1, <2>2
<1>3. CASE Stop
  BY <1>1, <1>3 DEF Stop, WatchLoop, Crash, Starts, Update
<1>4. CASE Shop \/ Job \/ UNCHANGED vars
  BY <1>1, <1>4, NoticesSpareServer DEF lanesVars
<1> QED
  BY <1>2, <1>3, <1>4 DEF Next

\* Backups and restores leave every order told as far as its row says, and in its period.
LEMMA BackupsKeepRows ==
    ASSUME BackupConstants, NoticeConstants, Types, ToldInv, BackupStep
    PROVE  /\ \A o \in Orders : db'.rows[o].renewed = db.rows[o].renewed
           /\ \A o \in Orders : ToldIn(db'.rows[o], o)
<1>1. ASSUME NEW p \in Restorers, Import(p)
      PROVE  /\ \A o \in Orders : db'.rows[o].renewed = db.rows[o].renewed
             /\ \A o \in Orders : ToldIn(db'.rows[o], o)
  <2>1. /\ restoring[p].archive \in BackupArchive /\ restoring[p].archive \in AllArchives
        /\ db' = [f \in DOMAIN db |-> restoring[p].archive[f]] /\ db \in Database
    BY <1>1, ArchiveHolders DEF Import, Types, BackupTypes, LanesTyped
  <2>2. db'.rows = restoring[p].archive.rows
    BY <2>1, ImportedDatabase
  <2>3. clock = 0
    BY <1>1 DEF Import, NoRestore, ToldInv, NoticesCareful
  <2>4. \A o \in Orders : ToldIn(db'.rows[o], o) /\ ToldIn(db.rows[o], o)
    BY <2>1, <2>2 DEF ToldInv, RowsTold
  <2>5. \A o \in Orders : db'.rows[o] \in Order /\ db.rows[o] \in Order
    BY <2>1, <2>2, ArchiveFields, DatabaseFields
  <2> QED
    BY <2>3, <2>4, <2>5, OrderFields DEF ToldIn
<1>2. ASSUME db'.rows = db.rows
      PROVE  /\ \A o \in Orders : db'.rows[o].renewed = db.rows[o].renewed
             /\ \A o \in Orders : ToldIn(db'.rows[o], o)
  BY <1>2 DEF ToldInv, RowsTold
<1>3. db \in Database
  BY DEF Types, BackupTypes
<1>4. ASSUME NEW p \in Procs, MarkBackupDone(p) PROVE db'.rows = db.rows
  BY <1>3, <1>4 DEF MarkBackupDone, Database
<1>5. ASSUME NEW p \in Restorers, Recrypt(p) PROVE db'.rows = db.rows
  BY <1>3, <1>5 DEF Recrypt, Database
<1>6. ASSUME NEW s \in Secrets, WriteSecret(s) PROVE db'.rows = db.rows
  BY <1>3, <1>6 DEF WriteSecret, Database
<1> QED
  BY <1>1, <1>2, <1>4, <1>5, <1>6
     DEF BackupStep, CreateBackup, Dump, DumpFails, KeepOnDisk, TooLarge, SendBackup, SendFails, Stream, StreamFails,
         BeginRestore, Refuse, SafetyDump, ImportFails, RecryptFails, SameKey, RequestRestart

\* A renewal comes after every stamp, and after the time of the sweep that goes on.
LEMMA ShopKeepsTold ==
    ASSUME BackupConstants, NoticeConstants, Types, Types', ToldInv, Shop
    PROVE  (\A o \in Orders : ToldLater(db'.rows[o], o)) /\ SweepTold'
<1>1. PICK o \in Orders, row \in Order : RowStep(o, row) /\ SetRow(o, row) /\ OrdersOnly
  BY ShopSteps
<1>2. db'.rows = [db.rows EXCEPT ![o] = row]
  BY <1>1, SetRowTypes DEF OrdersOnly, Types, NewRows
<1>3. db.rows \in [Orders -> Order] /\ Row(o) \in Order
  BY DatabaseFields, RowIsOrder DEF Types, BackupTypes
<1>4. \A x \in Orders : db'.rows[x] = IF x = o THEN row ELSE Row(x)
  BY <1>2, <1>3 DEF Row
<1>5. told' = told /\ sweep' = sweep /\ clock \in Nat /\ sweep.now \in Nat
  BY <1>1 DEF OrdersOnly, Types, NoticeTypes, Sweep, Periods
<1>6. \A x \in Orders : ToldIn(Row(x), x) /\ ToldLater(Row(x), x)
  <2>1. told \subseteq told' /\ clock <= clock'
    BY <1>1, <1>5 DEF RowStep
  <2>2. \A x \in Orders : Row(x) \in Order /\ ToldIn(Row(x), x)
    BY RowIsOrder DEF Types, ToldInv, RowsTold, Row
  <2> QED
    BY <2>1, <2>2, ToldStays
<1>7. ToldLater(row, o)
  <2>1. CASE row.renewed = Row(o).renewed
    BY <1>1, <1>6, <2>1 DEF RowStep, ToldLater
  <2>2. CASE row.renewed = clock + 1 /\ clock' = clock + 1
    BY <1>1, <1>3, <1>5, <1>6, <2>2, OrderFields DEF RowStep, ToldIn, ToldLater
  <2> QED
    BY <1>1, <2>1, <2>2 DEF RowStep
<1>8. SweepTold'
  <2>1. \A x \in Orders : \/ db'.rows[x].renewed = Row(x).renewed
                          \/ db'.rows[x].renewed = clock + 1 /\ sweep.at # "due"
    BY <1>1, <1>4 DEF RowStep, ToldInv, NoticesCareful, Ops
  <2>2. clock <= clock' /\ clock' \in Nat /\ Kind' = Kind
    BY <1>1, <1>5 DEF RowStep, Kind
  <2>3. \A x \in sweep.due : x[1] \in Orders
    BY DEF Types, NoticeTypes, Sweep
  <2>4. sweep.stamped \subseteq Orders
    BY DEF Types, NoticeTypes, Sweep
  <2> QED
    BY <1>5, <2>1, <2>2, <2>3, <2>4 DEF ToldInv, SweepTold, Row
<1> QED
  BY <1>4, <1>6, <1>7, <1>8

\* What the job does to the orders it has stamped.
LEMMA FlushKeepsTold ==
    ASSUME NoticeConstants, Types, ToldInv, sweep.at = "send", NEW o \in Orders
    PROVE  ToldIn(Flushed[o], o)
<1>1. ToldIn(Row(o), o) /\ Row(o) \in Order /\ sweep.now \in Nat /\ clock \in Nat /\ sweep.now <= clock
  BY RowIsOrder DEF Types, NoticeTypes, Sweep, Periods, ToldInv, RowsTold, Row, SweepTold
<1>2. o \in sweep.stamped => Row(o).renewed > sweep.now \/ <<o, Kind, Row(o).renewed>> \in told
  BY DEF ToldInv, SweepTold
<1> QED
  BY <1>1, <1>2, FlushedRow, OrderFields DEF ToldIn

LEMMA JobKeepsTold ==
    ASSUME BackupConstants, NoticeConstants, Types, Types', ToldInv, Job
    PROVE  (\A o \in Orders : ToldLater(db'.rows[o], o)) /\ SweepTold'
<1>0. clock' = clock /\ told \subseteq told' /\ clock \in Nat /\ sweep.now \in Nat
  BY JobHistory DEF Types, NoticeTypes, Sweep, Periods
<1>1. \A o \in Orders : db'.rows[o].renewed = Row(o).renewed
  <2>1. CASE db' = db
    BY <2>1 DEF Row
  <2>2. CASE db' # db
    BY <2>2, JobRows, FlushedRow DEF NewRows
  <2> QED
    BY <2>1, <2>2
<1>2. \A o \in Orders : ToldLater(db'.rows[o], o)
  <2>1. \A o \in Orders : ToldIn(db'.rows[o], o)
    <3>1. CASE db' = db
      BY <3>1 DEF ToldInv, RowsTold
    <3>2. CASE db' # db
      BY <3>2, JobRows, FlushKeepsTold DEF NewRows
    <3> QED
      BY <3>1, <3>2
  <2>2. \A o \in Orders : db'.rows[o] \in Order
    BY DatabaseFields DEF Types, BackupTypes
  <2>3. clock <= clock'
    BY <1>0
  <2> QED
    BY <1>0, <2>1, <2>2, <2>3, ToldStays
<1> SUFFICES SweepTold'
  BY <1>2
<1>3. /\ \A x \in sweep.due : x[1] \in Orders /\ x[2] \in Nat
      /\ sweep.stamped \subseteq Orders /\ sweep \in Sweep /\ SweepTold
  BY DEF Types, NoticeTypes, Sweep, Periods, ToldInv
<1>4. ASSUME sweep'.now = 0, sweep'.stamped = {}, sweep'.at \notin {"due", "send"} PROVE SweepTold'
  BY <1>0, <1>4 DEF SweepTold
<1>5. NextKind.now = 0 /\ NextKind.stamped = {} /\ NextKind.at \notin {"due", "send"}
  BY DEF NextKind, Off
<1>6. CASE StartJob
  <2>1. sweep' = [at |-> "scan", n |-> 1, due |-> {}, now |-> 0, stamped |-> {}]
    BY <1>6 DEF StartJob, Off
  <2> QED
    BY <1>4, <2>1
<1>7. CASE Scan
  <2>1. sweep' = NextKind \/ sweep' = [sweep EXCEPT !.at = "due", !.due = DueNow]
    BY <1>7 DEF Scan, DueNow
  <2>2. CASE sweep' = [sweep EXCEPT !.at = "due", !.due = DueNow]
    <3>1. sweep'.at = "due" /\ sweep'.due = DueNow /\ sweep'.now = sweep.now /\ sweep'.stamped = sweep.stamped
      BY <1>3, <2>2 DEF Sweep
    <3>2. sweep.at = "scan"
      BY <1>7 DEF Scan
    <3> QED
      BY <1>0, <1>1, <1>3, <3>1, <3>2, DueNowPairs DEF SweepTold, Row
  <2> QED
    BY <1>4, <1>5, <2>1, <2>2
<1>8. CASE Begin
  <2>1. /\ sweep'.at = "send" /\ sweep'.due = sweep.due /\ sweep'.now = clock
        /\ sweep'.stamped = sweep.stamped /\ sweep.at = "due"
    BY <1>3, <1>8 DEF Begin, Sweep
  <2> QED
    BY <1>0, <1>1, <1>3, <2>1 DEF SweepTold, Row
<1>9. CASE Flush
  <2>1. /\ sweep'.at = "send" /\ sweep'.due = sweep.due /\ sweep'.now = sweep.now
        /\ sweep'.stamped = {} /\ sweep.at = "send"
    BY <1>3, <1>9 DEF Flush, Sweep
  <2> QED
    BY <1>0, <1>1, <1>3, <2>1 DEF SweepTold, Row
<1>10. CASE EndSweep
  BY <1>4, <1>5, <1>10 DEF EndSweep
<1>11. ASSUME NEW x \in sweep.due, Tell(x) \/ Fail(x) PROVE SweepTold'
  <2>1. /\ sweep.at = "send" /\ sweep'.at = "send" /\ sweep'.due = sweep.due \ {x}
        /\ sweep'.now = sweep.now /\ Kind' = Kind
    BY <1>3, <1>11 DEF Tell, Fail, Sending, Kind, Sweep
  <2>2. \/ sweep'.stamped = sweep.stamped
        \/ sweep'.stamped = sweep.stamped \cup {x[1]} /\ <<x[1], Kind, x[2]>> \in told'
    BY <1>3, <1>11 DEF Tell, Fail, Reaches, Notice, Sweep
  <2>3. x[1] \in Orders /\ (Row(x[1]).renewed = x[2] \/ Row(x[1]).renewed > sweep.now)
    BY <1>3, <2>1 DEF SweepTold
  <2> QED
    BY <1>0, <1>1, <1>3, <2>1, <2>2, <2>3 DEF SweepTold, Row
<1> QED
  BY <1>6, <1>7, <1>8, <1>9, <1>10, <1>11 DEF Job

LEMMA ToldStep ==
    ASSUME BackupConstants, NoticeConstants, Types, Types', ToldInv, [Next]_vars
    PROVE  ToldInv'
<1>0. /\ told \subseteq told' /\ clock <= clock' /\ world'.ops = world.ops
      /\ \A o \in Orders, row \in Order : ToldIn(row, o) => ToldLater(row, o)
  BY HistoryGrows, ToldStays, WorldStays
<1>1. NoticesCareful(world') /\ ("renew" \notin world'.ops => clock' = 0)
  BY <1>0, HistoryGrows DEF ToldInv, NoticesCareful, Ops
<1>2. "restore" \notin world'.ops => \A p \in Restorers : restoring'[p] = NoRestore
  BY <1>0, NobodyRestores
<1>3. \A o \in Orders : db.rows[o] \in Order /\ db'.rows[o] \in Order
  BY DatabaseFields DEF Types, BackupTypes
<1>4. (\A o \in Orders : ToldLater(db'.rows[o], o)) /\ SweepTold'
  <2>1. CASE BackupStep /\ UNCHANGED noticeVars
    <3>1. /\ \A o \in Orders : db'.rows[o].renewed = Row(o).renewed
          /\ \A o \in Orders : ToldIn(db'.rows[o], o)
      BY <2>1, BackupsKeepRows DEF Row
    <3>2. (\A x \in sweep.due : x[1] \in Orders) /\ sweep.stamped \subseteq Orders
      BY DEF Types, NoticeTypes, Sweep
    <3>3. SweepTold'
      BY <2>1, <3>1, <3>2 DEF ToldInv, SweepTold, noticeVars, Row, Kind
    <3> QED
      BY <1>0, <1>3, <3>1, <3>3
  <2>2. CASE Stop
    <3>1. db' = db /\ clock' = clock /\ told' = told
      BY <2>2 DEF Stop, WatchLoop, Crash, Starts, Update, SweepStops, noticeVars
    <3>2. sweep' = sweep \/ sweep' = Off
      BY <2>2 DEF Stop, SweepStops, noticeVars
    <3>3. SweepTold'
      BY <3>1, <3>2 DEF ToldInv, SweepTold, Row, Kind, Off, Types, NoticeTypes, Periods
    <3> QED
      BY <1>0, <1>3, <3>1, <3>3 DEF ToldInv, RowsTold
  <2>3. CASE Shop
    BY <2>3, ShopKeepsTold
  <2>4. CASE Job
    BY <2>4, JobKeepsTold
  <2>5. CASE UNCHANGED vars
    <3>1. UNCHANGED <<db, clock, told, sweep>>
      BY <2>5 DEF vars, backupVars, noticeVars
    <3>2. SweepTold'
      BY <3>1 DEF ToldInv, SweepTold, Row, Kind
    <3> QED
      BY <1>0, <1>3, <3>1, <3>2 DEF ToldInv, RowsTold
  <2> QED
    BY <2>1, <2>2, <2>3, <2>4, <2>5 DEF Next
<1>5. \A a \in AllArchives' : \A o \in Orders : ToldLater(a.rows[o], o)
  <2>1. \A a \in AllArchives : \A o \in Orders : a.rows[o] \in Order /\ ToldIn(a.rows[o], o)
    BY ArchivesHaveOrders DEF Types, ToldInv, RowsTold
  <2>2. \A p \in Procs : \A o \in Orders : Archive(p).rows[o] \in Order /\ ToldIn(Archive(p).rows[o], o)
    BY <1>3 DEF Archive, ToldInv, RowsTold
  <2> QED
    BY <1>0, <2>1, <2>2, StepArchives
<1> QED
  BY <1>1, <1>2, <1>4, <1>5 DEF ToldInv, RowsTold, ToldIn, ToldLater

\* In no world does a renewal commit between a scan and the time of its sweep, and no
\* order is renewed where a restore may take the renewal back.
NoticesSafe == \A w \in Worlds : NoticesCareful(w)

LEMMA ToldInit ==
    ASSUME NoticesSafe, NoticeConstants, Types, Init
    PROVE  ToldInv
<1>1. world \in Worlds /\ clock = 0 /\ sweep = Off /\ \A p \in Restorers : restoring[p] = NoRestore
  BY DEF Init, BackupInit
<1>2. \A o \in Orders : ToldIn(NewOrder(o), o)
  BY <1>1 DEF NewOrder, ToldIn, Never
<1>3. RowsTold(db.rows) /\ \A a \in AllArchives : RowsTold(a.rows)
  BY <1>2 DEF Init, BackupInit, AllArchives, Delivered, InMaking, InRestore, Idle, NoRestore, RowsTold
<1> QED
  BY <1>1, <1>3 DEF ToldInv, NoticesSafe, SweepTold, Off

\* An order that counts as notified for its period is one whose customer was told, or
\* cannot be told, in it, whatever fails, stops or is restored and however the batches
\* fall: if no renewal falls between a scan and the time its sweep then takes, and if
\* restores do not take renewals back.
THEOREM StampedMeansTold ==
    ASSUME NoticesSafe
    PROVE  Spec => []StampMeansTold
<1>1. Init => Types /\ ToldInv
  BY InitTypes, ToldInit, BackupConstants, NoticeConstants, NoticeWorlds
<1>2. Types /\ ToldInv /\ [Next]_vars => (Types /\ ToldInv)'
  <2>1. ASSUME Types, ToldInv, [Next]_vars PROVE Types'
    BY <2>1, NextTypes, BackupConstants, NoticeConstants
  <2> QED
    BY <2>1, ToldStep, BackupConstants, NoticeConstants
<1>3. Types /\ ToldInv => StampMeansTold
  <2>1. ASSUME Types, ToldInv, NEW o \in Orders PROVE Row(o) \in Order /\ ToldIn(Row(o), o)
    BY <2>1, RowIsOrder DEF Types, ToldInv, RowsTold, Row
  <2> QED
    BY <2>1, OrderFields, NoticeConstants DEF StampMeansTold, NeedsAlert, ToldIn
<1> QED
  BY <1>1, <1>2, <1>3, PTL DEF Spec

-----------------------------------------------------------------------------
(* Nobody is told the same thing twice, but for stops and restores.        *)

FiniteOrders == IsFiniteSet(Orders)

LEMMA Multiples ==
    /\ \A c, m, n \in Nat : m <= n => c * m <= c * n
    /\ \A c, m \in Nat : c * (m + 1) = c * m + c
<1>1. \A c, m \in Nat : c * (m + 1) = c * m + c
  BY SMT
<1>2. \A c, m, n \in Nat : m <= n => c * m <= c * n
  <2>1. SUFFICES ASSUME NEW c \in Nat, NEW m \in Nat, NEW n \in Nat, m <= n PROVE c * m <= c * n
    OBVIOUS
  <2>2. PICK d \in Nat : n = m + d
    <3>1. n - m \in Nat /\ n = m + (n - m)
      BY <2>1
    <3> QED
      BY <3>1
  <2>3. c * n = c * m + c * d
    BY <2>2, SMT
  <2>4. c * d \in Nat /\ c * m \in Nat
    BY SMT
  <2> QED
    BY <2>3, <2>4
<1> QED
  BY <1>1, <1>2

LEMMA RewindsNat ==
    ASSUME FiniteOrders
    PROVE  Rewinds \in Nat /\ IsFiniteSet(Orders \X Kinds) /\ Cardinality(Orders \X Kinds) = Rewinds
<1>1. IsFiniteSet(Kinds)
  <2>1. Kinds = {"expiring"} \cup {"trial ended"} \cup {"usage high"} \cup {"expired"}
    BY DEF Kinds
  <2>2. IsFiniteSet({"expiring"} \cup {"trial ended"})
    BY FS_Singleton, FS_AddElement
  <2>3. IsFiniteSet({"expiring"} \cup {"trial ended"} \cup {"usage high"})
    BY <2>2, FS_AddElement
  <2> QED
    BY <2>1, <2>3, FS_AddElement
<1>2. IsFiniteSet(Orders \X Kinds) /\ Cardinality(Orders \X Kinds) = Rewinds
  BY <1>1, FS_Product DEF FiniteOrders, Rewinds
<1> QED
  BY <1>2, FS_CardinalityType

LEMMA RepeatableFinite ==
    ASSUME ToldTyped
    PROVE  /\ IsFiniteSet(Repeatable) /\ Cardinality(Repeatable) \in Nat
           /\ \A R \in SUBSET Repeatable : IsFiniteSet(R) /\ Cardinality(R) \in Nat
                                           /\ Cardinality(R) <= Cardinality(Repeatable)
<1>1. Repeatable \in SUBSET told
  BY DEF Repeatable
<1>2. IsFiniteSet(Repeatable)
  BY <1>1, FS_Subset DEF ToldTyped
<1> QED
  BY <1>2, FS_Subset, FS_CardinalityType

LEMMA RepeatableNextFinite ==
    ASSUME ToldTyped'
    PROVE  Cardinality(Repeatable') \in Nat
<1>1. Repeatable' \in SUBSET told' /\ IsFiniteSet(told')
  BY DEF Repeatable, ToldTyped
<1> QED
  BY <1>1, FS_Subset, FS_CardinalityType

LEMMA StampedFinite ==
    ASSUME Types, FiniteOrders
    PROVE  IsFiniteSet(sweep.stamped) /\ Cardinality(sweep.stamped) \in Nat
<1>1. sweep.stamped \in SUBSET Orders
  BY DEF Types, NoticeTypes, Sweep
<1> QED
  BY <1>1, FS_Subset, FS_CardinalityType DEF FiniteOrders

\* What makes nothing repeatable leaves the count as it is.
LEMMA CountStays ==
    ASSUME NoticeConstants, FiniteOrders, Types, Types', OnceInv, ToldTyped',
           again' = again, unsure' = unsure, stops' = stops, Imports <= Imports',
           Repeatable' \subseteq Repeatable, sweep'.stamped \subseteq sweep.stamped
    PROVE  OnceInv'
<1>1. Cardinality(Repeatable') \in Nat /\ Cardinality(Repeatable') <= Cardinality(Repeatable)
  BY RepeatableFinite DEF OnceInv
<1>2. Rewinds * Imports <= Rewinds * Imports' /\ Rewinds * Imports \in Nat /\ Rewinds * Imports' \in Nat
  BY Multiples, RewindsNat DEF OnceInv, ToldTyped
<1>3. Batch * stops \in Nat
  BY NoticeConstants DEF OnceInv, ToldTyped
<1>4. Cardinality(sweep'.stamped) <= Cardinality(sweep.stamped) /\ Cardinality(sweep'.stamped) \in Nat
      /\ Cardinality(sweep.stamped) \in Nat
  BY StampedFinite, FS_Subset, FS_CardinalityType
<1>5. again \in Nat /\ unsure \in Nat /\ Cardinality(Repeatable) \in Nat
  BY RepeatableFinite DEF OnceInv, ToldTyped
<1> QED
  BY <1>1, <1>2, <1>3, <1>4, <1>5, NoticeConstants DEF OnceInv

\* An import is one of the restores that began.
LEMMA ImportCounts ==
    ASSUME Types, ToldTyped, NEW p \in Restorers, Import(p)
    PROVE  Imports' = Imports + 1
<1> USE DEF Waits, Restorers, Types
<1>0. begun \in Nat /\ Imports \in Nat
  BY DEF BackupTypes, ToldTyped
<1>1. PICK hit \in SUBSET (MidRestore \ {p}) :
        restoring' = [q \in Restorers |-> IF q = p THEN [restoring[p] EXCEPT !.at = "imported"]
                                          ELSE IF q \in hit THEN [restoring[q] EXCEPT !.at = "cut"]
                                          ELSE restoring[q]]
  BY DEF Import
<1>2. /\ begun' = begun /\ restoring[p].at = "dumped" /\ restoring'[p].at = "imported"
      /\ \A q \in Restorers \ {p} : Waits(q)' = Waits(q)
  BY <1>1 DEF Import, BackupTypes, Restoring, MidRestore
<1> QED
  BY <1>0, <1>2 DEF Imports

\* A restore waits for its import at most once.
LEMMA WaitsStep ==
    ASSUME BackupConstants, NoticeConstants, Types, ToldTyped, [Next]_vars
    PROVE  Imports' \in Nat /\ Imports <= Imports'
<1> USE DEF Waits, Restorers, Types
<1>0. begun \in Nat /\ Imports \in Nat
  BY DEF BackupTypes, ToldTyped
<1>1. ASSUME NEW p \in Restorers, NEW a \in owner \cup disk, BeginRestore(p, a) PROVE Imports' = Imports
  <2>1. /\ begun' = begun + 1 /\ restoring[p].at = "idle" /\ restoring'[p].at = "opening"
        /\ \A q \in Restorers \ {p} : restoring'[q] = restoring[q]
    BY <1>1 DEF BeginRestore, BackupTypes, NoRestore
  <2> QED
    BY <1>0, <2>1 DEF Imports
<1>2. ASSUME begun' = begun, restoring' = restoring PROVE Imports' = Imports
  BY <1>2 DEF Imports
<1>3. ASSUME begun' = begun, \A q \in Restorers : Waits(q)' <= Waits(q) PROVE Imports' \in Nat /\ Imports <= Imports'
  BY <1>0, <1>3 DEF Imports
<1>4. ASSUME NEW p \in Restorers, Import(p) PROVE Imports' = Imports + 1
  BY <1>4, ImportCounts
<1>5. ASSUME NEW p \in Restorers, \/ Refuse(p) \/ SafetyDump(p) \/ ImportFails(p) \/ Recrypt(p) \/ RecryptFails(p)
                                  \/ SameKey(p) \/ RequestRestart(p)
      PROVE  begun' = begun /\ \A q \in Restorers : Waits(q)' <= Waits(q)
  <2>1. /\ begun' = begun
        /\ \/ restoring' = [restoring EXCEPT ![p] = NoRestore]
           \/ restoring' = At(p, "keyed")
           \/ restoring' = At(p, "dumped") /\ restoring[p].at = "opening"
    BY <1>5 DEF Refuse, SafetyDump, ImportFails, Recrypt, RecryptFails, SameKey, RequestRestart
  <2> QED
    BY <2>1 DEF At, NoRestore, BackupTypes, Restoring
<1>6. CASE BackupStep
  <2>1. ASSUME NEW p \in Procs,
               \/ \E download \in BOOLEAN : CreateBackup(p, download)
               \/ Dump(p) \/ DumpFails(p) \/ KeepOnDisk(p) \/ TooLarge(p) \/ SendBackup(p) \/ SendFails(p)
               \/ MarkBackupDone(p) \/ Stream(p) \/ StreamFails(p)
        PROVE  begun' = begun /\ restoring' = restoring
    BY <2>1 DEF CreateBackup, Dump, DumpFails, KeepOnDisk, TooLarge, SendBackup, SendFails, MarkBackupDone, Stream,
           StreamFails
  <2>2. ASSUME NEW s \in Secrets, WriteSecret(s) PROVE begun' = begun /\ restoring' = restoring
    BY <2>2 DEF WriteSecret, lanesVars
  <2> QED
    BY <1>0, <1>1, <1>2, <1>3, <1>4, <1>5, <1>6, <2>1, <2>2 DEF BackupStep
<1>7. CASE Stop
  <2>1. begun' = begun /\ \A q \in Restorers : restoring'[q] = NoRestore \/ restoring'[q] = restoring[q]
    BY <1>7 DEF Stop, WatchLoop, Crash, Starts, Update
  <2>2. \A q \in Restorers : Waits(q)' <= Waits(q)
    BY <2>1 DEF NoRestore
  <2> QED
    BY <1>3, <2>1, <2>2
<1>8. CASE Shop \/ Job \/ UNCHANGED vars
  BY <1>0, <1>2, <1>8, NoticesSpareServer DEF lanesVars
<1> QED
  BY <1>6, <1>7, <1>8 DEF Next

\* The types of what was told follow the step.
LEMMA ToldTypedStays ==
    ASSUME BackupConstants, NoticeConstants, Types, Types', OnceInv, [Next]_vars, told' = told,
           again' = again, unsure' = unsure, stops' \in Nat, sweep' = sweep \/ (sweep'.at # "send" /\ sweep'.due = {})
    PROVE  ToldTyped'
<1>1. clock <= clock' /\ clock \in Nat /\ clock' \in Nat
  BY HistoryGrows DEF Types, NoticeTypes, Periods
<1>2. (\A n \in told : n[3] \in Nat) /\ \A x \in sweep.due : x[2] \in Nat
  BY DEF OnceInv, ToldTyped, Types, NoticeTypes, Sweep, Periods
<1> QED
  BY <1>1, <1>2, WaitsStep DEF OnceInv, ToldTyped

\* What stays of a row decides what is open.
LEMMA OpenRows ==
    ASSUME OnceInv, told' = told, sweep' = sweep,
           \A o \in Orders : \/ db'.rows[o].renewed = db.rows[o].renewed /\ db'.rows[o].stamp = db.rows[o].stamp
                             \/ \A n \in told : n[3] # db'.rows[o].renewed
    PROVE  Repeatable' \subseteq Repeatable
<1>1. \A n \in told : n[1] \in Orders
  BY DEF OnceInv, ToldTyped
<1>2. Kind' = Kind
  BY DEF Kind
<1>3. ASSUME NEW n \in told, Open(n)' PROVE Open(n)
  BY <1>1, <1>2, <1>3 DEF Open, NeedsAlert, Row
<1>4. ASSUME NEW n \in told, Awaits(n)' PROVE Awaits(n)
  BY <1>2, <1>4 DEF Awaits
<1> QED
  BY <1>3, <1>4 DEF Repeatable

\* An import makes at most one notice of each kind for each order repeatable.
LEMMA ImportCount ==
    ASSUME FiniteOrders, BackupConstants, NoticeConstants, Types, Types', ToldInv, OnceInv, NEW p \in Restorers, Import(p),
           BackupStep, UNCHANGED noticeVars, ToldTyped'
    PROVE  OnceInv'
<1>1. clock = 0 /\ sweep' = sweep /\ told' = told /\ again' = again /\ unsure' = unsure /\ stops' = stops
  BY DEF Import, NoRestore, ToldInv, NoticesCareful, noticeVars
<1>2. \A n \in Repeatable' : n[1] \in Orders /\ n[2] \in Kinds /\ n[3] = 0 /\ n = <<n[1], n[2], n[3]>>
  BY <1>1 DEF Repeatable, OnceInv, ToldTyped, Periods
<1> DEFINE f == [n \in Repeatable' |-> <<n[1], n[2]>>]
<1>3. f \in Injection(Repeatable', Orders \X Kinds)
  BY <1>2 DEF Injection, IsInjective
<1> HIDE DEF f
<1>4. Cardinality(Repeatable') <= Rewinds
  BY <1>3, RewindsNat, FS_Injection
<1>5. Imports' = Imports + 1 /\ Imports \in Nat /\ Rewinds * (Imports + 1) = Rewinds * Imports + Rewinds
  BY ImportCounts, Multiples, RewindsNat DEF OnceInv, ToldTyped
<1>6. Batch * stops \in Nat /\ again \in Nat /\ unsure \in Nat /\ Rewinds * Imports \in Nat /\ Rewinds \in Nat
  BY <1>5, NoticeConstants, RewindsNat DEF OnceInv, ToldTyped
<1>7. Cardinality(Repeatable) \in Nat /\ Cardinality(Repeatable') \in Nat
  BY RepeatableFinite, RepeatableNextFinite DEF OnceInv
<1> QED
  BY <1>1, <1>4, <1>5, <1>6, <1>7 DEF OnceInv

LEMMA BackupOnce ==
    ASSUME FiniteOrders, BackupConstants, NoticeConstants, Types, Types', ToldInv, OnceInv, [Next]_vars,
           BackupStep, UNCHANGED noticeVars
    PROVE  OnceInv'
<1>1. sweep' = sweep /\ told' = told /\ again' = again /\ unsure' = unsure /\ stops' = stops /\ stops' \in Nat
  BY DEF noticeVars, OnceInv, ToldTyped
<1>2. ToldTyped'
  BY <1>1, ToldTypedStays
<1>3. ASSUME NEW p \in Restorers, Import(p) PROVE OnceInv'
  BY <1>2, <1>3, ImportCount
<1>4. ASSUME db'.rows = db.rows PROVE OnceInv'
  <2>1. Repeatable' \subseteq Repeatable
    BY <1>1, <1>4, OpenRows
  <2> QED
    BY <1>1, <1>2, <2>1, CountStays, WaitsStep DEF OnceInv
<1>5. db \in Database
  BY DEF Types, BackupTypes
<1>6. ASSUME NEW p \in Procs, MarkBackupDone(p) PROVE db'.rows = db.rows
  BY <1>5, <1>6 DEF MarkBackupDone, Database
<1>7. ASSUME NEW p \in Restorers, Recrypt(p) PROVE db'.rows = db.rows
  BY <1>5, <1>7 DEF Recrypt, Database
<1>8. ASSUME NEW s \in Secrets, WriteSecret(s) PROVE db'.rows = db.rows
  BY <1>5, <1>8 DEF WriteSecret, Database
<1> QED
  BY <1>3, <1>4, <1>6, <1>7, <1>8
     DEF BackupStep, CreateBackup, Dump, DumpFails, KeepOnDisk, TooLarge, SendBackup, SendFails, Stream, StreamFails,
         BeginRestore, Refuse, SafetyDump, ImportFails, RecryptFails, SameKey, RequestRestart

\* A renewal opens a period nobody was told of.
LEMMA ShopOnce ==
    ASSUME FiniteOrders, BackupConstants, NoticeConstants, Types, Types', OnceInv, [Next]_vars, Shop
    PROVE  OnceInv'
<1>1. PICK o \in Orders, row \in Order : RowStep(o, row) /\ SetRow(o, row) /\ OrdersOnly
  BY ShopSteps
<1>2. db'.rows = [db.rows EXCEPT ![o] = row] /\ db.rows \in [Orders -> Order]
  BY <1>1, SetRowTypes, DatabaseFields DEF OrdersOnly, Types, BackupTypes, NewRows
<1>3. sweep' = sweep /\ told' = told /\ again' = again /\ unsure' = unsure /\ stops' = stops /\ stops' \in Nat
  BY <1>1 DEF OrdersOnly, OnceInv, ToldTyped
<1>4. ToldTyped'
  BY <1>3, ToldTypedStays
<1>5. \A n \in told : n[3] \in Nat /\ n[3] <= clock
  BY DEF OnceInv, ToldTyped, Periods
<1>6. \A x \in Orders : \/ db'.rows[x].renewed = db.rows[x].renewed /\ db'.rows[x].stamp = db.rows[x].stamp
                        \/ \A n \in told : n[3] # db'.rows[x].renewed
  BY <1>1, <1>2, <1>5 DEF RowStep, Row, Types, NoticeTypes, Periods
<1>7. Repeatable' \subseteq Repeatable
  BY <1>3, <1>6, OpenRows
<1> QED
  BY <1>3, <1>4, <1>7, CountStays, WaitsStep DEF OnceInv

\* A stop makes the batch in hand repeatable.
LEMMA StopOnce ==
    ASSUME FiniteOrders, BackupConstants, NoticeConstants, Types, Types', ToldInv, OnceInv, [Next]_vars, Stop
    PROVE  OnceInv'
<1>0. db' = db /\ told' = told /\ again' = again /\ unsure' = unsure
  BY DEF Stop, WatchLoop, Crash, Starts, Update, SweepStops, noticeVars
<1>1. (sweep' = sweep /\ stops' = stops) \/ SweepStops
  BY DEF Stop, noticeVars
<1>2. stops \in Nat /\ stops' \in Nat
  BY <1>1 DEF SweepStops, OnceInv, ToldTyped
<1>3. ToldTyped'
  BY <1>0, <1>1, <1>2, ToldTypedStays DEF SweepStops, Off
<1>4. CASE sweep' = sweep /\ stops' = stops
  <2>1. Repeatable' \subseteq Repeatable
    BY <1>0, <1>4, OpenRows
  <2> QED
    BY <1>0, <1>3, <1>4, <2>1, CountStays, WaitsStep DEF OnceInv
<1>5. CASE SweepStops
  <2> DEFINE batch == {n \in Repeatable' : sweep.at = "send" /\ n[2] = Kind /\ n[1] \in sweep.stamped
                                          /\ n[3] = Row(n[1]).renewed}
  <2>1. sweep' = Off /\ sweep'.stamped = {}
    BY <1>5 DEF SweepStops, Off
  <2>2. Repeatable' \subseteq Repeatable \cup batch
    BY <1>0, <2>1 DEF Repeatable, Open, Awaits, Row, Off
  <2>3. CASE sweep.at # "send"
    <3>1. Repeatable' \subseteq Repeatable /\ stops' = stops
      BY <1>5, <2>2, <2>3 DEF SweepStops
    <3> QED
      BY <1>0, <1>3, <2>1, <3>1, CountStays, WaitsStep DEF OnceInv
  <2>4. CASE sweep.at = "send"
    <3>1. stops' = stops + 1
      BY <1>5, <2>4 DEF SweepStops
    <3>2. \A n \in batch : n[1] \in sweep.stamped /\ n = <<n[1], Kind, Row(n[1]).renewed>>
      BY <1>0 DEF Repeatable, OnceInv, ToldTyped
    <3> DEFINE f == [n \in batch |-> n[1]]
    <3>3. f \in Injection(batch, sweep.stamped)
      BY <3>2 DEF Injection, IsInjective
    <3> HIDE DEF batch, f
    <3>4. IsFiniteSet(sweep.stamped) /\ Cardinality(sweep.stamped) \in Nat /\ Cardinality(sweep.stamped) <= Batch
      BY StampedFinite DEF OnceInv
    <3>5. IsFiniteSet(batch) /\ Cardinality(batch) <= Cardinality(sweep.stamped)
      BY <3>3, <3>4, FS_Injection
    <3>6. Cardinality(batch) \in Nat
      BY <3>5, FS_CardinalityType
    <3>7. IsFiniteSet(Repeatable) /\ Cardinality(Repeatable) \in Nat /\ Cardinality(Repeatable') \in Nat
      BY <1>3, RepeatableFinite, RepeatableNextFinite DEF OnceInv
    <3>8. Cardinality(Repeatable') <= Cardinality(Repeatable) + Cardinality(batch)
      <4>1. /\ IsFiniteSet(Repeatable \cup batch)
            /\ Cardinality(Repeatable \cup batch)
                 = Cardinality(Repeatable) + Cardinality(batch) - Cardinality(Repeatable \cap batch)
        BY <3>5, <3>7, FS_Union
      <4>2. Cardinality(Repeatable \cap batch) \in Nat
        BY <3>7, FS_Intersection, FS_CardinalityType
      <4>3. Cardinality(Repeatable') <= Cardinality(Repeatable \cup batch)
        BY <2>2, <4>1, FS_Subset
      <4>4. Cardinality(Repeatable \cup batch) \in Nat
        BY <4>1, FS_CardinalityType
      <4> QED
        BY <3>6, <3>7, <4>1, <4>2, <4>3, <4>4
    <3>9. Batch * (stops + 1) = Batch * stops + Batch /\ Batch * stops \in Nat /\ Batch \in Nat
      BY <1>2, Multiples, NoticeConstants
    <3>10. Rewinds * Imports <= Rewinds * Imports' /\ Rewinds * Imports \in Nat /\ Rewinds * Imports' \in Nat
      BY Multiples, RewindsNat, WaitsStep DEF OnceInv, ToldTyped
    <3>11. again \in Nat /\ unsure \in Nat /\ Cardinality({}) = 0
      BY FS_EmptySet DEF OnceInv, ToldTyped
    <3> QED
      BY <1>0, <1>3, <2>1, <3>1, <3>4, <3>5, <3>6, <3>7, <3>8, <3>9, <3>10, <3>11 DEF OnceInv
  <2> QED
    BY <2>3, <2>4
<1> QED
  BY <1>1, <1>4, <1>5

\* Nobody is due who was told in the period, as far as the order's stamp says.
LEMMA DueNeedsAlert ==
    ASSUME NEW row, NEW k \in Kinds, Due(row, k)
    PROVE  NeedsAlert(row, k)
<1>1. CASE k = "expiring"
  BY <1>1 DEF Due
<1>2. CASE k = "trial ended"
  BY <1>2 DEF Due, NeedsAlert
<1>3. CASE k = "usage high"
  BY <1>3 DEF Due
<1>4. CASE k = "expired"
  BY <1>4 DEF Due
<1> QED
  BY <1>1, <1>2, <1>3, <1>4 DEF Kinds

\* A scan, the time the sweep takes and its end make nothing repeatable.
LEMMA TurnOnce ==
    ASSUME FiniteOrders, BackupConstants, NoticeConstants, Types, Types', ToldInv, OnceInv, [Next]_vars,
           StartJob \/ Scan \/ Begin \/ EndSweep
    PROVE  OnceInv'
<1>0. db' = db /\ told' = told /\ again' = again /\ unsure' = unsure /\ stops' = stops /\ clock' = clock /\ stops \in Nat
  BY DEF StartJob, Scan, Begin, EndSweep, SweepOnly, OnceInv, ToldTyped
<1>1. sweep \in Sweep /\ SweepTold /\ (\A n \in told : n[1] \in Orders /\ n[2] \in Kinds)
  BY DEF Types, NoticeTypes, ToldInv, OnceInv, ToldTyped
<1>2. ASSUME ToldTyped', Repeatable' \subseteq Repeatable, sweep'.stamped \subseteq sweep.stamped PROVE OnceInv'
  <2>1. Imports <= Imports'
    BY WaitsStep DEF OnceInv
  <2> QED
    BY <1>0, <1>2, <2>1, CountStays
<1>3. ASSUME sweep.at # "due", sweep.at = "send" => sweep.stamped = {},
             sweep'.at \notin {"due", "send"}, sweep'.due = {}, sweep'.stamped = {}
      PROVE  OnceInv'
  <2>1. ToldTyped'
    BY <1>0, <1>3, ToldTypedStays
  <2>2. Repeatable' \subseteq Repeatable
    BY <1>0, <1>3 DEF Repeatable, Open, Awaits, Row
  <2> QED
    BY <1>2, <1>3, <2>1, <2>2
<1>4. NextKind.at \notin {"due", "send"} /\ NextKind.due = {} /\ NextKind.stamped = {}
  BY DEF NextKind, Off
<1>5. CASE StartJob
  <2>1. sweep' = [at |-> "scan", n |-> 1, due |-> {}, now |-> 0, stamped |-> {}] /\ sweep.at = "off"
    BY <1>5 DEF StartJob, Off
  <2> QED
    BY <1>3, <2>1
<1>6. CASE Scan
  <2>1. sweep.at = "scan" /\ (sweep' = NextKind \/ sweep' = [sweep EXCEPT !.at = "due", !.due = DueNow])
    BY <1>6 DEF Scan, DueNow
  <2>2. CASE sweep' = NextKind
    BY <1>3, <1>4, <2>1, <2>2
  <2>3. CASE sweep' = [sweep EXCEPT !.at = "due", !.due = DueNow]
    <3>1. sweep'.at = "due" /\ sweep'.due = DueNow /\ sweep'.stamped = sweep.stamped /\ Kind' = Kind
      BY <1>1, <2>3 DEF Sweep, Kind
    <3>2. Kind \in Kinds
      BY <2>1, KindIsKind DEF Types
    <3>3. \A x \in DueNow : x[1] \in Orders /\ x[2] = Row(x[1]).renewed /\ NeedsAlert(Row(x[1]), Kind)
      <4>1. \A x \in DueNow : Due(Row(x[1]), Kind)
        BY DEF DueNow
      <4> QED
        BY <3>2, <4>1, DueNowPairs, DueNeedsAlert
    <3>4. \A x \in DueNow : x[2] <= clock
      BY <3>3 DEF ToldInv, RowsTold, ToldIn, Row
    <3>5. ToldTyped'
      BY <1>0, <3>1, <3>4, WaitsStep DEF OnceInv, ToldTyped
    <3>6. Repeatable' \subseteq Repeatable
      <4>1. ASSUME NEW n \in told, Open(n)' PROVE Open(n)
        BY <1>0, <2>1, <3>1, <4>1 DEF Open, Row
      <4>2. ASSUME NEW n \in told, Awaits(n)' PROVE Open(n)
        BY <1>0, <2>1, <3>1, <3>3, <4>2 DEF Open, Awaits, Row
      <4> QED
        BY <1>0, <4>1, <4>2 DEF Repeatable
    <3> QED
      BY <1>2, <3>1, <3>5, <3>6
  <2> QED
    BY <2>1, <2>2, <2>3
<1>7. CASE Begin
  <2>1. /\ sweep.at = "due" /\ sweep'.at = "send" /\ sweep'.due = sweep.due /\ sweep'.now = clock
        /\ sweep'.stamped = sweep.stamped /\ sweep.stamped = {} /\ Kind' = Kind
    BY <1>1, <1>7 DEF Begin, Sweep, Kind, SweepTold
  <2>2. ToldTyped'
    BY <1>0, <2>1, WaitsStep DEF OnceInv, ToldTyped
  <2>3. Repeatable' \subseteq Repeatable
    BY <1>0, <2>1 DEF Repeatable, Open, Awaits, Row
  <2> QED
    BY <1>2, <2>1, <2>2, <2>3
<1>8. CASE EndSweep
  BY <1>3, <1>4, <1>8 DEF EndSweep
<1> QED
  BY <1>5, <1>6, <1>7, <1>8

\* The stamps of a batch close what they stamp; whoever was renewed meanwhile was not told
\* in the new period.
LEMMA FlushOnce ==
    ASSUME FiniteOrders, BackupConstants, NoticeConstants, Types, Types', ToldInv, OnceInv, [Next]_vars, Flush
    PROVE  OnceInv'
<1>0. told' = told /\ again' = again /\ unsure' = unsure /\ stops' = stops /\ clock' = clock /\ sweep \in Sweep
  BY DEF Flush, SweepOnly, Types, NoticeTypes
<1>1. /\ sweep.at = "send" /\ sweep'.at = "send" /\ sweep'.due = sweep.due /\ sweep'.now = sweep.now
      /\ sweep'.stamped = {} /\ Kind' = Kind /\ sweep.now \in Nat
  BY <1>0 DEF Flush, Sweep, Kind, Periods
<1>2. ToldTyped'
  BY <1>0, <1>1, WaitsStep DEF OnceInv, ToldTyped
<1>3. /\ \A n \in told : n[1] \in Orders /\ n[2] \in Kinds /\ n[3] \in Nat /\ n[3] <= sweep.now
      /\ \A o \in Orders : Row(o) \in Order
  BY <1>1, RowIsOrder DEF OnceInv, ToldTyped, Periods, Types
<1>4. \A o \in Orders : db'.rows[o] = Flushed[o]
  BY FlushRows DEF NewRows
<1>5. ASSUME NEW n \in told, Open(n)' PROVE Open(n)
  <2>1. n[3] = Row(n[1]).renewed /\ NeedsAlert(Flushed[n[1]], n[2])
    BY <1>1, <1>3, <1>4, <1>5, FlushedRow DEF Open, Row
  <2>2. ~(n[2] = Kind /\ n[1] \in sweep.stamped)
    BY <1>1, <1>3, <2>1, FlushedRow DEF NeedsAlert, Never
  <2>3. NeedsAlert(Row(n[1]), n[2])
    BY <1>1, <1>3, <2>1, <2>2, FlushedRow DEF NeedsAlert
  <2> QED
    BY <2>1, <2>2, <2>3 DEF Open
<1>6. ASSUME NEW n \in told, Awaits(n)' PROVE Awaits(n)
  BY <1>1, <1>6 DEF Awaits
<1>7. Repeatable' \subseteq Repeatable
  BY <1>0, <1>5, <1>6 DEF Repeatable
<1>8. Imports <= Imports' /\ sweep'.stamped \subseteq sweep.stamped
  BY <1>1, WaitsStep DEF OnceInv
<1> QED
  BY <1>0, <1>2, <1>7, <1>8, CountStays

\* A message to a customer who had it is one fewer that can be repeated.
LEMMA TellOnce ==
    ASSUME FiniteOrders, BackupConstants, NoticeConstants, Types, Types', ToldInv, OnceInv, [Next]_vars,
           NEW x \in sweep.due, Tell(x)
    PROVE  OnceInv'
<1> DEFINE notice == <<x[1], Kind, x[2]>>
<1>0. /\ db' = db /\ stops' = stops /\ clock' = clock /\ sweep \in Sweep
      /\ told' = told \cup {notice} /\ unsure' = unsure
      /\ again' = IF notice \in told THEN again + 1 ELSE again
  BY DEF Tell, Reaches, Notice, SweepOnly, Types, NoticeTypes
<1>1. /\ sweep.at = "send" /\ sweep'.at = "send" /\ sweep'.due = sweep.due \ {x} /\ sweep'.now = sweep.now
      /\ sweep'.stamped = sweep.stamped \cup {x[1]} /\ Kind' = Kind
      /\ (Cardinality(sweep.stamped) < Batch \/ sweep.stamped = {})
  BY <1>0, StampedFinite, NoticeConstants DEF Tell, Sending, BatchIsFull, Sweep, Kind
<1>2. x[1] \in Orders /\ x[2] \in Periods /\ x = <<x[1], x[2]>> /\ Kind \in Kinds
  BY <1>0, <1>1, KindIsKind DEF Sweep, Types
<1>3. ToldTyped'
  <2>1. notice \in Orders \X Kinds \X Periods /\ x[2] <= clock /\ x[2] <= sweep.now
    BY <1>1, <1>2 DEF OnceInv, ToldTyped
  <2>2. IsFiniteSet(told')
    BY <1>0, FS_AddElement DEF OnceInv, ToldTyped
  <2> QED
    BY <1>0, <1>1, <2>1, <2>2, WaitsStep DEF OnceInv, ToldTyped
<1>4. Cardinality(sweep'.stamped) <= Batch
  <2>1. /\ IsFiniteSet(sweep.stamped) /\ Cardinality(sweep.stamped) \in Nat
        /\ Batch \in Nat /\ Batch >= 1
    BY StampedFinite, NoticeConstants
  <2>2. Cardinality(sweep'.stamped) \in {Cardinality(sweep.stamped), Cardinality(sweep.stamped) + 1}
        /\ (sweep.stamped = {} => Cardinality(sweep.stamped) = 0)
    <3>1. Cardinality(sweep.stamped \cup {x[1]}) \in {Cardinality(sweep.stamped), Cardinality(sweep.stamped) + 1}
      BY <2>1, FS_AddElement
    <3> QED
      BY <1>1, <3>1, FS_EmptySet
  <2>3. Cardinality(sweep.stamped) < Batch \/ sweep.stamped = {}
    BY <1>1
  <2>4. Cardinality(sweep.stamped) <= Batch - 1
    BY <2>1, <2>2, <2>3
  <2> QED
    BY <2>1, <2>2, <2>4
<1>5. Repeatable' \subseteq Repeatable \ {notice}
  <2>1. SUFFICES ASSUME NEW n \in told', Open(n)' \/ Awaits(n)'
                 PROVE  n \in Repeatable /\ n # notice
    BY DEF Repeatable
  <2>2. n # notice
    BY <1>0, <1>1, <1>2, <2>1 DEF Open, Awaits
  <2>3. Open(n) \/ Awaits(n)
    BY <1>0, <1>1, <2>1 DEF Open, Awaits, Row
  <2> QED
    BY <1>0, <2>2, <2>3 DEF Repeatable
<1>6. notice \in told => notice \in Repeatable
  BY <1>1, <1>2 DEF Repeatable, Awaits
<1> HIDE DEF notice
<1>7. /\ IsFiniteSet(Repeatable) /\ Cardinality(Repeatable) \in Nat /\ Cardinality(Repeatable') \in Nat
      /\ again \in Nat /\ unsure \in Nat
  BY <1>3, RepeatableFinite, RepeatableNextFinite DEF OnceInv, ToldTyped
<1>8. /\ IsFiniteSet(Repeatable \ {notice})
      /\ Cardinality(Repeatable \ {notice})
           = IF notice \in Repeatable THEN Cardinality(Repeatable) - 1 ELSE Cardinality(Repeatable)
  BY <1>7, FS_RemoveElement
<1>9. Cardinality(Repeatable') <= Cardinality(Repeatable \ {notice})
  BY <1>5, <1>8, FS_Subset
<1>10. again' + Cardinality(Repeatable') <= again + Cardinality(Repeatable)
  BY <1>0, <1>6, <1>7, <1>8, <1>9
<1>11. Rewinds * Imports <= Rewinds * Imports' /\ Rewinds * Imports \in Nat /\ Rewinds * Imports' \in Nat
  BY Multiples, RewindsNat, WaitsStep DEF OnceInv, ToldTyped
<1>12. Batch * stops \in Nat /\ again' \in Nat /\ unsure \in Nat
  BY <1>3, NoticeConstants DEF OnceInv, ToldTyped
<1> QED
  BY <1>0, <1>3, <1>4, <1>7, <1>10, <1>11, <1>12 DEF OnceInv

\* A message taken for failed can be repeated, delivered or not, and counts as one that was.
LEMMA FailOnce ==
    ASSUME FiniteOrders, BackupConstants, NoticeConstants, Types, Types', ToldInv, OnceInv, [Next]_vars,
           NEW x \in sweep.due, Fail(x)
    PROVE  OnceInv'
<1> DEFINE notice == <<x[1], Kind, x[2]>>
<1>0. /\ db' = db /\ stops' = stops /\ clock' = clock /\ sweep \in Sweep
      /\ \/ told' = told /\ again' = again /\ unsure' = unsure
         \/ /\ told' = told \cup {notice} /\ unsure' = unsure + 1
            /\ again' = IF notice \in told THEN again + 1 ELSE again
  BY DEF Fail, Reaches, Notice, SweepOnly, Types, NoticeTypes
<1>1. /\ sweep.at = "send" /\ sweep'.at = "send" /\ sweep'.due = sweep.due \ {x} /\ sweep'.now = sweep.now
      /\ sweep'.stamped = sweep.stamped /\ Kind' = Kind
  BY <1>0 DEF Fail, Sending, Sweep, Kind
<1>2. x[1] \in Orders /\ x[2] \in Periods /\ x = <<x[1], x[2]>> /\ Kind \in Kinds
  BY <1>0, <1>1, KindIsKind DEF Sweep, Types
<1>3. ToldTyped'
  <2>1. notice \in Orders \X Kinds \X Periods /\ x[2] <= clock /\ x[2] <= sweep.now
    BY <1>1, <1>2 DEF OnceInv, ToldTyped
  <2>2. IsFiniteSet(told')
    BY <1>0, FS_AddElement DEF OnceInv, ToldTyped
  <2>3. again' \in Nat /\ unsure' \in Nat
    BY <1>0 DEF OnceInv, ToldTyped
  <2> QED
    BY <1>0, <1>1, <2>1, <2>2, <2>3, WaitsStep DEF OnceInv, ToldTyped
<1>4. notice \in told => notice \in Repeatable
  BY <1>1, <1>2 DEF Repeatable, Awaits
<1>5. ASSUME NEW n \in told', Open(n)' \/ Awaits(n)' PROVE Open(n) \/ Awaits(n)
  BY <1>0, <1>1, <1>5 DEF Open, Awaits, Row
<1>6. Imports <= Imports' /\ sweep'.stamped \subseteq sweep.stamped
  BY <1>1, WaitsStep DEF OnceInv
<1>7. CASE told' = told /\ again' = again /\ unsure' = unsure
  <2>1. Repeatable' \subseteq Repeatable
    BY <1>5, <1>7 DEF Repeatable
  <2> QED
    BY <1>0, <1>3, <1>6, <1>7, <2>1, CountStays
<1>8. CASE /\ told' = told \cup {notice} /\ unsure' = unsure + 1
           /\ again' = IF notice \in told THEN again + 1 ELSE again
  <2>1. Repeatable' \subseteq Repeatable \cup {notice}
    BY <1>5, <1>8 DEF Repeatable
  <2> HIDE DEF notice
  <2>2. /\ IsFiniteSet(Repeatable) /\ Cardinality(Repeatable) \in Nat /\ Cardinality(Repeatable') \in Nat
        /\ again \in Nat /\ unsure \in Nat
    BY <1>3, RepeatableFinite, RepeatableNextFinite DEF OnceInv, ToldTyped
  <2>3. /\ IsFiniteSet(Repeatable \cup {notice})
        /\ Cardinality(Repeatable \cup {notice})
             = IF notice \in Repeatable THEN Cardinality(Repeatable) ELSE Cardinality(Repeatable) + 1
    BY <2>2, FS_AddElement
  <2>4. Cardinality(Repeatable') <= Cardinality(Repeatable \cup {notice})
    BY <2>1, <2>3, FS_Subset
  <2>5. again' + Cardinality(Repeatable') <= again + Cardinality(Repeatable) + 1
    BY <1>4, <1>8, <2>2, <2>3, <2>4
  <2>6. Rewinds * Imports <= Rewinds * Imports' /\ Rewinds * Imports \in Nat /\ Rewinds * Imports' \in Nat
    BY Multiples, RewindsNat, WaitsStep DEF OnceInv, ToldTyped
  <2>7. Batch * stops \in Nat /\ again' \in Nat
    BY <1>3, NoticeConstants DEF OnceInv, ToldTyped
  <2> QED
    BY <1>0, <1>1, <1>3, <1>8, <2>2, <2>5, <2>6, <2>7 DEF OnceInv
<1> QED
  BY <1>0, <1>7, <1>8

LEMMA OnceStep ==
    ASSUME FiniteOrders, BackupConstants, NoticeConstants, Types, Types', ToldInv, OnceInv, [Next]_vars
    PROVE  OnceInv'
<1>1. CASE BackupStep /\ UNCHANGED noticeVars
  BY <1>1, BackupOnce
<1>2. CASE Stop
  BY <1>2, StopOnce
<1>3. CASE Shop
  BY <1>3, ShopOnce
<1>4. CASE Job
  BY <1>4, TurnOnce, FlushOnce, TellOnce, FailOnce DEF Job
<1>5. CASE UNCHANGED vars
  <2>1. sweep' = sweep /\ told' = told /\ again' = again /\ unsure' = unsure /\ stops' = stops /\ stops' \in Nat /\ db' = db
    BY <1>5 DEF vars, backupVars, noticeVars, OnceInv, ToldTyped
  <2>2. ToldTyped'
    BY <2>1, ToldTypedStays
  <2>3. Repeatable' \subseteq Repeatable
    BY <2>1, OpenRows
  <2>4. Imports <= Imports' /\ sweep'.stamped \subseteq sweep.stamped
    BY <1>5, WaitsStep DEF OnceInv, vars, noticeVars
  <2> QED
    BY <2>1, <2>2, <2>3, <2>4, CountStays
<1> QED
  BY <1>1, <1>2, <1>3, <1>4, <1>5 DEF Next

LEMMA OnceInit ==
    ASSUME FiniteOrders, NoticeConstants, Init
    PROVE  OnceInv
<1>1. /\ told = {} /\ again = 0 /\ unsure = 0 /\ stops = 0 /\ sweep = Off /\ begun = 0
      /\ \A p \in Restorers : restoring[p].at = "idle"
  BY DEF Init, BackupInit, NoRestore
<1>2. Imports = 0
  BY <1>1 DEF Imports, Waits, Restorers
<1>3. Repeatable = {} /\ sweep.stamped = {} /\ sweep.due = {}
  BY <1>1 DEF Repeatable, Off
<1>4. Rewinds * 0 = 0 /\ Batch * 0 = 0
  BY RewindsNat, NoticeConstants
<1> QED
  BY <1>1, <1>2, <1>3, <1>4, FS_EmptySet, NoticeConstants DEF OnceInv, ToldTyped

\* A customer is told each thing once per period of service, with any number of orders,
\* renewals, failed messages and jobs.  What comes again is, at most: one message for each
\* that was delivered and taken for failed, a batch for each stop of the scheduler, and
\* each kind once per order for each restore. The worlds are those of StampedMeansTold.
THEOREM ToldOnceEach ==
    ASSUME FiniteOrders, NoticesSafe
    PROVE  Spec => []ToldOnce
<1>1. Init => Types /\ ToldInv /\ OnceInv
  BY InitTypes, ToldInit, OnceInit, BackupConstants, NoticeConstants, NoticeWorlds
<1>2. Types /\ ToldInv /\ OnceInv /\ [Next]_vars => (Types /\ ToldInv /\ OnceInv)'
  <2>1. ASSUME Types, ToldInv, OnceInv, [Next]_vars PROVE Types' /\ ToldInv'
    BY <2>1, NextTypes, ToldStep, BackupConstants, NoticeConstants
  <2> QED
    BY <2>1, OnceStep, BackupConstants, NoticeConstants
<1>3. Types /\ ToldInv /\ OnceInv => ToldOnce
  <2>1. SUFFICES ASSUME Types, OnceInv PROVE ToldOnce
    OBVIOUS
  <2>2. Imports \in Nat /\ Imports <= begun /\ begun \in Nat
    BY <2>1 DEF Types, BackupTypes, OnceInv, ToldTyped, Imports, Waits
  <2>3. Rewinds * Imports <= Rewinds * begun /\ Rewinds * Imports \in Nat /\ Rewinds * begun \in Nat
    BY <2>2, Multiples, RewindsNat
  <2>4. Batch * stops \in Nat /\ again \in Nat /\ unsure \in Nat /\ Cardinality(Repeatable) \in Nat
    BY <2>1, RepeatableFinite, NoticeConstants DEF OnceInv, ToldTyped
  <2>5. again <= unsure + Batch * stops + Rewinds * begun
    BY <2>1, <2>3, <2>4 DEF OnceInv
  <2> QED
    BY <2>5 DEF ToldOnce, Rewinds
<1> QED
  BY <1>1, <1>2, <1>3, PTL DEF Spec

=============================================================================
