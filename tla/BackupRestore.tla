--------------------------- MODULE BackupRestore ---------------------------
(* Backup and restore of the whole system.  Three processes share one      *)
(* database, one data volume and the SECRET_KEY their containers were       *)
(* created with.  Any of them makes backups; the panel's api and the bot    *)
(* restore one, also one another server made.  What the database holds      *)
(* besides the secrets is the business of the module that extends this one. *)
EXTENDS Integers, FiniteSets, FiniteSetsExt

CONSTANTS
    Secrets,        \* the encrypted columns: settings, panel keys, bot tokens, TOTP
    OwnerToken,     \* the setting with the token of the owner's bot
    Here, There,    \* SECRET_KEY of this server and of another one
    Worlds          \* what can happen and how often, by instance

ASSUME BackupConstants ==
    /\ OwnerToken \in Secrets /\ Here # There
    /\ \A w \in Worlds : {w.backups, w.restores, w.crashes} \subseteq Nat

VARIABLES
    db,         \* the database: rows, the key each secret is encrypted under, last_backup_at
    env,        \* SECRET_KEY in .env on the host
    key,        \* SECRET_KEY of each running process
    marker,     \* the restart marker on the data volume
    seen,       \* the marker each process saw when it started
    owner,      \* the archives the owner holds
    disk,       \* invoice-backup-*.zip on the data volume
    safety,     \* pre-restore-*.sql there
    making,     \* the backup each process is making
    restoring,  \* the restore the api or the bot is doing
    abandoned,  \* history: stamped downloads that were given up while they were streamed
    made, begun, \* how many of each
    world
serverVars == <<env, key, marker, seen>>
filesVars == <<owner, disk, safety>>
lanesVars == <<making, restoring, abandoned, made, begun>>
backupVars == <<db, serverVars, filesVars, lanesVars, world>>

Procs == {"api", "bot", "scheduler"}
Restorers == {"api", "bot"}
Ops == world.ops

Nothing == [id |-> 0]
Idle == [at |-> "idle", archive |-> Nothing, download |-> FALSE]
NoRestore == [at |-> "idle", archive |-> Nothing]

BackupInit(rows) ==
    /\ world \in Worlds
    /\ db = [rows |-> rows, secrets |-> [s \in Secrets |-> Here], stamp |-> 0]
    /\ env = Here
    /\ key = [p \in Procs |-> Here]
    /\ marker = 0 /\ seen = [p \in Procs |-> 0]
    /\ owner = {[id |-> 0, rows |-> rows, secrets |-> [s \in Secrets |-> k], stamp |-> 0, key |-> k]
                    : k \in world.archives}
    /\ disk = {} /\ safety = {}
    /\ making = [p \in Procs |-> Idle]
    /\ restoring = [p \in Restorers |-> NoRestore]
    /\ abandoned = {} /\ made = 0 /\ begun = 0

-----------------------------------------------------------------------------
(* Secrets (core/crypto.py).                                               *)

\* decrypt answers None for a value under another key.
Readable(s, p) == db.secrets[s] = key[p]

\* settings_service.set_value and its like, in the panel.
WriteSecret(s) ==
    /\ "secret" \in Ops /\ ~Readable(s, "api")
    /\ db' = [db EXCEPT !.secrets[s] = key["api"]]
    /\ UNCHANGED <<serverVars, filesVars, lanesVars, world>>

-----------------------------------------------------------------------------
(* Making a backup: the archive is built in a directory of its own, then    *)
(* delivered, then the time is stamped, each in a step of its own.          *)

\* The newest two by name, which is by time.
Kept(archives) == {a \in archives : Cardinality({b \in archives : b.id > a.id}) < 2}

\* "apart": nobody takes a backup while a restore re-encrypts.
MidRestore == {p \in Restorers : restoring[p].at \in {"imported", "cut"}}
Undisturbed == "apart" \in Ops => MidRestore = {}

\* create_backup_file: the archive takes the time it is begun at.
CreateBackup(p, download) ==
    /\ "backup" \in Ops /\ made < world.backups /\ making[p] = Idle
    /\ download => p = "api" /\ "download" \in Ops
    /\ making' = [making EXCEPT ![p] = [at |-> "dumping", archive |-> [id |-> made + 1], download |-> download]]
    /\ made' = made + 1
    /\ UNCHANGED <<db, serverVars, filesVars, restoring, abandoned, begun, world>>

\* One consistent dump, and the key of the process that takes it.
Archive(p) == [id |-> making[p].archive.id, rows |-> db.rows, secrets |-> db.secrets, stamp |-> db.stamp,
               key |-> key[p]]
Dump(p) ==
    /\ making[p].at = "dumping" /\ Undisturbed
    /\ making' = [making EXCEPT ![p].at = IF making[p].download THEN "stamp" ELSE "built",
                                ![p].archive = Archive(p)]
    /\ UNCHANGED <<db, serverVars, filesVars, restoring, abandoned, made, begun, world>>

\* A dump that fails, or does not look like one, leaves nothing.
DumpFails(p) ==
    /\ making[p].at = "dumping" /\ "fail" \in Ops
    /\ making' = [making EXCEPT ![p] = Idle]
    /\ UNCHANGED <<db, serverVars, filesVars, restoring, abandoned, made, begun, world>>

Step(p, at) == [making EXCEPT ![p].at = at]
Done(p) == [making EXCEPT ![p] = Idle]
Built(p) == making[p].at = "built"
Streaming(p) == making[p].at = "stream"
Streamed(procs) == {making[p].archive.id : p \in {q \in procs : Streaming(q)}}
NoBot(p) == ~world.chat \/ ~Readable(OwnerToken, p)

\* No owner chat or no usable bot: the archive stays on the server, and counts.
KeepOnDisk(p) ==
    /\ Built(p) /\ NoBot(p)
    /\ disk' = Kept(disk \cup {making[p].archive})
    /\ making' = Step(p, "stamp")
    /\ UNCHANGED <<db, serverVars, owner, safety, restoring, abandoned, made, begun, world>>

\* Over Telegram's limit: it stays on the server, and does not count.
TooLarge(p) ==
    /\ Built(p) /\ ~NoBot(p) /\ "large" \in Ops
    /\ disk' = Kept(disk \cup {making[p].archive})
    /\ making' = Done(p)
    /\ UNCHANGED <<db, serverVars, owner, safety, restoring, abandoned, made, begun, world>>

SendBackup(p) ==
    /\ Built(p) /\ ~NoBot(p) /\ "large" \notin Ops
    /\ owner' = owner \cup {making[p].archive}
    /\ making' = Step(p, "stamp")
    /\ UNCHANGED <<db, serverVars, disk, safety, restoring, abandoned, made, begun, world>>

\* Mutant of SendFails: the stamp is in the finally.
SendFailsStamped(p) ==
    /\ Built(p) /\ ~NoBot(p) /\ "fail" \in Ops
    /\ making' = Step(p, "stamp")
    /\ UNCHANGED <<db, serverVars, filesVars, restoring, abandoned, made, begun, world>>

\* The upload raises, before or after the archive arrived: it goes with its directory,
\* and the job tells the owner.
SendFails(p) ==
    /\ Built(p) /\ ~NoBot(p) /\ "fail" \in Ops
    /\ making' = Done(p)
    /\ owner' \in {owner, owner \cup {making[p].archive}}
    /\ UNCHANGED <<db, serverVars, disk, safety, restoring, abandoned, made, begun, world>>

\* mark_backup_done.  A download is stamped before it is streamed.
MarkBackupDone(p) ==
    /\ making[p].at = "stamp"
    /\ db' = [db EXCEPT !.stamp = making[p].archive.id]
    /\ making' = IF making[p].download THEN Step(p, "stream") ELSE Done(p)
    /\ UNCHANGED <<serverVars, filesVars, restoring, abandoned, made, begun, world>>

Stream(p) ==
    /\ Streaming(p)
    /\ owner' = owner \cup {making[p].archive}
    /\ making' = Done(p)
    /\ UNCHANGED <<db, serverVars, disk, safety, restoring, abandoned, made, begun, world>>

\* The browser gives the download up, or the connection breaks: the archive goes, and
\* its stamp stays.
StreamFails(p) ==
    /\ Streaming(p) /\ "fail" \in Ops
    /\ abandoned' = abandoned \cup Streamed({p})
    /\ making' = Done(p)
    /\ UNCHANGED <<db, serverVars, filesVars, restoring, made, begun, world>>

-----------------------------------------------------------------------------
(* Restoring one.                                                          *)

At(p, at) == [restoring EXCEPT ![p].at = at]

\* An archive is handed in.  "recreated": after a key that went into .env the containers
\* are made anew before the next restore, by an owner who knows: restore_from_zip notes
\* it, but the api's answer overwrites that note.
BeginRestore(p, a) ==
    /\ "restore" \in Ops /\ begun < world.restores
    /\ restoring[p] = NoRestore
    /\ "together" \in Ops \/ \A q \in Restorers : restoring[q] = NoRestore
    /\ "recreated" \in Ops => \A q \in Procs : key[q] = env
    /\ begun' = begun + 1
    /\ restoring' = [restoring EXCEPT ![p] = [at |-> "opening", archive |-> a]]
    /\ UNCHANGED <<db, serverVars, filesVars, making, abandoned, made, world>>

\* It does not open, or its dump is not one: nothing has changed.
Refuse(p) ==
    /\ restoring[p].at = "opening" /\ "fail" \in Ops
    /\ restoring' = [restoring EXCEPT ![p] = NoRestore]
    /\ UNCHANGED <<db, serverVars, filesVars, making, abandoned, made, begun, world>>

\* _save_pre_restore_dump: the database the import will overwrite.  A dump that fails
\* stops nothing and prunes nothing.
Dumped == Kept(safety \cup {[id |-> 1 + Max({0} \cup {s.id : s \in safety}), of |-> db]})
SafetyDump(p) ==
    /\ restoring[p].at = "opening"
    /\ safety' \in {Dumped} \cup (IF "fail" \in Ops THEN {safety} ELSE {})
    /\ restoring' = At(p, "dumped")
    /\ UNCHANGED <<db, serverVars, owner, disk, making, abandoned, made, begun, world>>

\* _pg_restore: every other connection is terminated, and the import is one transaction.
\* A dump in progress and the re-encryption of a restore that is not done yet may lose
\* theirs; the backup then fails.
Import(p) ==
    /\ restoring[p].at = "dumped"
    /\ db' = [f \in DOMAIN db |-> restoring[p].archive[f]]
    /\ \E hit \in SUBSET (MidRestore \ {p}) :
          restoring' = [q \in Restorers |-> IF q = p THEN [restoring[p] EXCEPT !.at = "imported"]
                                            ELSE IF q \in hit THEN [restoring[q] EXCEPT !.at = "cut"]
                                            ELSE restoring[q]]
    /\ \E hit \in SUBSET {q \in Procs : making[q].at = "dumping"} :
          making' = [q \in Procs |-> IF q \in hit THEN Idle ELSE making[q]]
    /\ UNCHANGED <<serverVars, filesVars, abandoned, made, begun, world>>

\* Mutant of ImportFails: the key of the archive is written anyhow.
ImportFailsKeyed(p) ==
    /\ restoring[p].at = "dumped" /\ "fail" \in Ops
    /\ env' = restoring[p].archive.key
    /\ restoring' = [restoring EXCEPT ![p] = NoRestore]
    /\ UNCHANGED <<db, key, marker, seen, filesVars, making, abandoned, made, begun, world>>

\* It rolled back: the database is as it was, and so is the key.
ImportFails(p) ==
    /\ restoring[p].at = "dumped" /\ "fail" \in Ops
    /\ restoring' = [restoring EXCEPT ![p] = NoRestore]
    /\ UNCHANGED <<db, serverVars, filesVars, making, abandoned, made, begun, world>>

\* _recrypt_value, over every table: what does not open under the archive's key stays.
Recrypted(secrets, from, to) == [s \in Secrets |-> IF secrets[s] = from THEN to ELSE secrets[s]]
Recrypt(p) ==
    /\ restoring[p].at = "imported"
    /\ db' = [db EXCEPT !.secrets = Recrypted(@, restoring[p].archive.key, key[p])]
    /\ restoring' = At(p, "keyed")
    /\ UNCHANGED <<serverVars, filesVars, making, abandoned, made, begun, world>>

\* _finalize_restore_key falls back: the archive's key goes into .env, which only the
\* api's container has; processes take it up when they are created anew.
RecryptFails(p) ==
    /\ \/ restoring[p].at = "cut" /\ restoring[p].archive.key # key[p]
       \/ restoring[p].at = "imported" /\ restoring[p].archive.key # key[p] /\ p \in world.unkeyed
    /\ env' = IF p = "api" THEN restoring[p].archive.key ELSE env
    /\ restoring' = At(p, "keyed")
    /\ UNCHANGED <<db, key, marker, seen, filesVars, making, abandoned, made, begun, world>>

\* With the same key there was nothing to re-encrypt.
SameKey(p) ==
    /\ restoring[p].at = "cut" /\ restoring[p].archive.key = key[p]
    /\ restoring' = At(p, "keyed")
    /\ UNCHANGED <<db, serverVars, filesVars, making, abandoned, made, begun, world>>

RequestRestart(p) ==
    /\ restoring[p].at = "keyed"
    /\ marker' = begun
    /\ restoring' = [restoring EXCEPT ![p] = NoRestore]
    /\ UNCHANGED <<db, env, key, seen, filesVars, making, abandoned, made, begun, world>>

-----------------------------------------------------------------------------
(* Processes stop and start: the container comes back with the key it was   *)
(* created with, and with the marker it now finds.                          *)

Starts(p) ==
    /\ seen' = [seen EXCEPT ![p] = marker]
    /\ making' = Done(p) /\ abandoned' = abandoned \cup Streamed({p})
    /\ restoring' = [q \in Restorers |-> IF q = p THEN NoRestore ELSE restoring[q]]
    /\ UNCHANGED <<db, env, marker, filesVars, made, begun>>

\* watch_loop, and the api's own restart after its restore: a SIGTERM, on which the
\* servers of the api and the bot finish what they are serving.
WatchLoop(p) ==
    /\ seen[p] # marker
    /\ p \in Restorers => making[p] = Idle /\ restoring[p] = NoRestore
    /\ Starts(p) /\ UNCHANGED <<key, world>>

\* A process is killed.  Not while secrets of another server are imported and not yet
\* re-encrypted: nothing would take that up again.
Crash(p) ==
    /\ "crash" \in Ops /\ world.crashes > 0
    /\ p \in MidRestore => restoring[p].archive.key = key[p]
    /\ Starts(p)
    /\ world' = [world EXCEPT !.crashes = @ - 1]
    /\ UNCHANGED key

\* The update on the host creates every container anew from .env.
Update ==
    /\ "update" \in Ops /\ MidRestore = {}
    /\ \E p \in Procs : key[p] # env
    /\ key' = [p \in Procs |-> env]
    /\ seen' = [p \in Procs |-> marker]
    /\ making' = [p \in Procs |-> Idle] /\ abandoned' = abandoned \cup Streamed(Procs)
    /\ restoring' = [p \in Restorers |-> NoRestore]
    /\ UNCHANGED <<db, env, marker, filesVars, made, begun, world>>

BackupStep ==
    \/ \E s \in Secrets : WriteSecret(s)
    \/ \E p \in Procs :
          \/ \E download \in BOOLEAN : CreateBackup(p, download)
          \/ Dump(p) \/ DumpFails(p) \/ KeepOnDisk(p) \/ TooLarge(p) \/ SendBackup(p) \/ SendFails(p)
          \/ MarkBackupDone(p) \/ Stream(p) \/ StreamFails(p)
    \/ \E p \in Restorers :
          \/ \E a \in owner \cup disk : BeginRestore(p, a)
          \/ Refuse(p) \/ SafetyDump(p) \/ Import(p) \/ ImportFails(p) \/ Recrypt(p) \/ RecryptFails(p) \/ SameKey(p) \/ RequestRestart(p)

-----------------------------------------------------------------------------
(* Properties.                                                             *)

\* Whatever was restored, from whichever server, and however the restore ended: once
\* no restore is half done, every secret in the database opens under the key the
\* containers have or will have when they are next created.  And every archive the owner
\* or the server holds carries the key its own secrets are under, so that any server can
\* restore it.
SecretsReadable ==
    /\ MidRestore = {} => \A s \in Secrets : db.secrets[s] = env
    /\ \A a \in owner \cup disk : \A s \in Secrets : a.secrets[s] = a.key

\* The time of the last backup that the health report shows is that of a backup that
\* left the process: somebody holds it, or a newer one, or it is being downloaded.  The
\* one exception is a download given up after it was stamped.
StampedIsHeld ==
    \/ db.stamp \in {0} \cup abandoned \cup Streamed(Procs)
    \/ \E a \in owner \cup disk : a.id >= db.stamp

\* No download is given up after it was stamped (the code's comment has it that the owner
\* now holds it): FindAbandonedDownload.cfg shows the code does not see to it.
DownloadsArrive == abandoned = {}

=============================================================================
