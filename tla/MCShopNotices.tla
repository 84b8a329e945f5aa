--------------------------- MODULE MCShopNotices ---------------------------
(* Small instances of ShopNotices with BackupRestore for TLC.              *)
EXTENDS ShopNotices, TLC

CONSTANTS a, b, token, shop, here, there

Of(ops) == [ops |-> ops, crashes |-> 0, backups |-> 0, restores |-> 0, archives |-> {}, unkeyed |-> {},
               trials |-> {}, life |-> "far", chat |-> TRUE]

\* The notices alone: days, use, renewals and failing messages; orders with and
\* without a snapshot; trials; restarts.
Notices ==
    {Of({"notices", "days", "renew", "fail"}),
     Of({"notices", "days", "renew", "snapshot"}),
     Of({"notices", "use", "renew", "snapshot"}),
     [Of({"notices", "use", "arm", "hide", "fail"}) EXCEPT !.life = "unknown"],
     [Of({"notices", "days", "crash", "hide"}) EXCEPT !.trials = {b}, !.crashes = 1],
     [Of({"notices", "days", "crash", "fail"}) EXCEPT !.crashes = 1, !.life = "near"]}

\* Backups: sent, too large, without a bot, downloaded to the end or not; with restarts.
Backups ==
    {[Of({"backup", "fail", "crash"}) EXCEPT !.crashes = 2, !.backups = 3],
     [Of({"backup", "fail", "crash"}) EXCEPT !.crashes = 2, !.chat = FALSE, !.backups = 3],
     [Of({"backup", "large", "download", "fail", "crash"}) EXCEPT !.crashes = 1, !.backups = 3]}

\* Restores: of this server's archives, two at a time, with restarts and backups; of
\* another server's; with a re-encryption that fails.
Restores ==
    {[Of({"backup", "restore", "together", "crash", "fail"})
        EXCEPT !.crashes = 1, !.archives = {here}, !.backups = 1, !.restores = 2],
     [Of({"backup", "restore", "apart", "secret", "crash", "fail"})
        EXCEPT !.crashes = 1, !.archives = {here, there}, !.backups = 1, !.restores = 2],
     [Of({"restore", "recreated", "fail", "update"})
        EXCEPT !.archives = {here, there}, !.unkeyed = {"api"}, !.restores = 2]}

\* Notices while the database goes back under them.
Rewound ==
    {[Of({"notices", "restore"}) EXCEPT !.archives = {here}, !.life = "near", !.restores = 1],
     [Of({"notices", "restore", "recreated", "update"})
        EXCEPT !.archives = {there}, !.life = "near", !.unkeyed = {"api"}, !.restores = 1]}

All == Notices \cup Backups \cup Restores \cup Rewound

=============================================================================
