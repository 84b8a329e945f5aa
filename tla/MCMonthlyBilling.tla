------------------------- MODULE MCMonthlyBilling -------------------------
(* Two panels: r with its sub-admin s on one, on the other q, whom the bot   *)
(* cannot reach, and x, who is not billed.  The payments are of r's invoice. *)
EXTENDS Deposits, TLC

CONSTANTS p1, p2, r, s, q, x

Home == [a \in Admins |-> IF a \in {q, x} THEN p2 ELSE p1]
Chats == [a \in Admins |-> IF a = q THEN "blocked" ELSE "ok"]
Tree == [a \in Admins |-> IF a = s THEN r ELSE Owner]
\* As it should be; s without a parent; r and s above each other, and q below x.
Orphan == [Tree EXCEPT ![s] = None]
Loops == [Tree EXCEPT ![r] = s, ![q] = x]
Parents == {Tree, Orphan, Loops}
Billing ==
    { [does |-> {"sales", "sync", "outage"}, trees |-> {Tree}, events |-> 2, faults |-> 1],
      [does |-> {"generate", "sales", "sync"}, trees |-> {Tree}, events |-> 3, faults |-> 0],
      [does |-> {"crash", "exception", "telegram", "month ends"}, trees |-> Parents, events |-> 0, faults |-> 3],
      [does |-> {"generate", "send period", "resend", "crash", "telegram"},
       trees |-> {Tree, Orphan}, events |-> 2, faults |-> 1],
      [does |-> {"generate", "send period", "resend", "pay"}, trees |-> Parents, events |-> 2, faults |-> 0],
      [does |-> {"leave", "sync"}, trees |-> Parents, events |-> 2, faults |-> 0],
      [does |-> {"outage", "retry failed", "exception"}, trees |-> Parents, events |-> 1, faults |-> 4] }

\* Rates as installed, with the owner's figures for want of a live one, and by his figures.
Plain == [mode |-> [c \in Coins |-> "auto"], manual |-> [c \in Coins |-> IF c = "usdt" THEN 2 ELSE 0]]
Figures == [Plain EXCEPT !.manual = [c \in Coins |-> 4]]
Manual == [Figures EXCEPT !.mode = [c \in Coins |-> IF c = "ton" THEN "auto" ELSE "manual"]]
Ways == {Plain, Figures, Manual}
Bands == [c \in Coins |-> IF c = "avax" THEN 1..64 ELSE 1..20]

\* Prices that move while nobody looks, or while a source slips; a chain that reorganises
\* and a node that does not answer; an owner who has the invoice paid by hand meanwhile.
Deposited(does, coins, ways, people, failures) ==
    [does |-> {"deposit"} \cup does, trees |-> {Tree}, coins |-> coins, settings |-> ways,
     events |-> people, faults |-> failures]
Payments ==
    { Deposited({"market", "first fetch", "stop"}, {"ton", "avax"}, Ways, 2, 0),
      Deposited({"market", "slip"}, {"usdt", "ton"}, Ways, 1, 1),
      Deposited({"market", "send"}, {"ton"}, {Figures}, 1, 0),
      Deposited({"send", "reorg", "node"}, Coins, {Plain}, 0, 2),
      Deposited({"send", "pay"}, Coins, {Plain}, 1, 0),
      Deposited({"send", "by hand", "pay"}, {"usdt"}, {Plain}, 1, 0) }
Chosen == Billing \cup Payments

=============================================================================
