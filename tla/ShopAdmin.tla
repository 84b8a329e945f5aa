----------------------------- MODULE ShopAdmin -----------------------------
(***************************************************************************)
(* A shop's administrators change its plans, settings and customers' money *)
(* from three surfaces at once: the web portal, the flows of the shop's    *)
(* bot and the buttons under the bot's messages.  Two sweeps send the same *)
(* commands.                                                               *)
(*                                                                         *)
(* A command claims its idempotency key, reads what it needs, and commits. *)
(* Commands on the shop's configuration commit only if its version is      *)
(* still the one the administrator saw; commands on one customer, top-up   *)
(* or code lock the rows they change.  Every command is a transaction that *)
(* reads first and writes later: what it loaded may be stale by then, and  *)
(* only the attributes it changed are written.                             *)
(***************************************************************************)
EXTENDS Integers, Sequences, FiniteSets, FiniteSetsExt

CONSTANTS
    Plans, Topups,          \* ids, positive numbers; a plan beyond them is one too many
    Customers,              \* customers of the shop, who may be its managers too
    Buyer,                  \* the customer of each top-up
    Owner, System,          \* actors: the reseller, and the sweeps; managers are customers
    Slots,                  \* requests worked on at once
    Worlds,                 \* what is asked, by whom, on which surface, and what fails
    MaxManagers,            \* MAX_CO_ADMINS
    MaxSends,               \* bound on requests
    None, Gone              \* no value, and a deleted row

ASSUME IdsAssumption ==
    /\ Plans \cup Topups \subseteq Nat \ {0} /\ 1 \in Plans
    /\ IsFiniteSet(Plans) /\ IsFiniteSet(Topups) /\ IsFiniteSet(Customers)
    /\ Buyer \in [Topups -> Customers]
ASSUME BoundsAssumption == MaxManagers \in Nat /\ MaxSends \in Nat

VARIABLES
    db,         \* the committed rows
    keys,       \* storefront_api_commands, by idempotency key
    req,        \* the request each slot works on
    asked,      \* the requests of the administrators, as they first sent them
    sends,      \* how many were sent, and sent again
    sweep,      \* the below-cost sweep
    world,      \* what happens in this behaviour
    told,       \* history: the latest answer under each key
    did,        \* history: how often the command of a key took effect
    calls       \* history: how often a key's call to Telegram or the panel was made

history == <<told, did, calls>>
vars == <<db, keys, req, asked, sends, sweep, world, history>>

\* Keys: <<n, 0>> of request n, <<n, t>> of a bulk decision's top-up t, and constant ones:
\* trial-auto-reset:{period}, belowcost-sweep:{run_id}:plan:{id} and ...:shopstate:{id}.
TrialKey == <<0, 0>>
SweepKey(p) == <<0, p>>
ClosingKey == <<-1, 0>>
Keys == ((1..MaxSends) \X (Topups \cup {0})) \cup ({0} \X (Plans \cup {0})) \cup {ClosingKey}

\* cost: the reseller's price of a gigabyte.  ledger: sum of the rows of
\* storefront_wallet_txns that are no top-ups; uses: redemptions of the code.
Shop == [version : Nat, closed : BOOLEAN, trial : BOOLEAN, card : BOOLEAN, number : {None, "card"},
         text : {None, "text"}, events : BOOLEAN, managers : SUBSET Customers, period : {None, "now"},
         channel : {None, "c1", "c2"}, required : BOOLEAN, verified : BOOLEAN, error : BOOLEAN,
         token : Nat]
SomePlan == [on : BOOLEAN, gb : 1..2, price : Nat, order : Nat]
Plan == SomePlan \cup {None, Gone}
Customer == [banned : BOOLEAN, trial : BOOLEAN, bal : Nat]
\* crypto, txid: a deposit on a chain, and its id or 0; code: was a credit code entered with it?
SomeTopup == [status : {"pending", "confirmed", "rejected"}, amount : Nat, code : BOOLEAN,
          crypto : BOOLEAN, txid : Nat]
Topup == SomeTopup \cup {None}
Code == [on : BOOLEAN, archived : BOOLEAN, gift : BOOLEAN, worth : Nat, cap : Nat, used : Nat]

Database == [shop : Shop, plan : [Plans -> Plan], cust : [Customers -> Customer],
             topup : [Topups -> Topup], code : Code \cup {None},
             order : {"active", "disabled", "deleted"}, cost : Nat,
             ledger : [Customers -> Int], uses : [Customers -> Nat]]

Settings == [card : BOOLEAN] \cup [number : {None, "card"}] \cup [trial : BOOLEAN]
            \cup [text : {None, "text"}] \cup [closed : BOOLEAN] \cup [events : BOOLEAN]
Command ==
    [do : {"create_plan"}, gb : 1..2, price : Nat]
    \cup [do : {"update_plan"}, p : Plans, set : {[price |-> 1], [price |-> 2], [gb |-> 2]}]
    \cup [do : {"set_plan_enabled"}, p : Plans, on : BOOLEAN]
    \cup [do : {"delete_plan"}, p : Plans]
    \cup [do : {"reorder_plans"}, ids : {<<2, 1>>, <<1, 2>>}]
    \cup [do : {"update_payment", "update_trial", "update_messages", "update_shop_state",
                "update_notifications"}, set : Settings]
    \cup [do : {"set_channel_required"}, set : [required : {FALSE}]]
    \cup [do : {"channel.save", "channel.enable"}, channel : {None, "c1", "c2"}]
    \cup [do : {"add_manager", "remove_manager"}, m : Customers]
    \cup [do : {"set_customer_banned"}, c : Customers, on : BOOLEAN]
    \cup [do : {"adjust_wallet"}, c : Customers, n : Int]
    \cup [do : {"set_topup_decision"}, t : Topups, yes : BOOLEAN, n : Nat]
    \cup [do : {"bulk_topup_decisions"}, yes : BOOLEAN]
    \cup [do : {"create_credit"}, gift : BOOLEAN, worth : Nat, cap : Nat]
    \cup [do : {"update_credit"}, set : {[worth |-> 2], [on |-> TRUE]}]
    \cup [do : {"set_credit_enabled", "order.set_enabled"}, on : BOOLEAN]
    \cup [do : {"archive_credit", "delete_channel", "reset_free_trials", "order.delete"}]
Key == [intent : [cmd : Command, seen : Nat], status : {"pending", "succeeded", "failed", "unknown"},
        answer : {None, "ok", "refused", "config_conflict", "unknown"}, lease : BOOLEAN]
\* A request; while it decides one of many top-ups, its parent is the bulk request.
Request(Parents) ==
    [key : Keys, cmd : Command, by : Customers \cup {Owner, System},
     via : {"portal", "flow", "button", "system"}, seen : Nat,
     step : {"sent", "open", "call", "answer", "items"}, view : Database \cup {None},
     answer : {None, "yes", "no", "unclear"}, left : SUBSET Topups, parent : Parents, token : Nat]
Asked == [cmd : Command, by : Customers \cup {Owner}, via : {"portal", "flow", "button"}, seen : Nat]

ASSUME NoneShopAssumption ==
    /\ None \notin {Gone, "now", "ok", "refused", "config_conflict"}
    /\ \A x \in {None, Gone} :
          x \notin Shop \cup SomePlan \cup Customer \cup SomeTopup \cup Code \cup Key \cup Request({None})
ASSUME WorldsAssumption ==
    \A w \in Worlds :
        /\ w.sends \in 0..MaxSends /\ w.by \subseteq Customers \cup {Owner}
        /\ w.bal \in Nat /\ w.tried \in BOOLEAN
        /\ w.code \in Code \cup {None} /\ (w.code # None => w.code.used = 0)

TypeOK ==
    /\ db \in Database
    /\ keys \in [Keys -> Key \cup {None}]
    /\ req \in [Slots -> Request(Request({None}) \cup {None}) \cup {None}]
    /\ asked \in Seq(Asked) /\ sends \in 0..MaxSends /\ Len(asked) <= sends
    /\ world \in Worlds
    /\ did \in [Keys -> Nat] /\ calls \in [Keys -> Nat]

-----------------------------------------------------------------------------
(* A session writes the attributes that changed since it loaded the row;   *)
(* rows of the ledger and of redemptions are only ever inserted.           *)

MergeRow(now, loaded, wanted) ==
    CASE wanted = loaded -> now
      [] wanted # loaded /\ {None, Gone} \cap {now, loaded, wanted} # {} -> wanted
      [] OTHER -> [a \in DOMAIN now |-> IF wanted[a] = loaded[a] THEN now[a] ELSE wanted[a]]
MergeRows(now, loaded, wanted) == [i \in DOMAIN now |-> MergeRow(now[i], loaded[i], wanted[i])]
Inserted(now, loaded, wanted) == [i \in DOMAIN now |-> now[i] + wanted[i] - loaded[i]]
Flush(now, loaded, wanted) ==
    [now EXCEPT !.shop = MergeRow(@, loaded.shop, wanted.shop),
                !.plan = MergeRows(@, loaded.plan, wanted.plan),
                !.cust = MergeRows(@, loaded.cust, wanted.cust),
                !.topup = MergeRows(@, loaded.topup, wanted.topup),
                !.code = MergeRow(@, loaded.code, wanted.code),
                !.ledger = Inserted(@, loaded.ledger, wanted.ledger),
                !.uses = Inserted(@, loaded.uses, wanted.uses)]

-----------------------------------------------------------------------------
(* What each command makes of the rows c: one outcome, or none if refused. *)

Given(ok, to) == IF ok THEN {to} ELSE {}
\* A row with the attributes that a command sets.
Updated(row, set) == [a \in DOMAIN row |-> IF a \in DOMAIN set THEN set[a] ELSE row[a]]
Listed(c) == {p \in Plans : c.plan[p] \notin {None, Gone}}
OnSale(c) == {p \in Listed(c) : c.plan[p].on}
BelowCost(c, gb, price) == price < c.cost * gb

create_plan(cmd, c) ==
    LET new == {p \in Plans : c.plan[p] = None}
    IN Given(~BelowCost(c, cmd.gb, cmd.price) /\ new # {},
             [c EXCEPT !.plan[Min(new)] = [on |-> TRUE, gb |-> cmd.gb, price |-> cmd.price,
                                           order |-> Cardinality(Listed(c))]])
update_plan(cmd, c) ==
    LET merged == Updated(c.plan[cmd.p], cmd.set)
    IN Given(cmd.p \in Listed(c) /\ ~BelowCost(c, merged.gb, merged.price),
             [c EXCEPT !.plan[cmd.p] = merged])
\* A plan below cost can always be switched off.
set_plan_enabled(cmd, c) ==
    Given(/\ cmd.p \in Listed(c)
          /\ cmd.on => ~BelowCost(c, c.plan[cmd.p].gb, c.plan[cmd.p].price),
          [c EXCEPT !.plan[cmd.p].on = cmd.on])
delete_plan(cmd, c) == Given(cmd.p \in Listed(c), [c EXCEPT !.plan[cmd.p] = Gone])
reorder_plans(cmd, c) ==
    LET place(p) == CHOOSE i \in DOMAIN cmd.ids : cmd.ids[i] = p
    IN Given({cmd.ids[i] : i \in DOMAIN cmd.ids} = Listed(c),
             [c EXCEPT !.plan = [p \in Plans |->
                IF p \in Listed(c) THEN [@[p] EXCEPT !.order = place(p) - 1] ELSE @[p]]])

Set(cmd, c) == [c EXCEPT !.shop = Updated(@, cmd.set)]
update_payment(cmd, c) ==
    LET to == Set(cmd, c) IN Given(to.shop.card => to.shop.number # None, to)
update_trial(cmd, c) == {Set(cmd, c)}
update_messages(cmd, c) == {Set(cmd, c)}
update_shop_state(cmd, c) == {Set(cmd, c)}
update_notifications(cmd, c) == {Set(cmd, c)}
set_channel_required(cmd, c) ==
    Given(cmd.set.required => c.shop.channel # None /\ c.shop.verified /\ ~c.shop.error, Set(cmd, c))
delete_channel(cmd, c) ==
    {[c EXCEPT !.shop.required = FALSE, !.shop.channel = None, !.shop.verified = FALSE,
               !.shop.error = FALSE]}
\* The checked channel, once Telegram has confirmed that the bot administers it.
save_channel(cmd, c) ==
    {[c EXCEPT !.shop.required = TRUE, !.shop.channel = cmd.channel, !.shop.verified = TRUE,
               !.shop.error = FALSE]}

add_manager(cmd, c) ==
    Given(/\ cmd.m \in c.shop.managers \/ Cardinality(c.shop.managers) < MaxManagers
          /\ ~c.cust[cmd.m].banned,
          [c EXCEPT !.shop.managers = @ \cup {cmd.m}])
remove_manager(cmd, c) == {[c EXCEPT !.shop.managers = @ \ {cmd.m}]}
\* At most once a month, for every customer at once.
reset_free_trials(cmd, c) ==
    Given(c.shop.period = None,
          [c EXCEPT !.shop.period = "now", !.cust = [i \in Customers |-> [@[i] EXCEPT !.trial = FALSE]]])
set_customer_banned(cmd, c) == {[c EXCEPT !.cust[cmd.c].banned = cmd.on]}

Moves(c, i, n) == [c EXCEPT !.cust[i].bal = @ + n]
\* A debit stops at zero; the ledger has what really moved.
adjust_wallet(cmd, c) ==
    LET n == Max({cmd.n, -c.cust[cmd.c].bal})
    IN {[Moves(c, cmd.c, n) EXCEPT !.ledger[cmd.c] = @ + n]}

\* per_customer_limit is 1, as it is by default.
Redeemable(c, i, n) ==
    /\ c.code # None /\ ~c.code.archived /\ c.code.on
    /\ c.uses[i] < 1 /\ c.code.used < c.code.cap
    /\ c.code.gift \/ n > 0
Redeem(c, i) ==
    [Moves(c, i, c.code.worth) EXCEPT !.code.used = @ + 1, !.uses[i] = @ + 1,
                                      !.ledger[i] = @ + c.code.worth]
confirm_topup(t, n, c) ==
    LET i == Buyer[t]
        paid == [Moves(c, i, n) EXCEPT !.topup[t] = [@ EXCEPT !.status = "confirmed", !.amount = n]]
    IN IF c.topup[t].code /\ Redeemable(c, i, n) THEN Redeem(paid, i) ELSE paid
\* Decided already: answered as a success that changes nothing.
set_topup_decision(cmd, c) ==
    {CASE c.topup[cmd.t].status # "pending" -> c
       [] c.topup[cmd.t].status = "pending" /\ cmd.yes -> confirm_topup(cmd.t, cmd.n, c)
       [] OTHER -> [c EXCEPT !.topup[cmd.t].status = "rejected"]}

create_credit(cmd, c) ==
    Given(c.code = None, [c EXCEPT !.code = [on |-> TRUE, archived |-> FALSE, gift |-> cmd.gift,
                                             worth |-> cmd.worth, cap |-> cmd.cap, used |-> 0]])
\* Once redeemed, only enabled and expires_at can change.
update_credit(cmd, c) ==
    Given(c.code # None /\ (DOMAIN cmd.set \subseteq {"on"} \/ c.code.used = 0),
          [c EXCEPT !.code = Updated(@, cmd.set)])
set_credit_enabled(cmd, c) ==
    Given(c.code # None /\ (cmd.on => ~c.code.archived), [c EXCEPT !.code.on = cmd.on])
archive_credit(cmd, c) ==
    Given(c.code # None, [c EXCEPT !.code.on = FALSE, !.code.archived = TRUE])

Outcomes(cmd, c) ==
    CASE cmd.do = "create_plan" -> create_plan(cmd, c)
      [] cmd.do = "update_plan" -> update_plan(cmd, c)
      [] cmd.do = "set_plan_enabled" -> set_plan_enabled(cmd, c)
      [] cmd.do = "delete_plan" -> delete_plan(cmd, c)
      [] cmd.do = "reorder_plans" -> reorder_plans(cmd, c)
      [] cmd.do = "update_payment" -> update_payment(cmd, c)
      [] cmd.do = "update_trial" -> update_trial(cmd, c)
      [] cmd.do = "update_messages" -> update_messages(cmd, c)
      [] cmd.do = "update_shop_state" -> update_shop_state(cmd, c)
      [] cmd.do = "update_notifications" -> update_notifications(cmd, c)
      [] cmd.do = "set_channel_required" -> set_channel_required(cmd, c)
      [] cmd.do = "delete_channel" -> delete_channel(cmd, c)
      [] cmd.do \in {"channel.save", "channel.enable"} -> save_channel(cmd, c)
      [] cmd.do = "add_manager" -> add_manager(cmd, c)
      [] cmd.do = "remove_manager" -> remove_manager(cmd, c)
      [] cmd.do = "reset_free_trials" -> reset_free_trials(cmd, c)
      [] cmd.do = "set_customer_banned" -> set_customer_banned(cmd, c)
      [] cmd.do = "adjust_wallet" -> adjust_wallet(cmd, c)
      [] cmd.do = "set_topup_decision" -> set_topup_decision(cmd, c)
      [] cmd.do = "create_credit" -> create_credit(cmd, c)
      [] cmd.do = "update_credit" -> update_credit(cmd, c)
      [] cmd.do = "set_credit_enabled" -> set_credit_enabled(cmd, c)
      [] cmd.do = "archive_credit" -> archive_credit(cmd, c)

-----------------------------------------------------------------------------
(* The surfaces, and what an administrator can send from each.             *)

Portal(C) == {[via |-> "portal", cmd |-> c] : c \in C}
Flow(C) == {[via |-> "flow", cmd |-> c] : c \in C}
Button(C) == {[via |-> "button", cmd |-> c] : c \in C}

CreatePlans == {[do |-> "create_plan", gb |-> 1, price |-> n] : n \in 1..2}
UpdatePlans == {[do |-> "update_plan", p |-> p, set |-> s] :
                    p \in Plans, s \in {[price |-> 1], [price |-> 2], [gb |-> 2]}}
EnablePlans == {[do |-> "set_plan_enabled", p |-> p, on |-> b] : p \in Plans, b \in BOOLEAN}
DeletePlans == {[do |-> "delete_plan", p |-> p] : p \in Plans}
ReorderPlans == {[do |-> "reorder_plans", ids |-> <<2, 1>>], [do |-> "reorder_plans", ids |-> <<1, 2>>]}
BotPlanAdd == Flow(CreatePlans)
BotPlanList == Button(EnablePlans \cup DeletePlans \cup ReorderPlans)
BotPlanEdit == Flow(UpdatePlans)
PortalPlans == Portal(CreatePlans \cup UpdatePlans \cup EnablePlans \cup DeletePlans \cup ReorderPlans)

Toggle(do, a) == {[do |-> do, set |-> [x \in {a} |-> b]] : b \in BOOLEAN}
Numbers == {[do |-> "update_payment", set |-> [number |-> n]] : n \in {None, "card"}}
Texts == {[do |-> "update_messages", set |-> [text |-> n]] : n \in {None, "text"}}
\* The bot never clears a card number: an empty message is no message.
BotPayment == Button(Toggle("update_payment", "card")) \cup Flow({c \in Numbers : c.set.number # None})
BotTrial == Button(Toggle("update_trial", "trial"))
BotMessages == Flow(Texts)
BotShopState == Button(Toggle("update_shop_state", "closed") \cup Toggle("update_notifications", "events"))
PortalSettings ==
    Portal(Numbers \cup Texts \cup Toggle("update_payment", "card") \cup Toggle("update_trial", "trial")
           \cup Toggle("update_shop_state", "closed") \cup Toggle("update_notifications", "events"))

SaveChannels == {[do |-> "channel.save", channel |-> ch] : ch \in {"c1", "c2"}}
EnableChannel == {[do |-> "channel.enable", channel |-> None]}
BotChannelSave == Flow(SaveChannels)
BotChannelToggle ==
    Button(EnableChannel \cup {[do |-> "set_channel_required", set |-> [required |-> FALSE]]})
BotChannelClear == Button({[do |-> "delete_channel"]})
PortalChannel == Portal(SaveChannels \cup EnableChannel \cup {[do |-> "delete_channel"]}
                        \cup {[do |-> "set_channel_required", set |-> [required |-> FALSE]]})

Managers(do) == {[do |-> do, m |-> m] : m \in Customers}
BotManagers == Flow(Managers("add_manager")) \cup Button(Managers("remove_manager"))
PortalManagers == Portal(Managers("add_manager") \cup Managers("remove_manager"))
Bans == {[do |-> "set_customer_banned", c |-> c, on |-> b] : c \in Customers, b \in BOOLEAN}
BotBans == Button(Bans)
PortalBans == Portal(Bans)

Requested == {t \in Topups : db.topup[t] # None}
Confirms(n) ==
    {[do |-> "set_topup_decision", t |-> t, yes |-> TRUE, n |-> db.topup[t].amount + n] : t \in Requested}
Rejects == {[do |-> "set_topup_decision", t |-> t, yes |-> FALSE, n |-> 0] : t \in Requested}
Adjusts == {[do |-> "adjust_wallet", c |-> c, n |-> n] : c \in Customers, n \in {-2, 1}}
BotTopups == Button(Confirms(0) \cup Rejects) \cup Flow(Confirms(1))
BotAdjusts == Flow(Adjusts)
PortalTopups == Portal(Confirms(0) \cup Confirms(1) \cup Rejects)
                \cup Portal({[do |-> "bulk_topup_decisions", yes |-> b] : b \in BOOLEAN})
PortalAdjusts == Portal(Adjusts)

CreateCredits == {[do |-> "create_credit", gift |-> g, worth |-> 1, cap |-> 1] : g \in BOOLEAN}
EnableCredits == {[do |-> "set_credit_enabled", on |-> b] : b \in BOOLEAN}
BotCreditAdd == Flow(CreateCredits)
BotCreditList == Button(EnableCredits \cup {[do |-> "archive_credit"]})
PortalCredits ==
    Portal(CreateCredits \cup EnableCredits \cup {[do |-> "archive_credit"]}
           \cup {[do |-> "update_credit", set |-> s] : s \in {[worth |-> 2], [on |-> TRUE]}})

PortalOrders == Portal({[do |-> "order.set_enabled", on |-> b] : b \in BOOLEAN} \cup {[do |-> "order.delete"]})

Offered ==
    BotPlanAdd \cup BotPlanList \cup BotPlanEdit \cup PortalPlans \cup BotPayment \cup BotTrial
    \cup BotMessages \cup BotShopState \cup PortalSettings \cup BotChannelSave \cup BotChannelToggle
    \cup BotChannelClear \cup PortalChannel \cup BotManagers \cup PortalManagers \cup BotBans
    \cup PortalBans \cup BotTopups \cup BotAdjusts \cup PortalTopups \cup PortalAdjusts
    \cup BotCreditAdd \cup BotCreditList \cup PortalCredits \cup PortalOrders

-----------------------------------------------------------------------------
(* Kinds of commands.                                                      *)

Channels == {"channel.save", "channel.enable"}
Orders == {"order.set_enabled", "order.delete"}
External(cmd) == cmd.do \in Channels \cup Orders
Entities == {"set_customer_banned", "adjust_wallet", "set_topup_decision", "create_credit",
             "update_credit", "set_credit_enabled", "archive_credit", "bulk_topup_decisions"}
\* Mutant of OnVersion: settings are saved like a customer's row.
OnVersionButSettings(cmd) == cmd.do \notin Entities \cup Orders \cup {"update_payment"}
OnVersion(cmd) == cmd.do \notin Entities \cup Orders
OwnerOnly(cmd) == cmd.do \in Orders \cup {"add_manager", "remove_manager"}
\* Rows read again under their lock, or written blindly by one UPDATE.
\* Mutant of Locked: an adjustment starts from the balance it loaded.
LockedButAdjust(cmd) == cmd.do \in {"set_topup_decision", "reset_free_trials"}
Locked(cmd) == cmd.do \in {"set_topup_decision", "adjust_wallet", "reset_free_trials"}

\* What the key is compared on: a configuration command's intent has its version.
Intent(r) == [cmd |-> r.cmd, seen |-> IF OnVersion(r.cmd) THEN r.seen ELSE 0]
Allowed(r) ==
    \/ r.by \in {Owner, System}
    \/ r.via # "portal" /\ r.by \in db.shop.managers /\ ~OwnerOnly(r.cmd)

-----------------------------------------------------------------------------
(* Claiming an idempotency key.                                            *)

Current == db.shop.version
Sent(key, cmd, by, via, seen) ==
    [key |-> key, cmd |-> cmd, by |-> by, via |-> via, seen |-> IF OnVersion(cmd) THEN seen ELSE 0,
     step |-> "sent", view |-> None, answer |-> None, left |-> {}, parent |-> None, token |-> 0]
Row(r, status, answer) == [intent |-> Intent(r), status |-> status, answer |-> answer, lease |-> FALSE]
Pending(r) == [Row(r, "pending", None) EXCEPT !.lease = TRUE]

\* Mutant of Claim: a command whose answer never came is called again.
ClaimAgain(r) ==
    LET row == keys[r.key]
    IN CASE row = None -> "claimed"
         [] row # None /\ row.intent # Intent(r) -> "conflict"
         [] row # None /\ row.intent = Intent(r) ->
                CASE row.status \in {"succeeded", "failed"} -> "replay"
                  [] row.status = "unknown" -> "unknown"
                  [] row.status = "pending" /\ row.lease -> "in_flight"
                  [] OTHER -> "claimed"
Claim(r) ==
    LET row == keys[r.key]
    IN CASE row = None -> "claimed"
         [] row # None /\ row.intent # Intent(r) -> "conflict"
         [] row # None /\ row.intent = Intent(r) ->
                CASE row.status \in {"succeeded", "failed"} -> "replay"
                  [] row.status = "unknown" -> "unknown"
                  [] row.status = "pending" /\ row.lease -> "in_flight"
                  [] row.status = "pending" /\ ~row.lease /\ External(r.cmd) -> "expired"
                  [] OTHER -> "claimed"

\* The inserted key of an open transaction makes the next one wait for its end.
Busy(s) == \E o \in Slots \ {s} :
    req[o] # None /\ req[o].key = req[s].key /\ req[o].step = "open" /\ ~External(req[o].cmd)
\* A request that may claim its key now, and what it would get.
Claims(s, outcome) ==
    /\ req[s] # None /\ req[s].step = "sent" /\ Allowed(req[s]) /\ ~Busy(s)
    /\ Claim(req[s]) = outcome

\* The answer to slot s, which may be lost on its way to an administrator.
Reply(s, answer) ==
    LET r == req[s]
    IN /\ req' = [req EXCEPT ![s] = r.parent]
       /\ \/ told' = [told EXCEPT ![r.key] = answer]
          \/ "lost" \in world.may /\ r.by # System /\ r.parent = None /\ told' = told
Caches(s, status, answer) == keys' = [keys EXCEPT ![req[s].key] = Row(req[s], status, answer)]
To(s, r) == req' = [req EXCEPT ![s] = r] /\ UNCHANGED told
ChannelError == db' = [db EXCEPT !.shop.error = TRUE]

-----------------------------------------------------------------------------
(* Sending a request, and what is answered without working on it.          *)

\* A flow that was refused goes on under a new key, with the version it began with.
Seen(o, by) ==
    {Current} \cup {asked[i].seen : i \in {j \in DOMAIN asked :
        /\ o.via = "flow" /\ asked[j].via = "flow" /\ asked[j].by = by
        /\ asked[j].cmd.do = o.cmd.do /\ told[<<j, 0>>] = "refused"}}
Ask(s) ==
    /\ req[s] = None /\ sends < world.sends
    /\ \E o \in Offered, by \in world.by :
          /\ o.cmd.do \in world.do /\ o.via \in world.via
          /\ o.via = "portal" => by = Owner
          /\ \E seen \in Seen(o, by) :
                LET r == Sent(<<Len(asked) + 1, 0>>, o.cmd, by, o.via, seen)
                IN /\ req' = [req EXCEPT ![s] = r]
                   /\ asked' = Append(asked, [cmd |-> r.cmd, by |-> by, via |-> o.via, seen |-> r.seen])
    /\ sends' = sends + 1
    /\ UNCHANGED <<db, keys, sweep, world, history>>
\* No answer came.  The portal sends the same request; a button sends the version its handler reads.
Again(s) ==
    /\ "again" \in world.may /\ req[s] = None /\ sends < world.sends
    /\ \E i \in DOMAIN asked :
          /\ told[<<i, 0>>] \in {None, "in_flight"}
          /\ \E seen \in {asked[i].seen} \cup (IF asked[i].via = "button" THEN {Current} ELSE {}) :
                req' = [req EXCEPT ![s] = Sent(<<i, 0>>, asked[i].cmd, asked[i].by, asked[i].via, seen)]
    /\ sends' = sends + 1
    /\ UNCHANGED <<db, keys, asked, sweep, world, history>>

Deny(s) ==
    /\ req[s] # None /\ req[s].step = "sent" /\ ~Allowed(req[s])
    /\ Reply(s, "denied")
    /\ UNCHANGED <<db, keys, asked, sends, sweep, world, did, calls>>
Replay(s) ==
    /\ Claims(s, "replay")
    /\ Reply(s, keys[req[s].key].answer)
    /\ UNCHANGED <<db, keys, asked, sends, sweep, world, did, calls>>
TurnAway(s) ==
    /\ \/ Claims(s, "conflict") /\ Reply(s, "idempotency_conflict")
       \/ Claims(s, "in_flight") /\ Reply(s, "in_flight")
       \/ Claims(s, "unknown") /\ Reply(s, "unknown")
    /\ UNCHANGED <<db, keys, asked, sends, sweep, world, did, calls>>
Expire(s) ==
    /\ Claims(s, "expired")
    /\ Caches(s, "unknown", "unknown") /\ Reply(s, "unknown")
    /\ UNCHANGED <<db, asked, sends, sweep, world, did, calls>>

-----------------------------------------------------------------------------
(* A command on the database: _execute and _execute_entity.                *)

Begin(s) ==
    /\ Claims(s, "claimed") /\ ~External(req[s].cmd) /\ req[s].cmd.do # "bulk_topup_decisions"
    /\ \/ /\ Outcomes(req[s].cmd, db) = {}
          /\ Caches(s, "failed", "refused") /\ Reply(s, "refused")
       \/ /\ Outcomes(req[s].cmd, db) # {}
          /\ To(s, [req[s] EXCEPT !.step = "open", !.view = db])
          /\ UNCHANGED keys
    /\ UNCHANGED <<db, asked, sends, sweep, world, did, calls>>

Opened(s) == req[s] # None /\ req[s].step = "open"
Stale(r) == OnVersion(r.cmd) /\ Current # r.seen
Clash(r) == r.cmd.do = "create_credit" /\ db.code # None
Commit(s) ==
    /\ Opened(s) /\ ~Stale(req[s]) /\ ~Clash(req[s])
    /\ LET r == req[s]
           base == IF Locked(r.cmd) THEN db ELSE r.view
       IN /\ \E to \in Outcomes(r.cmd, base) :
                db' = [Flush(db, base, to) EXCEPT !.shop.version = IF OnVersion(r.cmd) THEN @ + 1 ELSE @]
          /\ did' = [did EXCEPT ![r.key] = @ + 1]
    /\ Caches(s, "succeeded", "ok") /\ Reply(s, "ok")
    /\ UNCHANGED <<asked, sends, sweep, world, calls>>
\* Another command committed first.
Conflict(s) ==
    /\ Opened(s) /\ Stale(req[s])
    /\ Caches(s, "failed", "config_conflict") /\ Reply(s, "config_conflict")
    /\ UNCHANGED <<db, asked, sends, sweep, world, did, calls>>
\* The unique index on a shop's codes: the transaction is rolled back, its key with it.
Rollback(s) ==
    /\ Opened(s) /\ Clash(req[s])
    /\ Reply(s, "error")
    /\ UNCHANGED <<db, keys, asked, sends, sweep, world, did, calls>>

-----------------------------------------------------------------------------
(* A command that calls Telegram or the panel between two transactions.    *)

\* Claimed and committed before the call; refused at once on an old version or without a channel.
BeginExternal(s) ==
    /\ Claims(s, "claimed") /\ External(req[s].cmd)
    /\ LET r == req[s]
           checked == r.cmd.do \in Channels
           channel == IF r.cmd.do = "channel.save" THEN r.cmd.channel ELSE db.shop.channel
       IN \/ /\ checked /\ Current # r.seen
             /\ Caches(s, "failed", "config_conflict") /\ Reply(s, "config_conflict") /\ UNCHANGED db
          \/ /\ checked /\ Current = r.seen /\ channel = None
             /\ ChannelError /\ Caches(s, "failed", "refused") /\ Reply(s, "refused")
          \/ /\ checked /\ Current = r.seen /\ channel # None
             /\ keys' = [keys EXCEPT ![r.key] = Pending(r)]
             /\ To(s, [r EXCEPT !.step = "call", !.cmd.channel = channel, !.token = db.shop.token])
             /\ UNCHANGED db
          \/ /\ ~checked
             /\ keys' = [keys EXCEPT ![r.key] = Pending(r)]
             /\ To(s, [r EXCEPT !.step = "call"])
             /\ UNCHANGED db
    /\ UNCHANGED <<asked, sends, sweep, world, did, calls>>

Calling(s, answer) ==
    /\ req[s] # None /\ req[s].step = "call"
    /\ calls' = [calls EXCEPT ![req[s].key] = @ + 1]
    /\ To(s, [req[s] EXCEPT !.step = "answer", !.answer = answer])
    /\ UNCHANGED <<keys, asked, sends, sweep, world, did>>
\* Is the bot an administrator of the channel?
CheckChannel(s) ==
    /\ \E answer \in {"yes", "no"} \cup ({"unclear"} \cap world.may) : Calling(s, answer)
    /\ req[s].cmd.do \in Channels
    /\ UNCHANGED db
\* An order that is deleted already cannot be paused, resumed or deleted.
ChangeOrder(s) ==
    \E answer \in {"yes", "no"} \cup ({"unclear"} \cap world.may) :
        /\ Calling(s, answer)
        /\ req[s].cmd.do \in Orders
        /\ answer = "no" <=> db.order = "deleted"
        /\ \/ answer = "yes" /\ db' = [db EXCEPT !.order =
                    CASE req[s].cmd.do = "order.delete" -> "deleted"
                      [] req[s].cmd.do = "order.set_enabled" /\ req[s].cmd.on -> "active"
                      [] OTHER -> "disabled"]
           \/ answer # "yes" /\ UNCHANGED db

Answered(s, kinds) == req[s] # None /\ req[s].step = "answer" /\ req[s].cmd.do \in kinds
FinishOrder(s) ==
    /\ Answered(s, Orders)
    /\ LET r == req[s]
           done == r.answer = "yes" \/ (r.answer = "no" /\ r.cmd.do = "order.delete")
       IN \/ /\ done /\ Caches(s, "succeeded", "ok") /\ Reply(s, "ok")
             /\ did' = [did EXCEPT ![r.key] = @ + 1]
          \/ /\ ~done /\ r.answer = "no"
             /\ Caches(s, "failed", "refused") /\ Reply(s, "refused") /\ UNCHANGED did
          \/ /\ r.answer = "unclear"
             /\ Caches(s, "unknown", "unknown") /\ Reply(s, "unknown") /\ UNCHANGED did
    /\ UNCHANGED <<db, asked, sends, sweep, world, calls>>

\* Authorised once more.
FinishDenied(s) ==
    /\ Answered(s, Channels) /\ ~Allowed(req[s])
    /\ Reply(s, "denied")
    /\ UNCHANGED <<db, keys, asked, sends, sweep, world, did, calls>>
\* No other request can have finished the command: its key is pending or, in the end, unknown.
Unsettled(s) == Answered(s, Channels) /\ Allowed(req[s])
InTime(s) == keys[req[s].key].status = "pending" /\ keys[req[s].key].lease
FinishUnknown(s) ==
    /\ Unsettled(s) /\ (req[s].answer = "unclear" \/ ~InTime(s))
    /\ ChannelError /\ Caches(s, "unknown", "unknown") /\ Reply(s, "unknown")
    /\ UNCHANGED <<asked, sends, sweep, world, did, calls>>
FinishFailed(s) ==
    /\ Unsettled(s) /\ InTime(s) /\ req[s].answer # "unclear"
    /\ LET moved == db.shop.token # req[s].token
           why == IF moved THEN "config_conflict" ELSE "refused"
       IN /\ moved \/ req[s].answer = "no"
          /\ Caches(s, "failed", why) /\ Reply(s, why)
    /\ ChannelError
    /\ UNCHANGED <<asked, sends, sweep, world, did, calls>>
FinishChannel(s) ==
    /\ Unsettled(s) /\ InTime(s) /\ req[s].answer = "yes" /\ db.shop.token = req[s].token
    /\ To(s, [req[s] EXCEPT !.step = "open", !.view = db])
    /\ UNCHANGED <<db, keys, asked, sends, sweep, world, did, calls>>

-----------------------------------------------------------------------------
(* A bulk decision: one key for all, and one for each top-up.              *)

BeginBulk(s) ==
    /\ Claims(s, "claimed") /\ req[s].cmd.do = "bulk_topup_decisions"
    /\ keys' = [keys EXCEPT ![req[s].key] = Pending(req[s])]
    /\ To(s, [req[s] EXCEPT !.step = "items", !.left = Requested])
    /\ UNCHANGED <<db, asked, sends, sweep, world, did, calls>>
NextItem(s) ==
    /\ req[s] # None /\ req[s].step = "items"
    /\ \E t \in req[s].left :
          LET r == req[s]
              item == [do |-> "set_topup_decision", t |-> t, yes |-> r.cmd.yes,
                       n |-> IF r.cmd.yes THEN db.topup[t].amount ELSE 0]
          IN To(s, [Sent(<<r.key[1], t>>, item, r.by, r.via, 0) EXCEPT
                        !.parent = [r EXCEPT !.left = @ \ {t}]])
    /\ UNCHANGED <<db, keys, asked, sends, sweep, world, did, calls>>
EndItems(s) ==
    /\ req[s] # None /\ req[s].step = "items" /\ req[s].left = {}
    /\ Caches(s, "succeeded", "ok") /\ Reply(s, "ok")
    /\ UNCHANGED <<db, asked, sends, sweep, world, did, calls>>

-----------------------------------------------------------------------------
(* The sweeps.                                                             *)

Idle(key) == {s \in Slots : req[s] # None /\ req[s].key = key} = {}
TrialSweep(s) ==
    /\ "trial" \in world.may /\ req[s] = None /\ Idle(TrialKey)
    /\ db.shop.trial /\ ~db.shop.closed /\ db.shop.period = None
    /\ req' = [req EXCEPT ![s] = Sent(TrialKey, [do |-> "reset_free_trials"], System, "system", Current)]
    /\ UNCHANGED <<db, keys, asked, sends, sweep, world, history>>

\* Every plan on sale below cost, and whether the shop has no other.
BelowScan ==
    /\ "below" \in world.may /\ sweep = None
    /\ LET low == {p \in OnSale(db) : BelowCost(db, db.plan[p].gb, db.plan[p].price)}
       IN /\ low # {}
          /\ sweep' = [left |-> low, will |-> low = OnSale(db) /\ ~db.shop.closed,
                       sent |-> None, close |-> FALSE]
    /\ UNCHANGED <<db, keys, req, asked, sends, world, history>>
Sweeping == sweep # None /\ (sweep.sent # None => Idle(sweep.sent))
Through == Sweeping /\ (sweep.sent # None => told[sweep.sent] = "ok")
Sweep(s, key, cmd) == req' = [req EXCEPT ![s] = Sent(key, cmd, System, "system", Current)]
BelowPlan(s) ==
    /\ Through /\ req[s] = None
    /\ \E p \in sweep.left :
          /\ Sweep(s, SweepKey(p), [do |-> "set_plan_enabled", p |-> p, on |-> FALSE])
          /\ sweep' = [sweep EXCEPT !.left = @ \ {p}, !.sent = SweepKey(p)]
    /\ UNCHANGED <<db, keys, asked, sends, world, history>>
\* The plans are read again; the version is read after them, by BelowClose.
BelowCheck ==
    /\ Through /\ sweep.left = {} /\ ~sweep.close
    /\ sweep' = IF sweep.will /\ OnSale(db) = {} /\ ~db.shop.closed
                THEN [sweep EXCEPT !.close = TRUE, !.sent = None] ELSE None
    /\ UNCHANGED <<db, keys, req, asked, sends, world, history>>
BelowClose(s) ==
    /\ Sweeping /\ sweep.close /\ req[s] = None
    /\ Sweep(s, ClosingKey, [do |-> "update_shop_state", set |-> [closed |-> TRUE]])
    /\ sweep' = None
    /\ UNCHANGED <<db, keys, asked, sends, world, history>>
\* A refused command ends the sweep of the shop.
BelowStops ==
    /\ Sweeping /\ ~Through
    /\ sweep' = None
    /\ UNCHANGED <<db, keys, req, asked, sends, world, history>>

-----------------------------------------------------------------------------
(* Everyone else.                                                          *)

CostMoves ==
    /\ "cost" \in world.may /\ db.cost = 1
    /\ db' = [db EXCEPT !.cost = 2]
    /\ UNCHANGED <<keys, req, asked, sends, sweep, world, history>>
ReplaceToken ==
    /\ "token" \in world.may /\ db.shop.token = 0
    /\ db' = [db EXCEPT !.shop.token = 1]
    /\ UNCHANGED <<keys, req, asked, sends, sweep, world, history>>

LeaseOver(k) ==
    /\ "late" \in world.may /\ keys[k] # None /\ keys[k].lease
    /\ keys' = [keys EXCEPT ![k].lease = FALSE]
    /\ UNCHANGED <<db, req, asked, sends, sweep, world, history>>
\* prune_commands; what it deletes is 30 days old, and no request is sent again that late.
Reap(k) ==
    /\ keys[k] # None /\ keys[k].status = "pending" /\ ~keys[k].lease /\ External(keys[k].intent.cmd)
    /\ keys' = [keys EXCEPT ![k].status = "unknown", ![k].answer = "unknown"]
    /\ UNCHANGED <<db, req, asked, sends, sweep, world, history>>
\* What the process had not committed is gone; a sweep dies with its command.
Crash(s) ==
    /\ "crash" \in world.may /\ req[s] # None
    /\ req' = [req EXCEPT ![s] = None]
    /\ sweep' = IF sweep # None /\ sweep.sent = req[s].key THEN None ELSE sweep
    /\ UNCHANGED <<db, keys, asked, sends, world, history>>

-----------------------------------------------------------------------------

Init ==
    /\ world \in Worlds
    /\ db = [shop |-> [version |-> 1, closed |-> FALSE, trial |-> TRUE, card |-> FALSE, number |-> None,
                       text |-> None, events |-> TRUE, managers |-> world.by \ {Owner}, period |-> None,
                       channel |-> "c1", required |-> FALSE, verified |-> TRUE, error |-> FALSE,
                       token |-> 0],
             plan |-> [p \in Plans |-> IF p = 1 \/ p \in world.plans
                                       THEN [on |-> TRUE, gb |-> 1, price |-> p, order |-> p - 1] ELSE None],
             cust |-> [i \in Customers |-> [banned |-> FALSE, trial |-> world.tried, bal |-> world.bal]],
             topup |-> [t \in Topups |-> IF t \notin world.topups THEN None ELSE
                         [status |-> "pending", amount |-> 1, code |-> world.code # None,
                          crypto |-> FALSE, txid |-> 0]],
             code |-> world.code, order |-> "active", cost |-> 1,
             ledger |-> [i \in Customers |-> world.bal], uses |-> [i \in Customers |-> 0]]
    /\ keys = [k \in Keys |-> None] /\ told = [k \in Keys |-> None]
    /\ did = [k \in Keys |-> 0] /\ calls = [k \in Keys |-> 0]
    /\ req = [s \in Slots |-> None]
    /\ asked = <<>> /\ sends = 0 /\ sweep = None

Next ==
    \/ \E s \in Slots :
          \/ Ask(s) \/ Again(s) \/ Deny(s) \/ Replay(s) \/ TurnAway(s) \/ Expire(s)
          \/ Begin(s) \/ Commit(s) \/ Conflict(s) \/ Rollback(s)
          \/ BeginExternal(s) \/ CheckChannel(s) \/ ChangeOrder(s) \/ FinishOrder(s)
          \/ FinishDenied(s) \/ FinishUnknown(s) \/ FinishFailed(s) \/ FinishChannel(s)
          \/ BeginBulk(s) \/ NextItem(s) \/ EndItems(s)
          \/ TrialSweep(s) \/ BelowPlan(s) \/ BelowClose(s) \/ Crash(s)
    \/ BelowScan \/ BelowCheck \/ BelowStops \/ CostMoves \/ ReplaceToken
    \/ \E k \in Keys : LeaseOver(k) \/ Reap(k)

Spec == Init /\ [][Next]_vars

-----------------------------------------------------------------------------

Config(c) == [shop |-> [a \in DOMAIN c.shop \ {"error", "token"} |-> c.shop[a]], plan |-> c.plan]
\* The configuration is only changed by a command of someone who may still give it, on
\* the very configuration he saw, and it becomes exactly what the command makes of that:
\* no edit of another surface is lost, and none lands after its author was dismissed
\* (_cas and the merge of loaded rows).  The cost and the bans are as the command read them.
EditsCompose ==
    [][Config(db') # Config(db) =>
        \E s \in Slots :
            /\ Opened(s) /\ Allowed(req[s]) /\ db'.shop.version = req[s].seen + 1
            /\ \E to \in Outcomes(req[s].cmd, [db EXCEPT !.cost = req[s].view.cost,
                                                         !.cust = req[s].view.cust]) :
                  Config(db') = Config([to EXCEPT !.shop.version = @ + 1])]_vars

\* However often a request is sent, and whatever crashes or is answered late, its command
\* takes effect at most once and its call is made at most once; who is told it succeeded
\* or failed is told the truth (claim_command).
OncePerKey ==
    \A k \in Keys :
        /\ did[k] <= 1 /\ calls[k] <= 1
        /\ told[k] = "ok" => did[k] = 1 \/ keys[k].intent.cmd.do = "bulk_topup_decisions"
        /\ told[k] \in {"refused", "config_conflict"} => did[k] = 0
=============================================================================
