------------------------------ MODULE Deposits ------------------------------
(***************************************************************************)
(* What a payment on a chain is worth, and whether it is there to stay.    *)
(* Rates are fetched and cached by a job, by the owner and before invoices *)
(* are made; a reseller is shown an amount at the rate in use; when the    *)
(* transaction is submitted the chain is read, and a deposit that matches, *)
(* lies deep enough and is recent settles the invoice by itself.           *)
(*                                                                         *)
(* Time goes by in ticks, and in each a block is made that has the tick    *)
(* for its number.  A coin's price is what one costs, in Toman or, AVAX on *)
(* the market, in dollars; an amount of a coin is the price at which it is *)
(* worth the invoice.  The invoice is one of MonthlyBilling's.             *)
(***************************************************************************)
EXTENDS MonthlyBilling, Sequences

CONSTANTS
    Payer,              \* the reseller whose invoice is paid
    Prices,             \* what a coin can cost
    Band,               \* plausible prices of each coin: _ABS_MIN.._ABS_MAX and the like
    Settings,           \* how the owner may have set the rates up
    RateAge,            \* rate_max_age_hours; 0 is no limit
    DepositAge,         \* payment_auto_confirm_max_age_hours
    ReadTimeout,        \* _AUTO_CONFIRM_TIMEOUT_S
    MinConfirmations,
    ReorgDepth,         \* at most so many of the newest blocks are replaced
    MaxTime

Coins == {"usdt", "ton", "avax"}
Modes == {"auto", "manual"}

ASSUME DepositNumbers ==
    /\ {RateAge, DepositAge, ReadTimeout, MinConfirmations, ReorgDepth, MaxTime} \subseteq Nat
    /\ Prices \subseteq Nat \ {0} /\ Band \in [Coins -> SUBSET (Nat \ {0})]
ASSUME SettingsAssumption ==
    /\ Settings \subseteq [mode : [Coins -> Modes], manual : [Coins -> Prices \cup {0}]] /\ Settings # {}
    /\ \A w \in Worlds : "deposit" \in w.does => w.settings \subseteq Settings /\ w.coins \subseteq Coins
ASSUME NoneAssumption ==
    /\ None \notin Nat /\ None \notin [amount : Nat, ok : BOOLEAN, block : Nat \cup {None}]
    /\ None \notin [status : {"draft", "sent", "paid"}, amount : Nat]
ASSUME PayerAssumption == Payer \in Admins

VARIABLES
    now,
    market,     \* prices at each tick, from the first to this one
    setting,    \* rate_mode and manual rate of each coin
    cached,     \* last fetched rate of each coin, 0 if there is none, and its time
    tx,         \* the transaction: its amount, its block, whether it succeeded
    pay,        \* the payment row: coin, status and whether the owner was told
    check       \* the automatic confirmation under way: what it has read, and, as history,
                \* the newest block there was when it read which block the transaction is in
depositVars == <<now, market, setting, cached, tx, pay, check>>
vars == <<billingVars, depositVars>>

Deposit == "deposit" \in world.does
NoCheck == [step |-> "none", since |-> 0, amount |-> 0, block |-> None, newest |-> 0,
            height |-> None, time |-> None]

Time == Nat \cup {None}
Steps == {"none", "transaction", "receipt", "height", "time", "rate", "accepted", "declined", "confirmed", "over"}
DepositTypes ==
    /\ now \in 0..MaxTime
    /\ market \in Seq([Coins -> Nat \ {0}]) /\ Len(market) = now + 1
    /\ setting \in Settings
    /\ cached \in [Coins -> [rate : Nat, at : Time]]
    /\ tx \in [amount : Nat, ok : BOOLEAN, block : Time] \cup {None}
    /\ pay \in [coin : Coins, status : {"none", "pending", "auto", "verified", "rejected"},
                owner : {"unaware", "informed", "asked"}]
    /\ check \in [step : Steps, since : Nat, amount : Nat, block : Time, newest : Nat,
                  height : Time, time : Time]

Today == [c \in Coins |-> 2]
Uncached == [c \in Coins |-> [rate |-> 0, at |-> None]]
FirstRate(c) == IF c = "avax" THEN Today["avax"] * Today["usdt"] ELSE Today[c]

\* Billing is over in the behaviours with a deposit, and the reseller has the invoice.
Sent == [a \in Admins |-> IF a = Payer THEN [status |-> "sent", amount |-> 0] ELSE None]
Init ==
    /\ world \in Worlds
    /\ IF Deposit THEN BillingInit(Sent, "completed") ELSE BillingInit([a \in Admins |-> None], "none")
    /\ now = 0 /\ market = <<Today>> /\ tx = None /\ check = NoCheck
    /\ \E c \in (IF Deposit THEN world.coins ELSE {"usdt"}) :
          pay = [coin |-> c, status |-> "none", owner |-> "unaware"]
    /\ setting \in (IF Deposit THEN world.settings ELSE {CHOOSE s \in Settings : TRUE})
    /\ cached \in (IF "first fetch" \in world.does THEN {Uncached} ELSE {})
                      \cup {[c \in Coins |-> [rate |-> FirstRate(c), at |-> 0]]}

-----------------------------------------------------------------------------
(* The world.                                                              *)

Quiet == UNCHANGED <<syncs, panel, stored, inv, run, work, history>>
Alone == UNCHANGED billingVars

Passes(prices) ==
    /\ Deposit /\ now < MaxTime
    /\ now' = now + 1 /\ market' = Append(market, prices)
    /\ UNCHANGED <<setting, cached, tx, pay, check>>
Tick == Passes(market[now + 1]) /\ Alone
\* A price that matters here doubles or halves.
Watched == IF pay.coin = "avax" THEN {"usdt", "avax"} ELSE {pay.coin}
Move ==
    /\ Event("market") /\ Quiet
    /\ \E c \in Watched : \E p \in Prices :
          /\ p = 2 * market[now + 1][c] \/ 2 * p = market[now + 1][c]
          /\ Passes([market[now + 1] EXCEPT ![c] = p])

\* The newest blocks are replaced; the transaction is in another of them, or in none.
Reorg ==
    /\ pay.coin # "ton" /\ tx # None /\ tx.block # None /\ Fault("reorg")
    /\ \E depth \in 1..ReorgDepth :
          /\ tx.block > now - depth
          /\ \E b \in {None} \cup {t \in 0..now : t > now - depth} : tx' = [tx EXCEPT !.block = b]
    /\ UNCHANGED <<now, market, setting, cached, pay, check>> /\ Quiet

-----------------------------------------------------------------------------
(* Rates.                                                                  *)

\* _rate_is_fresh: a rate without a time is not, unless rates never get too old.
Recent(c) == RateAge = 0 \/ (cached[c].at # None /\ now - cached[c].at =< RateAge)
Live(c) == cached[c].rate > 0 /\ Recent(c)

\* get_effective_rate, and the rates of the coins: a stale rate is used for want of another.
UsdtInUse == IF setting.mode["usdt"] = "auto" /\ Live("usdt") THEN cached["usdt"].rate ELSE setting.manual["usdt"]
CoinInUse(c) ==
    IF setting.mode[c] = "auto" /\ (Live(c) \/ setting.manual[c] = 0) THEN cached[c].rate ELSE setting.manual[c]
TonInUse == CoinInUse("ton")
AvaxInUse == CoinInUse("avax")
InUse(c) == IF c = "usdt" THEN UsdtInUse ELSE IF c = "ton" THEN TonInUse ELSE AvaxInUse

\* A source that does not answer, and the one asked in its place, leave everything as it is.
QuoteUsdt == market[now + 1]["usdt"]
QuoteTon == market[now + 1]["ton"]
QuoteAvax == market[now + 1]["avax"]

\* Mutant of Plausible: the rate before is not looked at.
InBand(c, rate, before) == rate \in Band[c]
\* The absolute band and the relative one; a rate before is never too old to compare with.
Plausible(c, rate, before) ==
    rate \in Band[c] /\ (before = 0 \/ (before <= 3 * rate /\ rate <= 3 * before))

\* The rate is committed and then its time: a stop in between leaves the time of the rate
\* before.  Only the coin of the payment, and the one its rate is made from, is looked at.
Cache(c, rate) ==
    /\ Deposit /\ {"market", "slip"} \cap world.does # {} /\ c \in Watched
    /\ \/ cached' = [cached EXCEPT ![c] = [rate |-> rate, at |-> now]]
       \/ "stop" \in world.does /\ cached' = [cached EXCEPT ![c].rate = rate]
    /\ UNCHANGED <<now, market, setting, tx, pay, check>> /\ Quiet
\* A source that answers gives the price, or the Toman price in Rial.
Quoted(price, q) == (q = price /\ UNCHANGED world_) \/ (q = 10 * price /\ Fault("slip"))

RefreshUsdt ==
    LET before == IF cached["usdt"].rate > 0 THEN cached["usdt"].rate ELSE setting.manual["usdt"]
    IN \E q \in {QuoteUsdt, 10 * QuoteUsdt} :
          Quoted(QuoteUsdt, q) /\ Plausible("usdt", q, before) /\ Cache("usdt", q)
RefreshTon ==
    \E q \in {QuoteTon, 10 * QuoteTon} :
       Quoted(QuoteTon, q) /\ Plausible("ton", q, cached["ton"].rate) /\ Cache("ton", q)
RefreshAvax ==
    /\ UsdtInUse > 0 /\ UNCHANGED world_
    /\ Plausible("avax", QuoteAvax * UsdtInUse, cached["avax"].rate) /\ Cache("avax", QuoteAvax * UsdtInUse)
\* rate_refresh_job, the owner's button and generate_invoices refresh one after the other.
Refresh == RefreshUsdt \/ RefreshTon \/ RefreshAvax

-----------------------------------------------------------------------------
(* The payment.                                                            *)

\* pay_options: the USDT figure is the invoice's own.
Asked == IF pay.coin = "usdt" THEN 1 ELSE InUse(pay.coin)

\* The reseller sends what was asked for, or too little; the transaction can revert.
Send ==
    /\ "send" \in world.does /\ tx = None /\ pay.status = "none"
    /\ \E how \in {<<Asked, TRUE>>, <<0, TRUE>>, <<Asked, FALSE>>} :
          tx' = [amount |-> how[1], ok |-> how[2], block |-> now]
    /\ UNCHANGED <<now, market, setting, cached, pay, check>> /\ Alone

Owed == inv[Payer] # None /\ inv[Payer].status = "sent"
\* Submitted against an owed invoice, the payment is committed as pending and the chain is
\* read at once, unless the owner has turned that off.
Submit ==
    /\ tx # None /\ pay.status = "none" /\ Owed
    /\ pay' = [pay EXCEPT !.status = "pending"]
    /\ check' = [NoCheck EXCEPT !.since = now, !.step =
                    IF "by hand" \in world.does THEN "declined"
                    ELSE IF pay.coin = "avax" THEN "transaction" ELSE "receipt"]
    /\ UNCHANGED <<now, market, setting, cached, tx>> /\ Alone

Reading == {"transaction", "receipt", "height", "time", "rate"}
InTime == now - check.since =< ReadTimeout
Read(step) == check.step = step /\ InTime
Goes(next) == check' = next /\ UNCHANGED <<now, market, setting, cached, tx, pay>>

There == tx.block # None /\ tx.ok
\* An AVAX transaction has its amount before it is in a block, and when it failed.
ReadTransaction ==
    /\ Read("transaction")
    /\ Goes([check EXCEPT !.step = "receipt", !.amount = tx.amount]) /\ Alone
ReadUsdt ==
    /\ pay.coin = "usdt" /\ Read("receipt") /\ There
    /\ Goes([check EXCEPT !.step = "height", !.amount = tx.amount, !.block = tx.block, !.newest = now]) /\ Alone
ReadAvax ==
    /\ pay.coin = "avax" /\ Read("receipt") /\ There
    /\ Goes([check EXCEPT !.step = "height", !.block = tx.block, !.newest = now]) /\ Alone
\* toncenter gives amount and time at once, or leaves the time out.
ReadTon ==
    /\ pay.coin = "ton" /\ Read("receipt") /\ There
    /\ \/ Goes([check EXCEPT !.step = "rate", !.amount = tx.amount, !.time = tx.block]) /\ Alone
       \/ Fault("node") /\ Goes([check EXCEPT !.step = "rate", !.amount = tx.amount]) /\ Quiet
\* What is not there, has failed or cannot be read leaves the payment to the owner.
ReadNothing ==
    \/ /\ (Read("transaction") /\ tx.block = None) \/ (Read("receipt") /\ ~There)
       /\ Goes([check EXCEPT !.step = "declined"]) /\ Alone
    \/ /\ Read("transaction") \/ Read("receipt")
       /\ Fault("node") /\ Goes([check EXCEPT !.step = "declined"]) /\ Quiet

\* The newest block and the block's time, each of which may stay unknown.
ReadHeight ==
    /\ Read("height")
    /\ \/ Goes([check EXCEPT !.step = "time", !.height = now]) /\ Alone
       \/ Fault("node") /\ Goes([check EXCEPT !.step = "time"]) /\ Quiet
ReadTime ==
    /\ Read("time")
    /\ \/ Goes([check EXCEPT !.step = "rate", !.time = check.block]) /\ Alone
       \/ Fault("node") /\ Goes([check EXCEPT !.step = "rate"]) /\ Quiet

TimeOut ==
    /\ check.step \in Reading /\ ~InTime
    /\ Goes([check EXCEPT !.step = "declined"]) /\ Alone

\* Mutant of Confirmations: blocks are counted from the one before the transaction's.
OneTooMany == IF check.block > check.height + 2 THEN 0 ELSE check.height + 2 - check.block
Confirmations == IF check.block > check.height + 1 THEN 0 ELSE check.height + 1 - check.block
Deep == MinConfirmations = 0 \/ (check.height # None /\ Confirmations >= MinConfirmations)
Young == check.time # None /\ now - check.time =< DepositAge

\* The deposit checks: the amount against the invoice, in Toman at the rate in use.
UsdtMatches == check.amount = 1
TonMatches == TonInUse > 0 /\ check.amount = TonInUse
AvaxMatches == AvaxInUse > 0 /\ check.amount = AvaxInUse
Matches == IF pay.coin = "usdt" THEN UsdtMatches ELSE IF pay.coin = "ton" THEN TonMatches ELSE AvaxMatches

Accepted == Matches /\ (pay.coin = "ton" \/ Deep) /\ Young
Verdict ==
    /\ Read("rate")
    /\ Goes([check EXCEPT !.step = IF Accepted THEN "accepted" ELSE "declined"]) /\ Alone

\* _mark_invoices_paid marks only what is owed.
SettleWith(status, step) ==
    /\ inv' = IF Owed THEN [inv EXCEPT ![Payer].status = "paid"] ELSE inv
    /\ pay' = [pay EXCEPT !.status = status]
    /\ check' = [check EXCEPT !.step = step]
    /\ UNCHANGED <<now, market, setting, cached, tx>>
    /\ UNCHANGED <<world_, panel, stored, syncs, run, work, history>>
\* _confirm_payment, under the locks: the payment still pending, its invoice not back to a
\* draft and not deleted; one that is paid already is confirmed as well.
Confirmable == pay.status = "pending" /\ inv[Payer] # None /\ inv[Payer].status # "draft"
AutoConfirm ==
    /\ check.step = "accepted"
    /\ \/ Confirmable /\ SettleWith("auto", "confirmed")
       \/ ~Confirmable /\ Goes([check EXCEPT !.step = "declined"]) /\ Alone

\* The owner's button asks BscScan, which knows a deposit's depth itself, with the payment's
\* row locked all the while: one step, as it makes one request.  A payment that was
\* rejected is looked up as well.
Shown == There /\ now - tx.block + 1 >= MinConfirmations
PaidMeanwhile == inv[Payer] # None /\ inv[Payer].status = "paid"
Reviewed(status) ==
    pay' = [pay EXCEPT !.status = status] /\ UNCHANGED <<now, market, setting, cached, tx, check>> /\ Alone
Verify ==
    /\ pay.coin = "usdt" /\ pay.status \in {"pending", "rejected"}
    /\ \/ Shown /\ (PaidMeanwhile \/ (Owed /\ tx.amount = 1)) /\ SettleWith("verified", check.step)
       \/ Shown /\ Owed /\ tx.amount = 0 /\ Reviewed("rejected")
       \/ ~(Shown /\ (PaidMeanwhile \/ Owed)) /\ Reviewed("pending")

\* The owner is told what came of it, with the buttons to decide if nothing did.
Announce ==
    /\ check.step \in {"confirmed", "declined"}
    /\ pay' = [pay EXCEPT !.owner = IF check.step = "confirmed" THEN "informed" ELSE "asked"]
    /\ check' = [check EXCEPT !.step = "over"]
    /\ UNCHANGED <<now, market, setting, cached, tx>> /\ Alone

-----------------------------------------------------------------------------
DepositStep ==
    \/ Tick \/ Move \/ Reorg \/ Refresh \/ Send \/ Submit
    \/ ReadTransaction \/ ReadUsdt \/ ReadAvax \/ ReadTon \/ ReadNothing \/ ReadHeight \/ ReadTime
    \/ TimeOut \/ Verdict \/ AutoConfirm \/ Verify \/ Announce
Next == DepositStep \/ (BillingNext /\ UNCHANGED depositVars)
Spec == Init /\ [][Next]_vars /\ BillingFairness

-----------------------------------------------------------------------------
(* Properties.                                                             *)

\* What the rate in use can rest on: the owner's figure, a price not older than the rates may
\* be, or for a coin without an owner's figure any price there was.  AVAX is computed with
\* the USDT rate in use then, which may have been as old again.
Trusted == IF RateAge = 0 THEN MaxTime ELSE RateAge
Since(age) == {t \in 0..now : now - t =< age}
Known(c, age) == {market[t + 1][c] : t \in Since(age)}
UsdtReal(age) == Known("usdt", age) \cup {setting.manual["usdt"]}
Times(p, q) == {a * b : a \in p, b \in q}
Oldest(c) == IF setting.manual[c] = 0 THEN MaxTime ELSE Trusted
Real(c) ==
    {setting.manual[c]} \cup
    IF c = "usdt" THEN Known("usdt", Trusted)
    ELSE IF c = "ton" THEN Known("ton", Oldest("ton"))
    ELSE Times(Known("avax", Oldest("avax")), UsdtReal(Oldest("avax") + Trusted))

\* No invoice is made and no deposit is judged at a rate no market had lately, whatever the
\* sources get wrong and however long they are silent.
RateIsReal == \A c \in Watched : InUse(c) \in Real(c) \cup {0}

\* An invoice that was settled from the chain stays paid for: the transaction is taken away
\* only where the replaced blocks, and in the automatic confirmation the blocks that came
\* while it read, block first and height then, reach the confirmations it asks for.
Meanwhile == IF check.height = None THEN 0 ELSE check.height - check.newest
SettledIsFinal ==
    tx = None \/ tx.block = None =>
        /\ pay.status = "verified" => ReorgDepth >= MinConfirmations
        /\ pay.status = "auto" => ReorgDepth + Meanwhile >= MinConfirmations

=============================================================================
