--------------------------- MODULE DepositsProofs ---------------------------
(***************************************************************************)
(* Proofs about Deposits and the billing in it: a rate in use is one a     *)
(* market had, what the chain read settles stays paid for, a reseller is   *)
(* told of an invoice once, what is stored of a panel never gets older,    *)
(* and a cycle is completed when everybody with sales has been billed.     *)
(***************************************************************************)
EXTENDS Deposits, FiniteSetTheorems, TLAPS

\* Where a source slips, a rate is there to compare with, and a price doubles or halves at
\* most once.
SlipsShow ==
    \A w \in Worlds : {"deposit", "slip"} \subseteq w.does => w.events <= 1 /\ "first fetch" \notin w.does

\* A cached rate is the price of some moment, not before the time it carries.
UsdtThen(t) == {setting.manual["usdt"]} \cup {market[u + 1]["usdt"] : u \in {x \in 0..t : t - x <= Trusted}}
NotBefore(c, t) == cached[c].at = None \/ cached[c].at <= t
Fetched(c) ==
    \E t \in 0..now :
       /\ NotBefore(c, t)
       /\ IF c = "avax" THEN \E b \in UsdtThen(t) : cached[c].rate = market[t + 1][c] * b
          ELSE cached[c].rate = market[t + 1][c]
Genuine(c) == NotBefore(c, now) /\ (cached[c].rate = 0 \/ Fetched(c))
CachedReal == \A c \in Coins : Genuine(c)
Calm ==
    Deposit /\ "slip" \in world.does =>
        /\ \A i, j \in 0..now : \A c \in Coins : market[i + 1][c] <= 2 * market[j + 1][c]
        /\ events = 0 => \A i, j \in 0..now : market[i + 1] = market[j + 1]
        /\ \A c \in Coins : cached[c].rate > 0
RateInv == CachedReal /\ Calm

\* The types, with a transaction wherever there is a payment.
WorldTypes == world \in Worlds /\ events \in Nat /\ faults \in Nat
Begun == check.step # "none" \/ pay.status # "none" => tx # None
TypesInv == WorldTypes /\ DepositTypes /\ Begun

\* The block that was read is the transaction's for good if it was deep when it was read: a
\* settlement rests on it unless so many blocks came before the height was read.
Old(block, time) == block + ReorgDepth <= time
ReadAlready == {"height", "time", "rate", "accepted"}
NothingRead == {"none", "transaction", "receipt"}
Anchored ==
    check.step \in ReadAlready /\ pay.coin # "ton" =>
        check.block \in Nat /\ (Old(check.block, check.newest) => tx.block = check.block)
Rested(margin) == margin < MinConfirmations => tx.block # None /\ (pay.coin = "ton" \/ Old(tx.block, now))
HeightRead ==
    /\ check.newest <= now /\ (check.height # None => check.newest <= check.height /\ check.height <= now)
    /\ check.step \in NothingRead => check.height = None
FinalInv ==
    /\ tx # None /\ tx.block # None => tx.block <= now
    /\ tx # None /\ pay.coin = "ton" => tx.block # None
    /\ HeightRead /\ Anchored
    /\ check.step = "accepted" /\ pay.coin # "ton" /\ ReorgDepth + Meanwhile < MinConfirmations =>
          Old(check.block, check.newest)
    /\ pay.status = "auto" => check.step \in {"confirmed", "over"} /\ Rested(ReorgDepth + Meanwhile)
    /\ pay.status = "verified" => Rested(ReorgDepth)

\* Messages of the owner's that are still to be sent, and whether the one message is out.
Busy(w) == work[w].step \in {"telling", "told"}
Away(a) == inv[a] # None /\ inv[a].status # "draft"
Awaits(w, a) ==
    work[w].again /\ \/ work[w].step = "sending" /\ a \in work[w].todo
                     \/ work[w].step = "telling" /\ work[w].at = a
Unsaved(w, a) == work[w].step = "told" /\ work[w].outcome = "sent" /\ work[w].at = a
Pending(a) == {w \in Workers : Awaits(w, a)}
Out(a) == Away(a) \/ \E w \in Workers : Unsaved(w, a)
One(fact) == IF fact THEN 1 ELSE 0
BillingTypes ==
    /\ TypeOK /\ events \in Nat /\ events <= world.events /\ \A p \in Panels : panel[p].edition <= events
    /\ told \in [Admins -> Nat] /\ redone \in [Admins -> Nat]
Busies ==
    \A w \in Workers : Busy(w) =>
        /\ work[w].at \in Admins /\ (work[w].again \/ ~Away(work[w].at))
        /\ \A v \in Workers : Busy(v) /\ work[v].at = work[w].at => v = w
AgainOnce(w) ==
    work[w].again =>
        /\ ~work[w].cycle /\ work[w].step \in {"sending", "telling", "told"} /\ (Busy(w) => work[w].todo = {})
        /\ \A a, b \in work[w].todo : a = b
Agains == \A w \in Workers : AgainOnce(w)
Bound == \A a \in Admins : told[a] + Cardinality(Pending(a)) <= redone[a] + One(Out(a))
ToldInv == Busies /\ Agains /\ Bound

\* A panel's editions lose admins and never get them back, and so do the copies of them: what
\* a sync has read is as old as the panel at most, and unless another sync overtook it not
\* older than what is stored.
PanelSound(p) ==
    /\ stored[p].edition <= panel[p].edition
    /\ panel[p].sells \subseteq panel[p].here /\ panel[p].here \subseteq stored[p].here
    /\ stored[p].sells \subseteq stored[p].here /\ stored[p].here \subseteq stored[p].rows
    /\ stored[p].rows \subseteq AdminsOf(p)
DataSound(k) ==
    syncs[k] # None /\ syncs[k].data # None =>
        /\ syncs[k].data.edition <= panel[k[1]].edition
        /\ syncs[k].data.sells \subseteq syncs[k].data.here /\ panel[k[1]].here \subseteq syncs[k].data.here
        /\ syncs[k].data.here \subseteq AdminsOf(k[1])
        /\ ~syncs[k].newer => /\ stored[k[1]].edition <= syncs[k].data.edition
                              /\ syncs[k].data.here \subseteq stored[k[1]].here
PanelsInv == (\A p \in Panels : PanelSound(p)) /\ \A k \in Keys : DataSound(k)

\* A cycle without a problem has the invoice of each reseller it owes one still before it,
\* in its hands or behind it.
OneCycle ==
    \A v, w \in Workers :
        work[v].step # "idle" /\ work[v].cycle /\ work[w].step # "idle" /\ work[w].cycle => v = w
Ahead(w, r) ==
    \/ work[w].step = "generated" \/ r \in work[w].todo
    \/ work[w].at = r /\ (work[w].step = "telling" \/ (work[w].step = "told" /\ work[w].outcome \in {"sent", "failed"}))
Handled(w, r) == ~Present(r) \/ (inv[r] # None /\ (inv[r].status \in {"sent", "paid"} \/ Reach[r] # "ok" \/ Ahead(w, r)))
Accounted(w, a) == ExemptBranch(a) \/ \E r \in Branch(a) : Handled(w, r)
Clean(w) == work[w].step \in {"generated", "sending", "telling", "told"} /\ work[w].cycle /\ ~work[w].problem
Cycles == OneCycle /\ \A w \in Workers : work[w].step = "syncing" => work[w].cycle
OwingInv ==
    /\ owing \subseteq Admins /\ Cycles
    /\ \A w \in Workers : Clean(w) => \A a \in owing : Accounted(w, a)

-----------------------------------------------------------------------------
(* The billing beside the deposit.                                         *)

\* Billing, and what people do, leaves the world as it is and counts events and faults up.
LEMMA BillingWorld ==
    ASSUME BillingNext
    PROVE  world' = world /\ parent' = parent /\ events' \in {events, events + 1} /\ faults' \in {faults, faults + 1}
<1>1. ASSUME NEW k \in Keys, SyncStep(k)
      PROVE  world' = world /\ parent' = parent /\ events' = events /\ faults' \in {faults, faults + 1}
  BY <1>1 DEF SyncStep, Fetch, WriteSync, FailSync, RecordFailure, Fault, world_
<1>2. ASSUME NEW w \in Workers, Deliver(w)
      PROVE  world' = world /\ parent' = parent /\ events' = events /\ faults' \in {faults, faults + 1}
  BY <1>2 DEF Deliver, ListDrafts, Tell, Record, Vanished, EndByHand, Skip, Take, Fault, world_
<1>3. ASSUME NEW w \in Workers, RunDue(w) \/ Generate(w) \/ FinishRun(w) \/ Raise(w) \/ Crash(w)
      PROVE  world' = world /\ parent' = parent /\ events' = events /\ faults' \in {faults, faults + 1}
  BY <1>3 DEF RunDue, Generate, FinishRun, Raise, Crash, Fault, world_
<1>4. ASSUME Wait \/ MonthEnds PROVE world' = world /\ parent' = parent /\ events' = events /\ faults' = faults
  BY <1>4 DEF Wait, MonthEnds, world_
<1>5. ASSUME ByHand PROVE world' = world /\ parent' = parent /\ events' = events + 1 /\ faults' = faults
  BY <1>5 DEF ByHand, SyncByHand, Sell, Leave, Pay, GenerateByHand, SendPeriodByHand, RetryFailed, SendByHand, Event
<1> QED BY <1>1, <1>2, <1>3, <1>4, <1>5 DEF BillingNext, CycleStep

-----------------------------------------------------------------------------
(* Time and prices.                                                        *)

LEMMA Numbers ==
    /\ RateAge \in Nat /\ DepositAge \in Nat /\ ReadTimeout \in Nat /\ ReorgDepth \in Nat /\ MaxTime \in Nat
    /\ Trusted \in Nat /\ MinConfirmations \in Nat
BY DepositNumbers DEF Trusted

\* A tick adds a price, and no price of before changes.
LEMMA Passing ==
    ASSUME DepositTypes, NEW prices \in [Coins -> Nat \ {0}], Passes(prices)
    PROVE  /\ now' = now + 1 /\ now' \in 0..MaxTime
           /\ market' \in Seq([Coins -> Nat \ {0}]) /\ Len(market') = now' + 1
           /\ \A i \in 0..now : market'[i + 1] = market[i + 1]
           /\ market'[now' + 1] = prices
           /\ UNCHANGED <<setting, cached, tx, pay, check>>
<1>1. now' = now + 1 /\ market' = Append(market, prices) /\ now < MaxTime /\ UNCHANGED <<setting, cached, tx, pay, check>>
  BY DEF Passes
<1>2. now \in Nat /\ now' \in 0..MaxTime BY <1>1, Numbers DEF DepositTypes
<1>3. market \in Seq([Coins -> Nat \ {0}]) /\ Len(market) = now + 1 BY DEF DepositTypes
<1>4. market' \in Seq([Coins -> Nat \ {0}]) /\ Len(market') = now' + 1 BY <1>1, <1>2, <1>3
<1>5. \A i \in 1..Len(market) : market'[i] = market[i] BY <1>1, <1>3
<1>6. ASSUME NEW i \in 0..now PROVE market'[i + 1] = market[i + 1]
  <2>1. i + 1 \in 1..Len(market) BY <1>2, <1>3
  <2> QED BY <1>5, <2>1
<1>7. market'[now' + 1] = prices BY <1>1, <1>2, <1>3
<1> QED BY <1>1, <1>2, <1>4, <1>6, <1>7

LEMMA PriceTypes ==
    ASSUME DepositTypes
    PROVE  \A t \in 0..now : \A c \in Coins : market[t + 1][c] \in Nat \ {0}
<1> SUFFICES ASSUME NEW t \in 0..now, NEW c \in Coins PROVE market[t + 1][c] \in Nat \ {0}
  OBVIOUS
<1>1. market \in Seq([Coins -> Nat \ {0}]) /\ Len(market) = now + 1 /\ now \in 0..MaxTime BY DEF DepositTypes
<1>2. t + 1 \in 1..Len(market) BY <1>1, Numbers
<1>3. market[t + 1] \in [Coins -> Nat \ {0}] BY <1>1, <1>2
<1> QED BY <1>3

\* What a price becomes when it moves.
LEMMA Moving ==
    ASSUME DepositTypes, Move
    PROVE  \E prices \in [Coins -> Nat \ {0}] :
              /\ Passes(prices)
              /\ \A c \in Coins : prices[c] <= 2 * market[now + 1][c] /\ market[now + 1][c] <= 2 * prices[c]
<1>1. PICK c \in Watched, p \in Prices :
          /\ p = 2 * market[now + 1][c] \/ 2 * p = market[now + 1][c]
          /\ Passes([market[now + 1] EXCEPT ![c] = p])
  BY DEF Move
<1>2. p \in Nat \ {0} BY DepositNumbers
<1>3. market \in Seq([Coins -> Nat \ {0}]) /\ now + 1 \in 1..Len(market) BY Numbers DEF DepositTypes
<1>4. market[now + 1] \in [Coins -> Nat \ {0}] BY <1>3
<1>5. c \in Coins BY DEF Watched, DepositTypes, Coins
<1> DEFINE prices == [market[now + 1] EXCEPT ![c] = p]
<1>6. prices \in [Coins -> Nat \ {0}] BY <1>2, <1>4
<1>7. \A d \in Coins : prices[d] = IF d = c THEN p ELSE market[now + 1][d] BY <1>4, <1>5
<1>8. \A d \in Coins : prices[d] <= 2 * market[now + 1][d] /\ market[now + 1][d] <= 2 * prices[d]
  BY <1>1, <1>2, <1>4, <1>7
<1> QED BY <1>1, <1>6, <1>8

-----------------------------------------------------------------------------
(* Types.                                                                  *)

LEMMA SettingTypes ==
    ASSUME DepositTypes
    PROVE  /\ setting.mode \in [Coins -> Modes]
           /\ setting.manual \in [Coins -> Nat]
<1>1. setting \in [mode : [Coins -> Modes], manual : [Coins -> Prices \cup {0}]]
  BY SettingsAssumption DEF DepositTypes
<1>2. Prices \cup {0} \subseteq Nat BY DepositNumbers
<1>3. [Coins -> Prices \cup {0}] \subseteq [Coins -> Nat] BY <1>2
<1> QED BY <1>1, <1>3

LEMMA RatesInUse ==
    ASSUME DepositTypes
    PROVE  UsdtInUse \in Nat /\ Asked \in Nat /\ \A c \in Coins : CoinInUse(c) \in Nat
<1>1. cached \in [Coins -> [rate : Nat, at : Time]] /\ pay.coin \in Coins BY DEF DepositTypes
<1>2. UsdtInUse \in Nat BY <1>1, SettingTypes DEF UsdtInUse, Coins
<1>3. \A c \in Coins : CoinInUse(c) \in Nat BY <1>1, SettingTypes DEF CoinInUse
<1>4. Asked \in Nat BY <1>1, <1>2, <1>3 DEF Asked, InUse, TonInUse, AvaxInUse, Coins
<1> QED BY <1>2, <1>3, <1>4

\* Caching replaces one coin's rate, and may give it its time.
LEMMA Caching ==
    ASSUME DepositTypes, NEW c \in Coins, NEW rate \in Nat, Cache(c, rate)
    PROVE  /\ cached' \in [Coins -> [rate : Nat, at : Time]]
           /\ \A d \in Coins \ {c} : cached'[d] = cached[d]
           /\ cached'[c].rate = rate /\ cached'[c].at \in {now, cached[c].at}
           /\ UNCHANGED <<now, market, setting, tx, pay, check>>
<1>1. cached \in [Coins -> [rate : Nat, at : Time]] /\ now \in Nat BY Numbers DEF DepositTypes
<1>2. cached' = [cached EXCEPT ![c] = [rate |-> rate, at |-> now]] \/ cached' = [cached EXCEPT ![c].rate = rate]
  BY DEF Cache
<1>3. UNCHANGED <<now, market, setting, tx, pay, check>> BY DEF Cache
<1>4. CASE cached' = [cached EXCEPT ![c] = [rate |-> rate, at |-> now]]
  BY <1>1, <1>3, <1>4 DEF Time
<1>5. CASE cached' = [cached EXCEPT ![c].rate = rate]
  BY <1>1, <1>3, <1>5
<1> QED BY <1>2, <1>4, <1>5

\* What a refresh caches.
LEMMA Refreshing ==
    ASSUME DepositTypes, Refresh
    PROVE  \/ \E q \in {QuoteUsdt, 10 * QuoteUsdt} : q \in Nat /\ RefreshUsdt /\ Cache("usdt", q)
           \/ \E q \in {QuoteTon, 10 * QuoteTon} : q \in Nat /\ RefreshTon /\ Cache("ton", q)
           \/ QuoteAvax * UsdtInUse \in Nat /\ RefreshAvax /\ Cache("avax", QuoteAvax * UsdtInUse)
<1>1. now \in 0..now BY Numbers DEF DepositTypes
<1>2. QuoteUsdt \in Nat /\ QuoteTon \in Nat /\ QuoteAvax \in Nat
  BY <1>1, PriceTypes DEF QuoteUsdt, QuoteTon, QuoteAvax, Coins
<1>3. UsdtInUse \in Nat BY RatesInUse
<1>4. QuoteAvax * UsdtInUse \in Nat BY <1>2, <1>3
<1>5. CASE RefreshUsdt
  <2>1. PICK q \in {QuoteUsdt, 10 * QuoteUsdt} : Cache("usdt", q) BY <1>5 DEF RefreshUsdt
  <2>2. q \in Nat BY <1>2
  <2> QED BY <1>5, <2>1, <2>2
<1>6. CASE RefreshTon
  <2>1. PICK q \in {QuoteTon, 10 * QuoteTon} : Cache("ton", q) BY <1>6 DEF RefreshTon
  <2>2. q \in Nat BY <1>2
  <2> QED BY <1>6, <2>1, <2>2
<1>7. CASE RefreshAvax BY <1>4, <1>7 DEF RefreshAvax
<1> QED BY <1>5, <1>6, <1>7 DEF Refresh

LEMMA TypesInit == Init => TypesInv
<1> SUFFICES ASSUME Init PROVE TypesInv
  OBVIOUS
<1>1. world \in Worlds /\ events = 0 /\ faults = 0 BY DEF Init, BillingInit
<1>2. now = 0 /\ market = <<Today>> /\ tx = None /\ check = NoCheck BY DEF Init
<1>3. now \in 0..MaxTime /\ market \in Seq([Coins -> Nat \ {0}]) /\ Len(market) = now + 1
  <2>1. Today \in [Coins -> Nat \ {0}] BY DEF Today
  <2> QED BY <1>2, <2>1, Numbers
<1>4. setting \in Settings
  <2>1. CASE Deposit BY <1>1, <2>1, SettingsAssumption DEF Init, Deposit
  <2>2. CASE ~Deposit BY <2>2, SettingsAssumption DEF Init
  <2> QED BY <2>1, <2>2
<1>5. cached \in [Coins -> [rate : Nat, at : Time]]
  <2>1. Uncached \in [Coins -> [rate : Nat, at : Time]] BY DEF Uncached, Time
  <2>2. \A c \in Coins : FirstRate(c) \in Nat BY DEF FirstRate, Today, Coins
  <2>3. [c \in Coins |-> [rate |-> FirstRate(c), at |-> 0]] \in [Coins -> [rate : Nat, at : Time]]
    BY <2>2 DEF Time
  <2>4. cached = Uncached \/ cached = [c \in Coins |-> [rate |-> FirstRate(c), at |-> 0]] BY DEF Init
  <2> QED BY <2>1, <2>3, <2>4
<1>6. pay \in [coin : Coins, status : {"none", "pending", "auto", "verified", "rejected"},
               owner : {"unaware", "informed", "asked"}]
  <2>1. PICK c \in (IF Deposit THEN world.coins ELSE {"usdt"}) :
            pay = [coin |-> c, status |-> "none", owner |-> "unaware"]
    BY DEF Init
  <2>2. c \in Coins
    <3>1. CASE Deposit BY <1>1, <3>1, SettingsAssumption DEF Deposit
    <3>2. CASE ~Deposit BY <3>2 DEF Coins
    <3> QED BY <3>1, <3>2
  <2> QED BY <2>1, <2>2
<1>7. check \in [step : Steps, since : Nat, amount : Nat, block : Time, newest : Nat, height : Time, time : Time]
  BY <1>2 DEF NoCheck, Steps, Time
<1>8. tx \in [amount : Nat, ok : BOOLEAN, block : Time] \cup {None} BY <1>2
<1>9. Begun
  <2>1. check.step = "none" BY <1>2 DEF NoCheck
  <2>2. pay.status = "none"
    <3>1. PICK c \in (IF Deposit THEN world.coins ELSE {"usdt"}) :
              pay = [coin |-> c, status |-> "none", owner |-> "unaware"]
      BY DEF Init
    <3> QED BY <3>1
  <2> QED BY <2>1, <2>2 DEF Begun
<1> QED BY <1>1, <1>3, <1>4, <1>5, <1>6, <1>7, <1>8, <1>9 DEF DepositTypes, WorldTypes, TypesInv

\* The steps that only read, judge or decide the payment.
PaymentStep ==
    \/ Send \/ Submit \/ ReadTransaction \/ ReadUsdt \/ ReadAvax \/ ReadTon \/ ReadNothing \/ ReadHeight
    \/ ReadTime \/ TimeOut \/ Verdict \/ AutoConfirm \/ Verify \/ Announce

LEMMA PaymentTypes ==
    ASSUME TypesInv, PaymentStep
    PROVE  /\ tx' \in [amount : Nat, ok : BOOLEAN, block : Time] \cup {None}
           /\ pay' \in [coin : Coins, status : {"none", "pending", "auto", "verified", "rejected"},
                        owner : {"unaware", "informed", "asked"}]
           /\ pay'.coin = pay.coin /\ (tx # None => tx' = tx)
           /\ check' \in [step : Steps, since : Nat, amount : Nat, block : Time, newest : Nat, height : Time, time : Time]
           /\ Begun' /\ UNCHANGED <<now, market, setting, cached>>
           /\ world' = world /\ events' = events /\ faults' \in {faults, faults + 1}
<1> DEFINE TxType == [amount : Nat, ok : BOOLEAN, block : Time]
           PayType == [coin : Coins, status : {"none", "pending", "auto", "verified", "rejected"},
                       owner : {"unaware", "informed", "asked"}]
           CheckType == [step : Steps, since : Nat, amount : Nat, block : Time, newest : Nat, height : Time, time : Time]
           Kept == UNCHANGED <<now, market, setting, cached>> /\ pay'.coin = pay.coin
           Beside == world' = world /\ events' = events /\ faults' \in {faults, faults + 1}
           Goal == /\ tx' \in TxType \cup {None} /\ pay' \in PayType /\ check' \in CheckType
                   /\ Kept /\ Beside /\ Begun' /\ (tx # None => tx' = tx)
<1>1. now \in Nat /\ now \in Time BY Numbers DEF TypesInv, DepositTypes, Time
<1>2. tx \in TxType \cup {None} /\ pay \in PayType /\ check \in CheckType /\ DepositTypes
  BY DEF TypesInv, DepositTypes
<1>3. check.step # "none" \/ pay.status # "none" => tx \in TxType /\ tx # None BY <1>2 DEF TypesInv, Begun
<1>4. ASSUME Send PROVE Goal
  <2>1. PICK how \in {<<Asked, TRUE>>, <<0, TRUE>>, <<Asked, FALSE>>} :
            tx' = [amount |-> how[1], ok |-> how[2], block |-> now]
    BY <1>4 DEF Send
  <2>2. Asked \in Nat BY <1>2, RatesInUse
  <2>3. how[1] \in Nat /\ how[2] \in BOOLEAN
    <3>1. CASE how = <<Asked, TRUE>> BY <2>2, <3>1
    <3>2. CASE how = <<0, TRUE>> BY <3>2
    <3>3. CASE how = <<Asked, FALSE>> BY <2>2, <3>3
    <3> QED BY <2>1, <3>1, <3>2, <3>3
  <2>4. tx' \in TxType BY <1>1, <2>1, <2>3
  <2>5. tx = None /\ UNCHANGED <<now, market, setting, cached, pay, check>> /\ Beside
    BY <1>4 DEF Send, Alone, billingVars
  <2>6. Begun' BY <1>3, <2>5 DEF Begun
  <2> QED BY <1>2, <2>4, <2>5, <2>6
<1>5. ASSUME Submit PROVE Goal
  <2>1. /\ pay' = [pay EXCEPT !.status = "pending"] /\ UNCHANGED <<now, market, setting, cached, tx>>
        /\ Beside /\ tx # None
    BY <1>5 DEF Submit, Alone, billingVars
  <2>2. PICK s \in {"declined", "transaction", "receipt"} : check' = [[NoCheck EXCEPT !.since = now] EXCEPT !.step = s]
    BY <1>5 DEF Submit
  <2>3. check' = [step |-> s, since |-> now, amount |-> 0, block |-> None, newest |-> 0,
                 height |-> None, time |-> None]
    BY <2>2 DEF NoCheck
  <2>4. check' \in CheckType BY <1>1, <2>3 DEF Steps, Time
  <2>5. pay' \in PayType /\ pay'.coin = pay.coin BY <1>2, <2>1
  <2>6. Begun' BY <2>1 DEF Begun
  <2> QED BY <1>2, <2>1, <2>4, <2>5, <2>6
<1>6. ASSUME NEW next \in CheckType, Goes(next), check.step # "none", Alone \/ (Quiet /\ Fault("node"))
      PROVE  Goal
  <2>1. check' = next /\ tx' = tx /\ pay' = pay /\ Kept /\ Beside
    BY <1>6 DEF Goes, Alone, billingVars, Fault
  <2> QED BY <1>2, <1>3, <1>6, <2>1 DEF Begun
<1> HIDE DEF Goal
<1>7. ASSUME NEW s \in Steps PROVE [check EXCEPT !.step = s] \in CheckType
  BY <1>2
<1>8. ASSUME NEW s \in Steps, Goes([check EXCEPT !.step = s]), check.step # "none", Alone \/ (Quiet /\ Fault("node"))
      PROVE  Goal
  BY <1>6, <1>7, <1>8
<1>9. ASSUME ReadTransaction \/ ReadUsdt \/ ReadAvax \/ ReadTon PROVE Goal
  <2>1. check.step \in {"transaction", "receipt"} BY <1>9 DEF ReadTransaction, ReadUsdt, ReadAvax, ReadTon, Read
  <2>2. tx.amount \in Nat /\ tx.block \in Time BY <1>3, <2>1
  <2>3. PICK next \in {[[check EXCEPT !.step = "receipt"] EXCEPT !.amount = tx.amount],
                       [[[[check EXCEPT !.step = "height"] EXCEPT !.amount = tx.amount] EXCEPT !.block = tx.block]
                            EXCEPT !.newest = now],
                       [[[check EXCEPT !.step = "height"] EXCEPT !.block = tx.block] EXCEPT !.newest = now],
                       [[[check EXCEPT !.step = "rate"] EXCEPT !.amount = tx.amount] EXCEPT !.time = tx.block],
                       [[check EXCEPT !.step = "rate"] EXCEPT !.amount = tx.amount]} :
            Goes(next) /\ (Alone \/ (Quiet /\ Fault("node")))
    BY <1>9 DEF ReadTransaction, ReadUsdt, ReadAvax, ReadTon
  <2>4. [check EXCEPT !.step = "receipt"] \in CheckType /\ [check EXCEPT !.step = "height"] \in CheckType
        /\ [check EXCEPT !.step = "rate"] \in CheckType
    BY <1>2, <1>7 DEF Steps
  <2>5. ASSUME NEW c \in CheckType
        PROVE  [c EXCEPT !.amount = tx.amount] \in CheckType /\ [c EXCEPT !.block = tx.block] \in CheckType
               /\ [c EXCEPT !.time = tx.block] \in CheckType /\ [c EXCEPT !.newest = now] \in CheckType
    BY <1>1, <2>2
  <2> DEFINE deep == [check EXCEPT !.step = "height"]
             judged == [check EXCEPT !.step = "rate"]
             block == [deep EXCEPT !.block = tx.block]
             amount == [deep EXCEPT !.amount = tx.amount]
             both == [amount EXCEPT !.block = tx.block]
             worth == [judged EXCEPT !.amount = tx.amount]
  <2>6. next \in CheckType
    <3>1. block \in CheckType /\ amount \in CheckType /\ worth \in CheckType BY <2>4, <2>5
    <3>2. both \in CheckType BY <2>5, <3>1
    <3>3. [both EXCEPT !.newest = now] \in CheckType BY <2>5, <3>2
    <3>4. [block EXCEPT !.newest = now] \in CheckType BY <2>5, <3>1
    <3>5. [worth EXCEPT !.time = tx.block] \in CheckType BY <2>5, <3>1
    <3>6. [[check EXCEPT !.step = "receipt"] EXCEPT !.amount = tx.amount] \in CheckType BY <2>4, <2>5
    <3> QED BY <2>3, <3>1, <3>3, <3>4, <3>5, <3>6
  <2> QED BY <1>6, <2>1, <2>3, <2>6
<1>10. ASSUME ReadNothing PROVE Goal
  BY <1>8, <1>10 DEF ReadNothing, Read, Steps
<1>11. ASSUME ReadHeight PROVE Goal
  <2>1. [[check EXCEPT !.step = "time"] EXCEPT !.height = now] \in CheckType
        /\ [check EXCEPT !.step = "time"] \in CheckType
    BY <1>1, <1>2 DEF Steps
  <2> QED BY <1>6, <1>11, <2>1 DEF ReadHeight, Read
<1>12. ASSUME ReadTime PROVE Goal
  <2>1. [[check EXCEPT !.step = "rate"] EXCEPT !.time = check.block] \in CheckType
        /\ [check EXCEPT !.step = "rate"] \in CheckType
    BY <1>1, <1>2 DEF Steps
  <2> QED BY <1>6, <1>12, <2>1 DEF ReadTime, Read
<1>13. ASSUME TimeOut PROVE Goal
  <2>1. Goes([check EXCEPT !.step = "declined"]) /\ check.step # "none" /\ Alone BY <1>13 DEF TimeOut, Reading
  <2> QED BY <1>8, <2>1 DEF Steps
<1>14. ASSUME Verdict PROVE Goal
  <2>1. PICK s \in {"accepted", "declined"} : Goes([check EXCEPT !.step = s])
    BY <1>14 DEF Verdict
  <2> QED BY <1>8, <1>14, <2>1 DEF Verdict, Read, Steps
<1>15. ASSUME NEW status \in {"auto", "verified"}, NEW step \in Steps, SettleWith(status, step),
              pay.status # "none"
       PROVE  Goal
  <2>1. /\ pay' = [pay EXCEPT !.status = status] /\ check' = [check EXCEPT !.step = step]
        /\ UNCHANGED <<now, market, setting, cached, tx>> /\ Beside
    BY <1>15 DEF SettleWith, world_
  <2>2. pay' \in PayType /\ pay'.coin = pay.coin BY <1>2, <2>1
  <2>3. check' \in CheckType BY <1>7, <2>1
  <2>4. Begun' BY <1>3, <1>15, <2>1 DEF Begun
  <2> QED BY <1>2, <2>1, <2>2, <2>3, <2>4 DEF Goal
<1>16. ASSUME AutoConfirm PROVE Goal
  <2>1. CASE Confirmable /\ SettleWith("auto", "confirmed")
    BY <1>15, <2>1 DEF Confirmable, Steps
  <2>2. CASE Goes([check EXCEPT !.step = "declined"]) /\ Alone
    BY <1>8, <1>16, <2>2 DEF AutoConfirm, Steps
  <2> QED BY <1>16, <2>1, <2>2 DEF AutoConfirm
<1>17. ASSUME Verify PROVE Goal
  <2>1. pay.status # "none" BY <1>17 DEF Verify
  <2>2. check.step \in Steps BY <1>2
  <2>3. CASE SettleWith("verified", check.step) BY <1>15, <2>1, <2>2, <2>3
  <2>4. CASE \E status \in {"rejected", "pending"} : Reviewed(status)
    <3>1. PICK status \in {"rejected", "pending"} : Reviewed(status) BY <2>4
    <3>2. pay' = [pay EXCEPT !.status = status] /\ UNCHANGED <<now, market, setting, cached, tx, check>> /\ Beside
      BY <3>1 DEF Reviewed, Alone, billingVars
    <3>3. pay' \in PayType /\ pay'.coin = pay.coin BY <1>2, <3>2
    <3>4. Begun' BY <1>3, <2>1, <3>2 DEF Begun
    <3> QED BY <1>2, <3>2, <3>3, <3>4 DEF Goal
  <2> QED BY <1>17, <2>3, <2>4 DEF Verify
<1>18. ASSUME Announce PROVE Goal
  <2>1. PICK owner \in {"informed", "asked"} : pay' = [pay EXCEPT !.owner = owner]
    BY <1>18 DEF Announce
  <2>2. /\ check.step # "none" /\ check' = [check EXCEPT !.step = "over"]
        /\ UNCHANGED <<now, market, setting, cached, tx>> /\ Beside
    BY <1>18 DEF Announce, Alone, billingVars
  <2>3. pay' \in PayType /\ pay'.coin = pay.coin BY <1>2, <2>1
  <2>4. check' \in CheckType BY <1>7, <2>2 DEF Steps
  <2>5. Begun' BY <1>3, <2>2 DEF Begun
  <2> QED BY <1>2, <2>2, <2>3, <2>4, <2>5 DEF Goal
<1>19. Goal
  BY <1>4, <1>5, <1>9, <1>10, <1>11, <1>12, <1>13, <1>14, <1>16, <1>17, <1>18 DEF PaymentStep
<1> QED BY <1>19 DEF Goal

\* The types stay, whatever happens, and a tick passes only in Tick and Move.
LEMMA TypesStep == TypesInv /\ [Next]_vars => TypesInv'
<1> SUFFICES ASSUME TypesInv, [Next]_vars PROVE TypesInv'
  OBVIOUS
<1> DEFINE Beside == world' = world /\ events' \in {events, events + 1} /\ faults' \in {faults, faults + 1}
<1>1. world \in Worlds /\ events \in Nat /\ faults \in Nat /\ DepositTypes /\ Begun BY DEF TypesInv, WorldTypes
<1>2. Beside => WorldTypes' BY <1>1 DEF WorldTypes
<1>3. ASSUME UNCHANGED depositVars, Beside PROVE TypesInv'
  <2>1. DepositTypes' /\ Begun' BY <1>1, <1>3 DEF DepositTypes, Begun, depositVars
  <2> QED BY <1>2, <1>3, <2>1 DEF TypesInv
<1>4. ASSUME NEW prices \in [Coins -> Nat \ {0}], Passes(prices), Beside PROVE TypesInv'
  <2>1. /\ now' \in 0..MaxTime /\ market' \in Seq([Coins -> Nat \ {0}]) /\ Len(market') = now' + 1
        /\ UNCHANGED <<setting, cached, tx, pay, check>>
    BY <1>1, <1>4, Passing
  <2>2. DepositTypes' /\ Begun' BY <1>1, <2>1 DEF DepositTypes, Begun
  <2> QED BY <1>2, <1>4, <2>2 DEF TypesInv
<1>5. ASSUME Tick PROVE TypesInv'
  <2>1. market[now + 1] \in [Coins -> Nat \ {0}]
    <3>1. market \in Seq([Coins -> Nat \ {0}]) /\ now + 1 \in 1..Len(market) BY <1>1, Numbers DEF DepositTypes
    <3> QED BY <3>1
  <2>2. Passes(market[now + 1]) /\ Beside BY <1>5 DEF Tick, Alone, billingVars
  <2> QED BY <1>4, <2>1, <2>2
<1>6. ASSUME Move PROVE TypesInv'
  <2>1. Beside BY <1>6 DEF Move, Event
  <2>2. PICK prices \in [Coins -> Nat \ {0}] : Passes(prices) BY <1>1, <1>6, Moving
  <2> QED BY <1>4, <2>1, <2>2
<1>7. ASSUME Reorg PROVE TypesInv'
  <2>1. PICK b : b \in {None} \cup (0..now) /\ tx' = [tx EXCEPT !.block = b] BY <1>7 DEF Reorg
  <2>2. /\ tx # None /\ Beside /\ UNCHANGED <<now, market, setting, cached, pay, check>>
    BY <1>7 DEF Reorg, Fault
  <2>3. tx \in [amount : Nat, ok : BOOLEAN, block : Time] /\ b \in Time
    BY <1>1, <2>1, <2>2, Numbers DEF DepositTypes, Time
  <2>4. tx' \in [amount : Nat, ok : BOOLEAN, block : Time] BY <2>1, <2>3
  <2>5. DepositTypes' BY <1>1, <2>2, <2>4 DEF DepositTypes
  <2>6. Begun' BY <2>4, NoneAssumption DEF Begun, Time
  <2> QED BY <1>2, <2>2, <2>5, <2>6 DEF TypesInv
<1>8. ASSUME Refresh PROVE TypesInv'
  <2>1. ASSUME NEW c \in Coins, NEW rate \in Nat, Cache(c, rate), Beside PROVE TypesInv'
    <3>1. DepositTypes' /\ Begun' BY <1>1, <2>1, Caching DEF DepositTypes, Begun
    <3> QED BY <1>2, <2>1, <3>1 DEF TypesInv
  <2>2. Beside
    <3>1. world' = world /\ events' = events /\ faults' \in {faults, faults + 1}
      BY <1>8 DEF Refresh, RefreshUsdt, RefreshTon, RefreshAvax, Quoted, Fault, world_
    <3> QED BY <3>1
  <2>3. {"usdt", "ton", "avax"} = Coins BY DEF Coins
  <2> QED BY <1>1, <1>8, <2>1, <2>2, <2>3, Refreshing
<1>9. ASSUME PaymentStep PROVE TypesInv'
  <2>1. DepositTypes' /\ Begun' BY <1>1, <1>9, PaymentTypes DEF DepositTypes
  <2>2. Beside BY <1>9, PaymentTypes
  <2> QED BY <1>2, <2>1, <2>2 DEF TypesInv
<1>10. CASE BillingNext /\ UNCHANGED depositVars BY <1>3, <1>10, BillingWorld
<1>11. CASE UNCHANGED vars
  <2>1. UNCHANGED depositVars /\ Beside BY <1>11 DEF vars, billingVars
  <2> QED BY <1>3, <2>1
<1> QED
  BY <1>5, <1>6, <1>7, <1>8, <1>9, <1>10, <1>11 DEF Next, DepositStep, PaymentStep

\* The types of Deposits hold in every state, and no payment is without its transaction.
THEOREM DepositTypesHold == Spec => []TypesInv
<1> QED BY TypesInit, TypesStep, PTL DEF Spec

-----------------------------------------------------------------------------
(* Rates.                                                                  *)

\* While prices are only added and the owner's figures stay, what was genuine stays so.
LEMMA GenuineStays ==
    ASSUME TypesInv, now' \in {now, now + 1}, \A i \in 0..now : market'[i + 1] = market[i + 1], setting' = setting,
           NEW c \in Coins, cached'[c] = cached[c], Genuine(c)
    PROVE  Genuine(c)'
<1>1. now \in Nat BY Numbers DEF TypesInv, DepositTypes
<1>2. cached[c].at = None \/ (cached[c].at \in Nat /\ cached[c].at <= now)
  BY DEF TypesInv, DepositTypes, Time, Genuine, NotBefore
<1>3. NotBefore(c, now)' BY <1>1, <1>2 DEF NotBefore
<1>4. CASE cached[c].rate = 0 BY <1>3, <1>4 DEF Genuine
<1>5. CASE Fetched(c)
  <2>1. PICK t \in 0..now :
          /\ NotBefore(c, t)
          /\ IF c = "avax" THEN \E b \in UsdtThen(t) : cached[c].rate = market[t + 1][c] * b
             ELSE cached[c].rate = market[t + 1][c]
    BY <1>5 DEF Fetched
  <2>2. t \in 0..now' /\ market'[t + 1] = market[t + 1] BY <1>1, <2>1
  <2>3. UsdtThen(t)' = UsdtThen(t)
    <3>1. \A u \in 0..t : u \in 0..now BY <1>1
    <3>2. {market'[u + 1]["usdt"] : u \in {x \in 0..t : t - x <= Trusted}}
          = {market[u + 1]["usdt"] : u \in {x \in 0..t : t - x <= Trusted}}
      BY <3>1
    <3> QED BY <3>2 DEF UsdtThen, Trusted
  <2>4. (cached[c].rate)' = cached[c].rate /\ (cached[c].at)' = cached[c].at OBVIOUS
  <2>5. /\ NotBefore(c, t)'
        /\ IF c = "avax" THEN \E b \in UsdtThen(t)' : (cached[c].rate)' = market'[t + 1][c] * b
           ELSE (cached[c].rate)' = market'[t + 1][c]
    BY <2>1, <2>2, <2>3, <2>4 DEF NotBefore
  <2>6. Fetched(c)' BY <2>2, <2>5 DEF Fetched
  <2> QED BY <1>3, <2>6 DEF Genuine
<1> QED BY <1>4, <1>5 DEF Genuine

\* A rate in use that is live was a price not longer ago than rates are trusted.
LEMMA LiveSince ==
    ASSUME TypesInv, NEW c \in Coins, Genuine(c), Live(c), NEW t \in 0..now, NotBefore(c, t)
    PROVE  now - t <= Trusted
<1>1. now \in Nat /\ now <= MaxTime BY Numbers DEF TypesInv, DepositTypes
<1>2. CASE RateAge = 0 BY <1>1, <1>2, Numbers DEF Trusted
<1>3. CASE RateAge # 0
  <2>1. cached[c].at \in Nat /\ now - cached[c].at <= RateAge
    BY <1>3 DEF Live, Recent, TypesInv, DepositTypes, Time
  <2>2. cached[c].at <= t BY <2>1, NoneAssumption DEF NotBefore
  <2> QED BY <1>1, <1>3, <2>1, <2>2, Numbers DEF Trusted
<1> QED BY <1>2, <1>3

LEMMA UsdtKnown == ASSUME TypesInv, Genuine("usdt") PROVE UsdtInUse \in UsdtThen(now)
<1>1. CASE setting.mode["usdt"] = "auto" /\ Live("usdt")
  <2>1. "usdt" \in Coins BY DEF Coins
  <2>2. UsdtInUse = cached["usdt"].rate /\ cached["usdt"].rate # 0
    BY <1>1 DEF UsdtInUse, Live, TypesInv, DepositTypes
  <2>3. PICK t \in 0..now : NotBefore("usdt", t) /\ cached["usdt"].rate = market[t + 1]["usdt"]
    BY <2>2 DEF Genuine, Fetched
  <2>4. now - t <= Trusted BY <1>1, <2>1, <2>3, LiveSince
  <2> QED BY <2>2, <2>3, <2>4 DEF UsdtThen
<1>2. CASE ~(setting.mode["usdt"] = "auto" /\ Live("usdt"))
  BY <1>2 DEF UsdtInUse, UsdtThen
<1> QED BY <1>1, <1>2

\* What a price of this moment is cached as is genuine.
LEMMA GenuineAnew ==
    ASSUME TypesInv, NEW c \in Coins, NEW rate \in Nat, Cache(c, rate), Genuine(c),
           IF c = "avax" THEN \E b \in UsdtThen(now) : rate = market[now + 1][c] * b ELSE rate = market[now + 1][c]
    PROVE  Genuine(c)'
<1>1. now \in Nat BY Numbers DEF TypesInv, DepositTypes
<1>2. /\ cached'[c].rate = rate /\ cached'[c].at \in {now, cached[c].at}
      /\ UNCHANGED <<now, market, setting>>
  BY Caching DEF TypesInv
<1>3. NotBefore(c, now)' BY <1>1, <1>2 DEF Genuine, NotBefore
<1>4. UsdtThen(now)' = UsdtThen(now) BY <1>2 DEF UsdtThen, Trusted
<1>5. now \in 0..now BY <1>1
<1>6. IF c = "avax" THEN \E b \in UsdtThen(now)' : (cached[c].rate)' = market'[now' + 1][c] * b
      ELSE (cached[c].rate)' = market'[now' + 1][c]
  BY <1>2, <1>4
<1>7. Fetched(c)' BY <1>2, <1>3, <1>5, <1>6 DEF Fetched
<1> QED BY <1>3, <1>7 DEF Genuine

LEMMA RatesInit == ASSUME SlipsShow, Init PROVE RateInv
<1>1. now = 0 /\ market = <<Today>> /\ market[1] = Today BY DEF Init
<1>2. cached = Uncached \/ cached = [c \in Coins |-> [rate |-> FirstRate(c), at |-> 0]] BY DEF Init
<1>3. CachedReal
  <2> SUFFICES ASSUME NEW c \in Coins PROVE Genuine(c)
    BY DEF CachedReal
  <2>1. CASE cached = Uncached BY <2>1 DEF Uncached, Genuine, NotBefore
  <2>2. CASE cached = [d \in Coins |-> [rate |-> FirstRate(d), at |-> 0]]
    <3>1. cached[c].rate = FirstRate(c) /\ cached[c].at = 0 BY <2>2
    <3>2. Today["usdt"] \in UsdtThen(0)
      <4>1. 0 \in {x \in 0..0 : 0 - x <= Trusted} BY Numbers
      <4>2. market[0 + 1]["usdt"] = Today["usdt"] BY <1>1
      <4> QED BY <4>1, <4>2 DEF UsdtThen
    <3>3. Today[c] \in Nat /\ Today["usdt"] \in Nat /\ Today["avax"] \in Nat BY DEF Today, Coins
    <3>4. IF c = "avax" THEN \E b \in UsdtThen(0) : cached[c].rate = market[0 + 1][c] * b
          ELSE cached[c].rate = market[0 + 1][c]
      BY <1>1, <3>1, <3>2, <3>3 DEF FirstRate
    <3>5. Fetched(c) BY <1>1, <3>1, <3>4 DEF Fetched, NotBefore
    <3> QED BY <1>1, <3>1, <3>5 DEF Genuine, NotBefore
  <2> QED BY <1>2, <2>1, <2>2
<1>4. Calm
  <2> SUFFICES ASSUME Deposit, "slip" \in world.does PROVE Calm
    BY DEF Calm
  <2>1. world \in Worlds /\ "first fetch" \notin world.does
    BY DEF SlipsShow, Deposit, Init
  <2>2. cached = [c \in Coins |-> [rate |-> FirstRate(c), at |-> 0]] BY <2>1 DEF Init
  <2>3. \A c \in Coins : cached[c].rate > 0 BY <2>2 DEF FirstRate, Today, Coins
  <2>4. \A i \in 0..now : i = 0 BY <1>1
  <2>5. \A c \in Coins : Today[c] <= 2 * Today[c] BY DEF Today
  <2> QED BY <1>1, <2>3, <2>4, <2>5 DEF Calm
<1> QED BY <1>3, <1>4 DEF RateInv

\* A slip is not plausible: it is ten times a price that is at most double the cached one.
LEMMA SlipsShowUp ==
    ASSUME TypesInv, RateInv, Deposit, "slip" \in world.does, NEW c \in {"usdt", "ton"},
           Plausible(c, 10 * market[now + 1][c], cached[c].rate)
    PROVE  FALSE
<1>1. now \in 0..now /\ c \in Coins /\ c # "avax" BY Numbers DEF TypesInv, DepositTypes, Coins
<1>2. market[now + 1][c] \in Nat \ {0} BY <1>1, PriceTypes DEF TypesInv
<1>3. cached[c].rate # 0 /\ Genuine(c) /\ \A i, j \in 0..now : market[i + 1][c] <= 2 * market[j + 1][c]
  BY <1>1 DEF RateInv, CachedReal, Calm
<1>4. PICK t \in 0..now : cached[c].rate = market[t + 1][c] BY <1>1, <1>3 DEF Genuine, Fetched
<1>5. market[t + 1][c] \in Nat \ {0} /\ market[t + 1][c] <= 2 * market[now + 1][c]
  BY <1>1, <1>3, <1>4, PriceTypes DEF TypesInv
<1>6. 10 * market[now + 1][c] <= 3 * market[t + 1][c] BY <1>3, <1>4 DEF Plausible
<1> QED BY <1>2, <1>5, <1>6

LEMMA RefreshRates ==
    ASSUME TypesInv, RateInv, Refresh
    PROVE  CachedReal' /\ Calm'
<1>1. now \in Nat /\ now \in 0..now BY Numbers DEF TypesInv, DepositTypes
<1>2. market[now + 1]["usdt"] \in Nat \ {0} /\ market[now + 1]["ton"] \in Nat \ {0}
      /\ market[now + 1]["avax"] \in Nat \ {0}
  BY <1>1, PriceTypes DEF TypesInv, Coins
<1>3. UsdtInUse \in Nat BY RatesInUse DEF TypesInv
<1>4. \A d \in Coins : Genuine(d) BY DEF RateInv, CachedReal
<1>5. PICK c \in Coins, rate \in Nat \ {0} :
          /\ Cache(c, rate) /\ world' = world /\ events' = events /\ Deposit
          /\ IF c = "avax" THEN \E b \in UsdtThen(now) : rate = market[now + 1][c] * b
             ELSE rate = market[now + 1][c]
  <2>1. CASE RefreshUsdt
    <3>1. PICK q \in {QuoteUsdt, 10 * QuoteUsdt} :
              /\ Quoted(QuoteUsdt, q) /\ Cache("usdt", q)
              /\ Plausible("usdt", q, IF cached["usdt"].rate > 0 THEN cached["usdt"].rate ELSE setting.manual["usdt"])
      BY <2>1 DEF RefreshUsdt
    <3>2. CASE q = QuoteUsdt
      BY <1>2, <3>1, <3>2 DEF Quoted, QuoteUsdt, world_, Fault, Cache, Coins
    <3>3. CASE q = 10 * QuoteUsdt /\ Fault("slip")
      <4>1. Deposit /\ "slip" \in world.does BY <3>1, <3>3 DEF Cache, Fault
      <4>2. cached["usdt"].rate > 0 BY <4>1 DEF RateInv, Calm, Coins
      <4>3. Plausible("usdt", 10 * market[now + 1]["usdt"], cached["usdt"].rate)
        BY <3>1, <3>3, <4>2 DEF QuoteUsdt
      <4> QED BY <4>1, <4>3, SlipsShowUp
    <3> QED BY <3>1, <3>2, <3>3 DEF Quoted
  <2>2. CASE RefreshTon
    <3>1. PICK q \in {QuoteTon, 10 * QuoteTon} :
              Quoted(QuoteTon, q) /\ Cache("ton", q) /\ Plausible("ton", q, cached["ton"].rate)
      BY <2>2 DEF RefreshTon
    <3>2. CASE q = QuoteTon
      BY <1>2, <3>1, <3>2 DEF Quoted, QuoteTon, world_, Fault, Cache, Coins
    <3>3. CASE q = 10 * QuoteTon /\ Fault("slip")
      <4>1. Deposit /\ "slip" \in world.does BY <3>1, <3>3 DEF Cache, Fault
      <4>2. Plausible("ton", 10 * market[now + 1]["ton"], cached["ton"].rate) BY <3>1, <3>3 DEF QuoteTon
      <4> QED BY <4>1, <4>2, SlipsShowUp
    <3> QED BY <3>1, <3>2, <3>3 DEF Quoted
  <2>3. CASE RefreshAvax
    <3>1. Cache("avax", QuoteAvax * UsdtInUse) /\ UsdtInUse > 0 /\ UNCHANGED world_ BY <2>3 DEF RefreshAvax
    <3>2. UsdtInUse \in UsdtThen(now) BY <1>4, UsdtKnown DEF Coins
    <3>3. QuoteAvax * UsdtInUse \in Nat \ {0} BY <1>2, <1>3, <3>1 DEF QuoteAvax
    <3> QED BY <3>1, <3>2, <3>3 DEF world_, Cache, Coins, QuoteAvax
  <2> QED BY <2>1, <2>2, <2>3 DEF Refresh
<1>6. /\ \A d \in Coins \ {c} : cached'[d] = cached[d]
      /\ cached'[c].rate = rate /\ UNCHANGED <<now, market, setting>>
  BY <1>5, Caching DEF TypesInv
<1>7. ASSUME NEW d \in Coins PROVE Genuine(d)'
  <2>1. CASE d = c BY <1>4, <1>5, <2>1, GenuineAnew
  <2>2. CASE d # c
    <3>1. cached'[d] = cached[d] BY <1>6, <2>2
    <3> QED BY <1>1, <1>4, <1>6, <3>1, GenuineStays
  <2> QED BY <2>1, <2>2
<1>8. Calm' BY <1>5, <1>6 DEF Calm, RateInv, Deposit
<1> QED BY <1>7, <1>8 DEF CachedReal

\* A price that is added is the last one, or, once in a world where sources slip, moves.
LEMMA PassingRates ==
    ASSUME SlipsShow, TypesInv, RateInv, NEW prices \in [Coins -> Nat \ {0}], Passes(prices), world' = world, events' \in Nat,
           \/ prices = market[now + 1] /\ events' = events
           \/ /\ \A c \in Coins : prices[c] <= 2 * market[now + 1][c] /\ market[now + 1][c] <= 2 * prices[c]
              /\ events < world.events /\ events' = events + 1
    PROVE  CachedReal' /\ Calm'
<1>1. now \in Nat /\ now \in 0..now /\ events \in Nat /\ world \in Worlds
  BY Numbers DEF TypesInv, DepositTypes, WorldTypes
<1>2. /\ now' = now + 1 /\ \A i \in 0..now : market'[i + 1] = market[i + 1]
      /\ market'[now' + 1] = prices /\ setting' = setting /\ cached' = cached
  BY Passing DEF TypesInv
<1>3. CachedReal'
  <2> SUFFICES ASSUME NEW c \in Coins PROVE Genuine(c)'
    BY DEF CachedReal
  <2>1. Genuine(c) BY DEF RateInv, CachedReal
  <2>2. cached'[c] = cached[c] BY <1>2
  <2> QED BY <1>2, <2>1, <2>2, GenuineStays
<1>4. Calm'
  <2> SUFFICES ASSUME Deposit, "slip" \in world.does PROVE Calm'
    BY DEF Calm, Deposit
  <2>1. /\ \A i, j \in 0..now : \A c \in Coins : market[i + 1][c] <= 2 * market[j + 1][c]
        /\ events = 0 => \A i, j \in 0..now : market[i + 1] = market[j + 1]
        /\ \A c \in Coins : cached[c].rate > 0
    BY DEF RateInv, Calm
  <2>2. \A i \in 0..now : \A c \in Coins : market[i + 1][c] \in Nat BY PriceTypes DEF TypesInv
  <2>3. \A i \in 0..now' : i \in 0..now \/ i = now' BY <1>1, <1>2
  <2>4. CASE prices = market[now + 1] /\ events' = events
    <3>1. ASSUME NEW i \in 0..now' PROVE \E k \in 0..now : market'[i + 1] = market[k + 1]
      BY <1>1, <1>2, <2>3, <2>4
    <3>2. \A i, j \in 0..now' : \A c \in Coins : market'[i + 1][c] <= 2 * market'[j + 1][c]
      BY <2>1, <3>1
    <3>3. events' = 0 => \A i, j \in 0..now' : market'[i + 1] = market'[j + 1]
      BY <2>1, <2>4, <3>1
    <3> QED BY <1>2, <2>1, <3>2, <3>3 DEF Calm
  <2>5. CASE /\ \A c \in Coins : prices[c] <= 2 * market[now + 1][c] /\ market[now + 1][c] <= 2 * prices[c]
             /\ events < world.events /\ events' = events + 1
    <3>1. world.events \in Nat /\ world.events <= 1
      <4>1. MaxEvents \in Nat BY BoundsAssumption
      <4>2. world.events \in 0..MaxEvents BY <1>1, WorldsAssumption
      <4>3. {"deposit", "slip"} \subseteq world.does BY DEF Deposit
      <4>4. world.events <= 1 BY <1>1, <4>3 DEF SlipsShow
      <4> QED BY <4>1, <4>2, <4>4
    <3>2. events = 0 /\ events' # 0 BY <1>1, <2>5, <3>1
    <3>3. \A i \in 0..now : market[i + 1] = market[now + 1] BY <1>1, <2>1, <3>2
    <3>4. \A i \in 0..now' : \A c \in Coins :
              market'[i + 1][c] = market[now + 1][c] \/ market'[i + 1][c] = prices[c]
      BY <1>2, <2>3, <3>3
    <3>5. \A c \in Coins : prices[c] \in Nat /\ market[now + 1][c] \in Nat BY <1>1, <2>2
    <3>6. ASSUME NEW i \in 0..now', NEW j \in 0..now', NEW c \in Coins
          PROVE  market'[i + 1][c] <= 2 * market'[j + 1][c]
      BY <2>5, <3>4, <3>5
    <3> QED BY <1>2, <2>1, <3>2, <3>6 DEF Calm
  <2> QED BY <2>4, <2>5
<1> QED BY <1>3, <1>4

LEMMA RatesStep ==
    ASSUME SlipsShow, TypesInv, RateInv, [Next]_vars
    PROVE  RateInv'
<1>1. now \in Nat /\ now \in 0..now /\ events \in Nat BY Numbers DEF TypesInv, DepositTypes, WorldTypes
<1>2. ASSUME UNCHANGED <<now, market, setting, cached>>, world' = world, events' \in {events, events + 1}
      PROVE  RateInv'
  <2>1. \A c \in Coins : Genuine(c)' BY <1>1, <1>2, GenuineStays DEF RateInv, CachedReal
  <2>2. events' = 0 => events = 0 BY <1>1, <1>2
  <2>3. Calm' BY <1>2, <2>2 DEF RateInv, Calm, Deposit
  <2> QED BY <2>1, <2>3 DEF RateInv, CachedReal
<1>3. ASSUME Tick PROVE RateInv'
  <2>1. market[now + 1] \in [Coins -> Nat \ {0}]
    <3>1. market \in Seq([Coins -> Nat \ {0}]) /\ now + 1 \in 1..Len(market)
      BY Numbers DEF TypesInv, DepositTypes
    <3> QED BY <3>1
  <2>2. Passes(market[now + 1]) /\ world' = world /\ events' = events BY <1>3 DEF Tick, Alone, billingVars
  <2> QED BY <1>1, <2>1, <2>2, PassingRates DEF RateInv
<1>4. ASSUME Move PROVE RateInv'
  <2>1. world' = world /\ events < world.events /\ events' = events + 1 BY <1>4 DEF Move, Event
  <2>2. PICK prices \in [Coins -> Nat \ {0}] :
            /\ Passes(prices)
            /\ \A c \in Coins : prices[c] <= 2 * market[now + 1][c] /\ market[now + 1][c] <= 2 * prices[c]
    BY <1>4, Moving DEF TypesInv
  <2> QED BY <1>1, <2>1, <2>2, PassingRates DEF RateInv
<1>5. CASE Reorg BY <1>2, <1>5 DEF Reorg, Fault
<1>6. CASE Refresh BY <1>6, RefreshRates DEF RateInv
<1>7. CASE PaymentStep
  <2>1. UNCHANGED <<now, market, setting, cached>> /\ world' = world /\ events' = events BY <1>7, PaymentTypes
  <2> QED BY <1>2, <2>1
<1>8. CASE BillingNext /\ UNCHANGED depositVars BY <1>2, <1>8, BillingWorld DEF depositVars
<1>9. CASE UNCHANGED vars BY <1>2, <1>9 DEF vars, billingVars, depositVars
<1> QED
  BY <1>3, <1>4, <1>5, <1>6, <1>7, <1>8, <1>9 DEF Next, DepositStep, PaymentStep

\* The AVAX figure is made of a price and of the USDT rate in use then.
LEMMA RateOfAvax ==
    ASSUME TypesInv, Genuine("avax"), cached["avax"].rate # 0,
           Live("avax") \/ setting.manual["avax"] = 0
    PROVE  cached["avax"].rate \in Real("avax")
<1>1. now \in Nat /\ now <= MaxTime BY Numbers DEF TypesInv, DepositTypes
<1>2. PICK t \in 0..now : NotBefore("avax", t) /\ \E b \in UsdtThen(t) : cached["avax"].rate = market[t + 1]["avax"] * b
  BY DEF Genuine, Fetched
<1>3. PICK b \in UsdtThen(t) : cached["avax"].rate = market[t + 1]["avax"] * b BY <1>2
<1>4. Oldest("avax") \in Nat BY Numbers DEF Oldest
<1>5. now - t <= Oldest("avax")
  <2>1. CASE setting.manual["avax"] = 0 BY <1>1, <2>1, Numbers DEF Oldest
  <2>2. CASE setting.manual["avax"] # 0
    <3>1. Live("avax") BY <2>2
    <3>2. now - t <= Trusted BY <1>2, <3>1, LiveSince DEF Coins
    <3> QED BY <2>2, <3>2 DEF Oldest
  <2> QED BY <2>1, <2>2
<1>6. market[t + 1]["avax"] \in Known("avax", Oldest("avax")) BY <1>5 DEF Known, Since
<1>7. b \in UsdtReal(Oldest("avax") + Trusted)
  <2>1. CASE b = setting.manual["usdt"] BY <2>1 DEF UsdtReal
  <2>2. CASE \E u \in 0..t : t - u <= Trusted /\ b = market[u + 1]["usdt"]
    <3>1. PICK u \in 0..t : t - u <= Trusted /\ b = market[u + 1]["usdt"] BY <2>2
    <3>2. u \in 0..now /\ now - u <= Oldest("avax") + Trusted BY <1>1, <1>4, <1>5, <3>1, Numbers
    <3> QED BY <3>1, <3>2 DEF UsdtReal, Known, Since
  <2> QED BY <1>3, <2>1, <2>2 DEF UsdtThen
<1>8. cached["avax"].rate \in Times(Known("avax", Oldest("avax")), UsdtReal(Oldest("avax") + Trusted))
  BY <1>3, <1>6, <1>7 DEF Times
<1> QED BY <1>8 DEF Real

LEMMA RatesReal == ASSUME TypesInv, RateInv PROVE RateIsReal
<1>1. now \in Nat /\ now <= MaxTime BY Numbers DEF TypesInv, DepositTypes
<1>2. \A c \in Coins : Genuine(c) BY DEF RateInv, CachedReal
<1>3. UsdtInUse \in Real("usdt") \cup {0}
  <2>1. PICK b : b = UsdtInUse /\ b \in UsdtThen(now) BY <1>2, UsdtKnown DEF Coins
  <2>2. b = setting.manual["usdt"] \/ \E u \in 0..now : now - u <= Trusted /\ b = market[u + 1]["usdt"]
    BY <2>1 DEF UsdtThen
  <2> QED BY <2>1, <2>2 DEF Real, Known, Since
<1>4. TonInUse \in Real("ton") \cup {0}
  <2>1. CASE cached["ton"].rate # 0 /\ (Live("ton") \/ setting.manual["ton"] = 0)
    <3>1. PICK t \in 0..now : NotBefore("ton", t) /\ cached["ton"].rate = market[t + 1]["ton"]
      BY <1>2, <2>1 DEF Genuine, Fetched, Coins
    <3>2. now - t <= Oldest("ton")
      <4>1. CASE setting.manual["ton"] = 0 BY <1>1, <4>1, Numbers DEF Oldest
      <4>2. CASE setting.manual["ton"] # 0
        <5>1. now - t <= Trusted BY <1>2, <2>1, <3>1, <4>2, LiveSince DEF Coins
        <5> QED BY <4>2, <5>1 DEF Oldest
      <4> QED BY <4>1, <4>2
    <3>3. cached["ton"].rate \in Real("ton") BY <3>1, <3>2 DEF Real, Known, Since
    <3> QED BY <3>3 DEF TonInUse, CoinInUse, Real
  <2>2. CASE ~(cached["ton"].rate # 0 /\ (Live("ton") \/ setting.manual["ton"] = 0))
    BY <2>2 DEF TonInUse, CoinInUse, Real
  <2> QED BY <2>1, <2>2
<1>5. AvaxInUse \in Real("avax") \cup {0}
  <2>1. CASE cached["avax"].rate # 0 /\ (Live("avax") \/ setting.manual["avax"] = 0)
    <3>1. cached["avax"].rate \in Real("avax") BY <1>2, <2>1, RateOfAvax DEF Coins
    <3> QED BY <3>1 DEF AvaxInUse, CoinInUse, Real
  <2>2. CASE ~(cached["avax"].rate # 0 /\ (Live("avax") \/ setting.manual["avax"] = 0))
    BY <2>2 DEF AvaxInUse, CoinInUse, Real
  <2> QED BY <2>1, <2>2
<1>6. Watched \subseteq Coins BY DEF Watched, TypesInv, DepositTypes, Coins
<1> QED BY <1>3, <1>4, <1>5, <1>6 DEF RateIsReal, InUse, Coins

\* No invoice is made and no deposit judged at a rate no market had lately, where a slip
\* of a source, a factor of ten, has a rate to be compared with that is at most twice off.
THEOREM RatesAreReal == ASSUME SlipsShow PROVE Spec => []RateIsReal
<1>1. Init => TypesInv /\ RateInv BY TypesInit, RatesInit
<1>2. TypesInv /\ RateInv /\ [Next]_vars => (TypesInv /\ RateInv)' BY TypesStep, RatesStep
<1>3. TypesInv /\ RateInv => RateIsReal BY RatesReal
<1> QED BY <1>1, <1>2, <1>3, PTL DEF Spec

-----------------------------------------------------------------------------
(* Settlement from the chain.                                              *)

LEMMA FinalInit == Init => FinalInv
<1> SUFFICES ASSUME Init PROVE FinalInv
  OBVIOUS
<1>1. now = 0 /\ tx = None /\ check = NoCheck BY DEF Init
<1>2. check.step = "none" /\ check.newest = 0 /\ check.height = None BY <1>1 DEF NoCheck
<1>3. pay.status = "none"
  <2>1. PICK c \in (IF Deposit THEN world.coins ELSE {"usdt"}) :
            pay = [coin |-> c, status |-> "none", owner |-> "unaware"]
    BY DEF Init
  <2> QED BY <2>1
<1> QED BY <1>1, <1>2, <1>3 DEF FinalInv, Anchored, ReadAlready, HeightRead

\* The types the argument needs, at hand.
CheckType ==
    [step : Steps, since : Nat, amount : Nat, block : Time, newest : Nat, height : Time, time : Time]
LEMMA FinalTypes ==
    ASSUME TypesInv
    PROVE  /\ now \in Nat /\ None \notin Nat
           /\ tx # None => tx.block \in Nat \cup {None} /\ tx \in [amount : Nat, ok : BOOLEAN, block : Time]
           /\ check \in CheckType /\ check.newest \in Nat
           /\ check.block \in Nat \cup {None} /\ check.height \in Nat \cup {None}
           /\ pay \in [coin : Coins, status : {"none", "pending", "auto", "verified", "rejected"},
                       owner : {"unaware", "informed", "asked"}]
BY Numbers, NoneAssumption DEF TypesInv, DepositTypes, Time, CheckType

\* A check that goes on, with the height read after the block if it is read, leaves everything
\* in place.
LEMMA FinalGoes ==
    ASSUME TypesInv, FinalInv, NEW next, Goes(next), check.step \notin {"confirmed", "over"},
           next.newest <= now, next.height # None => next.newest <= next.height /\ next.height <= now,
           next.step \in NothingRead => next.height = None,
           pay.coin # "ton" /\ next.step \in ReadAlready =>
               next.block \in Nat /\ (Old(next.block, next.newest) => tx.block = next.block),
           pay.coin # "ton" /\ next.step = "accepted" =>
               next.height = check.height /\ next.newest = check.newest /\ next.block = check.block
               /\ (ReorgDepth + Meanwhile < MinConfirmations => Old(next.block, next.newest))
    PROVE  FinalInv'
<1>1. check' = next /\ UNCHANGED <<now, tx, pay>> BY DEF Goes
<1>2. pay.status # "auto" BY DEF FinalInv
<1>3. HeightRead' BY <1>1 DEF HeightRead
<1>4. Anchored' BY <1>1 DEF Anchored, Old
<1>5. (check.step = "accepted" /\ pay.coin # "ton" /\ ReorgDepth + Meanwhile < MinConfirmations =>
          Old(check.block, check.newest))'
  BY <1>1 DEF Meanwhile, Old
<1>6. (pay.status = "verified" => Rested(ReorgDepth))' BY <1>1 DEF FinalInv, Rested, Old
<1>7. (tx # None /\ tx.block # None => tx.block <= now)' BY <1>1 DEF FinalInv
<1>8. (tx # None /\ pay.coin = "ton" => tx.block # None)' BY <1>1 DEF FinalInv
<1>9. pay'.status # "auto" BY <1>1, <1>2
<1> QED BY <1>3, <1>4, <1>5, <1>6, <1>7, <1>8, <1>9 DEF FinalInv

\* What was read stays as read while the check goes on.
LEMMA FinalReads ==
    ASSUME TypesInv, FinalInv,
           ReadTransaction \/ ReadUsdt \/ ReadAvax \/ ReadTon \/ ReadNothing \/ ReadHeight \/ ReadTime \/ TimeOut \/ Verdict
    PROVE  FinalInv'
<1> USE FinalTypes
<1>1. /\ check.newest <= now
      /\ check.height # None => check.newest <= check.height /\ check.height <= now
      /\ check.step \in NothingRead => check.height = None
  BY DEF FinalInv, HeightRead
<1>2. check.step \in Reading
  BY DEF ReadTransaction, ReadUsdt, ReadAvax, ReadTon, ReadNothing, ReadHeight, ReadTime, TimeOut, Verdict, Read, Reading
<1>3. check.step \notin {"confirmed", "over"} BY <1>2 DEF Reading
<1>4. ASSUME Goes([check EXCEPT !.step = "declined"]) PROVE FinalInv'
  <2> DEFINE next == [check EXCEPT !.step = "declined"]
  <2>1. next.step = "declined" /\ next.newest = check.newest /\ next.height = check.height BY DEF CheckType
  <2> QED BY <1>1, <1>3, <1>4, <2>1, FinalGoes DEF ReadAlready, NothingRead
<1>5. CASE ReadTransaction
  <2> DEFINE next == [check EXCEPT !.step = "receipt", !.amount = tx.amount]
  <2>1. next.step = "receipt" /\ next.newest = check.newest /\ next.height = check.height BY DEF CheckType
  <2>2. Goes(next) /\ check.step = "transaction" BY <1>5 DEF ReadTransaction, Read
  <2> HIDE DEF next
  <2> QED BY <1>1, <1>3, <2>1, <2>2, FinalGoes DEF ReadAlready, NothingRead
<1>6. CASE ReadUsdt \/ ReadAvax
  <2>1. check.step = "receipt" /\ tx.block # None BY <1>6 DEF ReadUsdt, ReadAvax, Read, There
  <2>2. tx # None /\ tx.block \in Nat BY <2>1 DEF TypesInv, Begun
  <2>3. check.height = None BY <1>1, <2>1 DEF NothingRead
  <2>4. PICK next \in {[check EXCEPT !.step = "height", !.amount = tx.amount, !.block = tx.block, !.newest = now],
                       [check EXCEPT !.step = "height", !.block = tx.block, !.newest = now]} : Goes(next)
    BY <1>6 DEF ReadUsdt, ReadAvax
  <2>5. next.step = "height" /\ next.height = None /\ next.block = tx.block /\ next.newest = now
    <3> DEFINE read == [check EXCEPT !.step = "height", !.block = tx.block, !.newest = now]
               full == [check EXCEPT !.step = "height", !.amount = tx.amount, !.block = tx.block, !.newest = now]
    <3>1. read.step = "height" /\ read.height = None /\ read.block = tx.block /\ read.newest = now
      BY <2>3 DEF CheckType
    <3>2. full.step = "height" /\ full.height = None /\ full.block = tx.block /\ full.newest = now
      BY <2>3 DEF CheckType
    <3> QED BY <2>4, <3>1, <3>2
  <2> QED BY <1>3, <2>2, <2>4, <2>5, FinalGoes DEF NothingRead
<1>7. CASE ReadTon
  <2>1. PICK next \in {[check EXCEPT !.step = "rate", !.amount = tx.amount, !.time = tx.block],
                       [check EXCEPT !.step = "rate", !.amount = tx.amount]} : Goes(next)
    BY <1>7 DEF ReadTon
  <2>2. next.step = "rate" /\ next.newest = check.newest /\ next.height = check.height
    <3> DEFINE part == [check EXCEPT !.step = "rate", !.amount = tx.amount]
               full == [check EXCEPT !.step = "rate", !.amount = tx.amount, !.time = tx.block]
    <3>1. part.step = "rate" /\ part.newest = check.newest /\ part.height = check.height BY DEF CheckType
    <3>2. full.step = "rate" /\ full.newest = check.newest /\ full.height = check.height BY DEF CheckType
    <3> QED BY <2>1, <3>1, <3>2
  <2>3. pay.coin = "ton" BY <1>7 DEF ReadTon
  <2> QED BY <1>1, <1>3, <2>1, <2>2, <2>3, FinalGoes DEF NothingRead
<1>8. CASE ReadNothing \/ TimeOut BY <1>4, <1>8 DEF ReadNothing, TimeOut
<1>9. ASSUME check.step \in {"height", "time", "rate"}, pay.coin # "ton"
      PROVE  check.block \in Nat /\ (Old(check.block, check.newest) => tx.block = check.block)
  BY <1>9 DEF FinalInv, Anchored, ReadAlready
<1>10. CASE ReadHeight
  <2>1. check.step = "height" BY <1>10 DEF ReadHeight, Read
  <2>2. PICK next \in {[check EXCEPT !.step = "time", !.height = now], [check EXCEPT !.step = "time"]} : Goes(next)
    BY <1>10 DEF ReadHeight
  <2>3. /\ next.step = "time" /\ next.newest = check.newest /\ next.block = check.block
        /\ next.height \in {now, check.height}
    <3>1. CASE next = [check EXCEPT !.step = "time", !.height = now] BY <3>1 DEF CheckType
    <3>2. CASE next = [check EXCEPT !.step = "time"] BY <3>2 DEF CheckType
    <3> QED BY <2>2, <3>1, <3>2
  <2> QED BY <1>1, <1>3, <1>9, <2>1, <2>2, <2>3, FinalGoes DEF NothingRead
<1>11. CASE ReadTime
  <2>1. check.step = "time" BY <1>11 DEF ReadTime, Read
  <2>2. PICK next \in {[check EXCEPT !.step = "rate", !.time = check.block], [check EXCEPT !.step = "rate"]} : Goes(next)
    BY <1>11 DEF ReadTime
  <2>3. /\ next.step = "rate" /\ next.newest = check.newest /\ next.block = check.block
        /\ next.height = check.height
    <3>1. CASE next = [check EXCEPT !.step = "rate", !.time = check.block] BY <3>1 DEF CheckType
    <3>2. CASE next = [check EXCEPT !.step = "rate"] BY <3>2 DEF CheckType
    <3> QED BY <2>2, <3>1, <3>2
  <2> QED BY <1>1, <1>3, <1>9, <2>1, <2>2, <2>3, FinalGoes DEF NothingRead
<1>12. CASE Verdict
  <2>1. check.step = "rate" BY <1>12 DEF Verdict, Read
  <2>2. CASE ~Accepted
    BY <1>4, <1>12, <2>2 DEF Verdict
  <2>3. CASE Accepted
    <3> DEFINE next == [check EXCEPT !.step = "accepted"]
    <3>1. Goes(next) BY <1>12, <2>3 DEF Verdict
    <3>2. /\ next.step = "accepted" /\ next.newest = check.newest /\ next.block = check.block
          /\ next.height = check.height
      BY DEF CheckType
    <3>3. ASSUME pay.coin # "ton", ReorgDepth + Meanwhile < MinConfirmations PROVE Old(check.block, check.newest)
      <4>1. check.block \in Nat BY <1>9, <2>1, <3>3
      <4>2. Deep BY <2>3, <3>3 DEF Accepted
      <4>3. check.height # None
        <5> SUFFICES ASSUME check.height = None PROVE FALSE
          OBVIOUS
        <5>1. MinConfirmations = 0 BY <4>2 DEF Deep
        <5> QED BY <3>3, <5>1, Numbers DEF Meanwhile
      <4>4. Meanwhile = check.height - check.newest BY <4>3 DEF Meanwhile
      <4>5. check.height + 1 - check.block >= MinConfirmations
        <5>1. MinConfirmations = 0 \/ Confirmations >= MinConfirmations BY <4>2 DEF Deep
        <5>2. MinConfirmations > 0 BY <1>1, <3>3, <4>3, <4>4, Numbers
        <5> QED BY <4>1, <4>3, <5>1, <5>2, Numbers DEF Confirmations
      <4> QED BY <3>3, <4>1, <4>3, <4>4, <4>5, Numbers DEF Old
    <3> HIDE DEF next
    <3> QED BY <1>1, <1>3, <1>9, <2>1, <3>1, <3>2, <3>3, FinalGoes DEF NothingRead
  <2> QED BY <2>2, <2>3
<1> QED BY <1>5, <1>6, <1>7, <1>8, <1>10, <1>11, <1>12

\* What is settled rests on a block too old to be replaced.
LEMMA FinalSettles ==
    ASSUME TypesInv, FinalInv, AutoConfirm \/ Verify \/ Announce
    PROVE  FinalInv'
<1> USE FinalTypes
<1>1. ASSUME AutoConfirm PROVE FinalInv'
  <2>1. check.step = "accepted" BY <1>1 DEF AutoConfirm
  <2>2. tx # None BY <2>1 DEF TypesInv, Begun
  <2>3. Rested(ReorgDepth + Meanwhile)
    <3>1. CASE pay.coin = "ton" BY <2>2, <3>1 DEF FinalInv, Rested
    <3>2. CASE pay.coin # "ton"
      <4> SUFFICES ASSUME ReorgDepth + Meanwhile < MinConfirmations PROVE tx.block # None /\ Old(tx.block, now)
        BY DEF Rested
      <4>1. check.block \in Nat /\ tx.block = check.block /\ Old(check.block, check.newest)
        BY <2>1, <3>2 DEF FinalInv, Anchored, ReadAlready
      <4>2. Old(tx.block, now) BY <4>1, Numbers DEF FinalInv, HeightRead, Old
      <4> QED BY <4>1, <4>2
    <3> QED BY <3>1, <3>2
  <2>4. CASE SettleWith("auto", "confirmed")
    <3>1. /\ pay'.coin = pay.coin /\ pay'.status = "auto" /\ check' = [check EXCEPT !.step = "confirmed"]
          /\ UNCHANGED <<now, tx>>
      BY <2>4 DEF SettleWith
    <3>2. check'.step = "confirmed" /\ check'.newest = check.newest /\ check'.height = check.height
      BY <3>1 DEF CheckType
    <3>3. HeightRead' BY <3>1, <3>2 DEF FinalInv, HeightRead, NothingRead
    <3>4. Rested(ReorgDepth + Meanwhile)' BY <2>3, <3>1, <3>2 DEF Rested, Meanwhile, Old
    <3>5. (tx # None => (tx.block # None => tx.block <= now) /\ (pay.coin = "ton" => tx.block # None))'
      BY <3>1 DEF FinalInv
    <3> QED BY <3>1, <3>2, <3>3, <3>4, <3>5 DEF FinalInv, Anchored, ReadAlready
  <2>5. CASE Goes([check EXCEPT !.step = "declined"])
    <3> DEFINE next == [check EXCEPT !.step = "declined"]
    <3>1. next.step = "declined" /\ next.newest = check.newest /\ next.height = check.height BY DEF CheckType
    <3> QED BY <2>1, <2>5, <3>1, FinalGoes DEF ReadAlready, NothingRead, FinalInv, HeightRead
  <2> QED BY <1>1, <2>4, <2>5 DEF AutoConfirm
<1>2. ASSUME Verify PROVE FinalInv'
  <2>1. tx # None BY <1>2 DEF Verify, TypesInv, Begun
  <2>2. ASSUME Shown, SettleWith("verified", check.step) PROVE FinalInv'
    <3>1. tx.block \in Nat /\ now - tx.block + 1 >= MinConfirmations BY <2>1, <2>2 DEF Shown, There
    <3>2. Rested(ReorgDepth) BY <3>1, Numbers DEF Rested, Old
    <3>3. /\ pay'.coin = pay.coin /\ pay'.status = "verified" /\ check' = [check EXCEPT !.step = check.step]
          /\ UNCHANGED <<now, tx>>
      BY <2>2 DEF SettleWith
    <3>4. check' = check BY <3>3 DEF CheckType
    <3>5. Rested(ReorgDepth)' BY <3>2, <3>3 DEF Rested, Old
    <3>6. HeightRead' /\ Anchored' BY <3>3, <3>4 DEF FinalInv, HeightRead, Anchored, Old
    <3>7. (check.step = "accepted" /\ pay.coin # "ton" /\ ReorgDepth + Meanwhile < MinConfirmations =>
              Old(check.block, check.newest))'
      BY <3>3, <3>4 DEF FinalInv, Meanwhile, Old
    <3>8. (tx # None => (tx.block # None => tx.block <= now) /\ (pay.coin = "ton" => tx.block # None))'
      BY <3>3 DEF FinalInv
    <3>9. pay'.status # "auto" BY <3>3
    <3> QED BY <3>5, <3>6, <3>7, <3>8, <3>9 DEF FinalInv
  <2>3. CASE \E status \in {"rejected", "pending"} : Reviewed(status)
    <3>1. PICK status \in {"rejected", "pending"} : Reviewed(status) BY <2>3
    <3>2. pay'.status = status /\ pay'.coin = pay.coin /\ UNCHANGED <<now, tx, check>> BY <3>1 DEF Reviewed
    <3>3. HeightRead' /\ Anchored' BY <3>2 DEF FinalInv, HeightRead, Anchored, Old
    <3> QED BY <3>2, <3>3 DEF FinalInv, Meanwhile, Old
  <2> QED BY <1>2, <2>2, <2>3 DEF Verify
<1>3. ASSUME Announce PROVE FinalInv'
  <2>1. /\ pay'.status = pay.status /\ pay'.coin = pay.coin /\ UNCHANGED <<now, tx>>
        /\ check' = [check EXCEPT !.step = "over"]
    BY <1>3 DEF Announce
  <2>2. check'.step = "over" /\ check'.newest = check.newest /\ check'.height = check.height BY <2>1 DEF CheckType
  <2>3. HeightRead' BY <2>1, <2>2 DEF FinalInv, HeightRead, NothingRead
  <2>4. (pay.status = "auto" => Rested(ReorgDepth + Meanwhile))' BY <2>1, <2>2 DEF FinalInv, Rested, Meanwhile, Old
  <2>5. (pay.status = "verified" => Rested(ReorgDepth))' BY <2>1 DEF FinalInv, Rested, Old
  <2>6. (tx # None => (tx.block # None => tx.block <= now) /\ (pay.coin = "ton" => tx.block # None))'
    BY <2>1 DEF FinalInv
  <2> QED BY <2>2, <2>3, <2>4, <2>5, <2>6 DEF FinalInv, Anchored, ReadAlready
<1> QED BY <1>1, <1>2, <1>3

LEMMA FinalStep ==
    ASSUME TypesInv, FinalInv, [Next]_vars
    PROVE  FinalInv'
<1> USE FinalTypes
<1>1. ASSUME UNCHANGED <<now, tx, pay, check>> PROVE FinalInv'
  BY <1>1 DEF FinalInv, HeightRead, Anchored, Rested, Meanwhile, Old
<1>2. ASSUME now' = now + 1, UNCHANGED <<tx, pay, check>> PROVE FinalInv'
  <2>1. Anchored' BY <1>2 DEF FinalInv, Anchored, Old
  <2>2. (tx # None /\ tx.block # None => tx.block <= now)' BY <1>2 DEF FinalInv
  <2>3. HeightRead' BY <1>2 DEF FinalInv, HeightRead
  <2>4. ASSUME NEW margin, Rested(margin), pay.status \in {"auto", "verified"}
        PROVE  margin < MinConfirmations => tx.block # None /\ (pay.coin = "ton" \/ Old(tx.block, now + 1))
    <3>1. tx # None BY <2>4 DEF TypesInv, Begun
    <3> QED BY <2>4, <3>1, Numbers DEF Rested, Old
  <2>5. (pay.status = "auto" => check.step \in {"confirmed", "over"} /\ Rested(ReorgDepth + Meanwhile))'
    BY <1>2, <2>4 DEF FinalInv, Rested, Meanwhile, Old
  <2>6. (pay.status = "verified" => Rested(ReorgDepth))' BY <1>2, <2>4 DEF FinalInv, Rested, Old
  <2>7. (check.step = "accepted" /\ pay.coin # "ton" /\ ReorgDepth + Meanwhile < MinConfirmations =>
              Old(check.block, check.newest))'
    BY <1>2 DEF FinalInv, Meanwhile, Old
  <2>8. (tx # None /\ pay.coin = "ton" => tx.block # None)' BY <1>2 DEF FinalInv
  <2> QED BY <2>1, <2>2, <2>3, <2>5, <2>6, <2>7, <2>8 DEF FinalInv
<1>3. ASSUME Tick \/ Move PROVE FinalInv' BY <1>2, <1>3 DEF Tick, Move, Passes
<1>4. ASSUME Reorg PROVE FinalInv'
  <2>1. /\ pay.coin # "ton" /\ tx # None /\ tx.block \in Nat
        /\ UNCHANGED <<now, pay, check>>
    BY <1>4 DEF Reorg
  <2>2. PICK depth \in 1..ReorgDepth :
            /\ tx.block > now - depth
            /\ \E b \in {None} \cup {t \in 0..now : t > now - depth} : tx' = [tx EXCEPT !.block = b]
    BY <1>4 DEF Reorg
  <2>3. PICK b \in {None} \cup (0..now) : tx' = [tx EXCEPT !.block = b] BY <2>2
  <2>4. tx'.block = b BY <2>1, <2>3
  <2>5. ~Old(tx.block, now) BY <2>1, <2>2, Numbers DEF Old
  <2>6. check.step \in ReadAlready => check.block \in Nat /\ ~Old(check.block, check.newest)
    <3> SUFFICES ASSUME check.step \in ReadAlready, Old(check.block, check.newest) PROVE check.block \in Nat /\ FALSE
      BY <2>1 DEF FinalInv, Anchored
    <3>1. tx.block = check.block /\ check.newest <= now BY <2>1 DEF FinalInv, Anchored, HeightRead
    <3> QED BY <2>1, <2>5, <3>1, Numbers DEF Old
  <2>7. Anchored' BY <2>1, <2>6 DEF Anchored, Old
  <2>8. b # None => b <= now BY <2>3
  <2>9. HeightRead' BY <2>1 DEF FinalInv, HeightRead
  <2>10. ASSUME NEW margin, Rested(margin) PROVE ~(margin < MinConfirmations)
    BY <2>1, <2>5, <2>10 DEF Rested
  <2>11. (pay.status = "auto" => check.step \in {"confirmed", "over"} /\ Rested(ReorgDepth + Meanwhile))'
    <3> SUFFICES ASSUME pay.status = "auto" PROVE check.step \in {"confirmed", "over"} /\ Rested(ReorgDepth + Meanwhile)'
      BY <2>1
    <3>1. check.step \in {"confirmed", "over"} /\ ~(ReorgDepth + Meanwhile < MinConfirmations)
      BY <2>10 DEF FinalInv
    <3>2. Meanwhile' = Meanwhile BY <2>1 DEF Meanwhile
    <3> QED BY <3>1, <3>2 DEF Rested
  <2>12. (pay.status = "verified" => Rested(ReorgDepth))'
    <3> SUFFICES ASSUME pay.status = "verified" PROVE Rested(ReorgDepth)'
      BY <2>1
    <3> QED BY <2>10 DEF FinalInv, Rested
  <2>13. (check.step = "accepted" /\ pay.coin # "ton" /\ ReorgDepth + Meanwhile < MinConfirmations =>
              Old(check.block, check.newest))'
    BY <2>1 DEF FinalInv, Meanwhile, Old
  <2> QED BY <2>1, <2>4, <2>7, <2>8, <2>9, <2>11, <2>12, <2>13 DEF FinalInv
<1>5. ASSUME Refresh PROVE FinalInv'
  <2>1. UNCHANGED <<now, tx, pay, check>> BY <1>5 DEF Refresh, RefreshUsdt, RefreshTon, RefreshAvax, Cache
  <2> QED BY <1>1, <2>1
<1>6. ASSUME Send PROVE FinalInv'
  <2>1. tx = None /\ pay.status = "none" /\ UNCHANGED <<now, pay, check>> BY <1>6 DEF Send
  <2>2. tx'.block = now BY <1>6 DEF Send
  <2>3. check.step = "none" BY <2>1 DEF TypesInv, Begun
  <2>4. HeightRead' BY <2>1 DEF FinalInv, HeightRead
  <2> QED BY <2>1, <2>2, <2>3, <2>4 DEF FinalInv, Anchored, ReadAlready
<1>7. ASSUME Submit PROVE FinalInv'
  <2>1. pay' = [pay EXCEPT !.status = "pending"] /\ UNCHANGED <<now, tx>> BY <1>7 DEF Submit
  <2>2. pay'.status = "pending" /\ pay'.coin = pay.coin BY <2>1
  <2>3. PICK s \in {"declined", "transaction", "receipt"} :
            check' = [NoCheck EXCEPT !.since = now, !.step = s]
    BY <1>7 DEF Submit
  <2>4. check'.step = s /\ check'.newest = 0 /\ check'.height = None BY <2>3 DEF NoCheck
  <2>5. HeightRead' BY <2>1, <2>4 DEF HeightRead
  <2> QED BY <2>1, <2>2, <2>4, <2>5 DEF FinalInv, Anchored, ReadAlready
<1>8. CASE ReadTransaction \/ ReadUsdt \/ ReadAvax \/ ReadTon \/ ReadNothing \/ ReadHeight \/ ReadTime \/ TimeOut
           \/ Verdict
  BY <1>8, FinalReads
<1>9. CASE AutoConfirm \/ Verify \/ Announce BY <1>9, FinalSettles
<1>10. CASE BillingNext /\ UNCHANGED depositVars BY <1>1, <1>10 DEF depositVars
<1>11. CASE UNCHANGED vars BY <1>1, <1>11 DEF vars, depositVars
<1> QED
  BY <1>3, <1>4, <1>5, <1>6, <1>7, <1>8, <1>9, <1>10, <1>11 DEF Next, DepositStep

\* An invoice that was settled from the chain stays paid for, unless the blocks that can be
\* replaced and those that came between the two reads reach the confirmations asked for: a
\* block that was deep when it was read is the transaction's for good.
THEOREM SettledStays == Spec => []SettledIsFinal
<1>1. Init => TypesInv /\ FinalInv BY TypesInit, FinalInit
<1>2. TypesInv /\ FinalInv /\ [Next]_vars => (TypesInv /\ FinalInv)' BY TypesStep, FinalStep
<1>3. ASSUME TypesInv, FinalInv PROVE SettledIsFinal
  <2> USE FinalTypes
  <2> SUFFICES ASSUME tx = None \/ tx.block = None
               PROVE  /\ pay.status = "verified" => ReorgDepth >= MinConfirmations
                      /\ pay.status = "auto" => ReorgDepth + Meanwhile >= MinConfirmations
    BY DEF SettledIsFinal
  <2>1. pay.status \in {"auto", "verified"} => tx.block = None BY <1>3 DEF TypesInv, Begun
  <2>2. Meanwhile \in Nat
    <3>1. CASE check.height = None BY <3>1 DEF Meanwhile
    <3>2. CASE check.height # None BY <1>3, <3>2 DEF Meanwhile, FinalInv, HeightRead
    <3> QED BY <3>1, <3>2
  <2>3. pay.status = "verified" => ~(ReorgDepth < MinConfirmations) BY <1>3, <2>1 DEF FinalInv, Rested
  <2>4. pay.status = "auto" => ~(ReorgDepth + Meanwhile < MinConfirmations) BY <1>3, <2>1 DEF FinalInv, Rested
  <2> QED BY <2>2, <2>3, <2>4, Numbers
<1> QED BY <1>1, <1>2, <1>3, PTL DEF Spec

-----------------------------------------------------------------------------
(* The types of MonthlyBilling.                                            *)

InvoiceRow == [status : {"draft", "sent", "paid"}, amount : Edition]

LEMMA EditionTypes ==
    ASSUME BillingTypes
    PROVE  /\ MaxEvents \in Nat /\ MAX_ATTEMPTS \in Nat /\ events \in 0..MaxEvents /\ 0 \in Edition
           /\ world.events \in Nat /\ world.events <= MaxEvents
<1>1. MaxEvents \in Nat /\ MAX_ATTEMPTS \in Nat BY BoundsAssumption
<1>2. world.events \in 0..MaxEvents BY WorldsAssumption DEF BillingTypes, TypeOK
<1> QED BY <1>1, <1>2 DEF BillingTypes, Edition

\* What an event or a fault leaves of the world.
LEMMA Worldly ==
    ASSUME BillingTypes, (\E e : Event(e)) \/ (\E e : Fault(e)) \/ UNCHANGED world_
    PROVE  /\ world' = world /\ parent' = parent /\ over' = over
           /\ events' \in Nat /\ events <= events' /\ events' <= world.events
           /\ events' = events \/ events' = events + 1
<1>1. events \in Nat /\ events <= world.events /\ world.events \in Nat BY EditionTypes DEF BillingTypes
<1>2. CASE \E e : Event(e) BY <1>1, <1>2 DEF Event
<1>3. CASE (\E e : Fault(e)) \/ UNCHANGED world_ BY <1>1, <1>3 DEF Fault, world_
<1> QED BY <1>2, <1>3

\* A job with one field changed is a job.
LEMMA JobFields ==
    ASSUME NEW j \in Job
    PROVE  /\ \A s \in {"idle", "syncing", "generated", "sending", "telling", "told"} : [j EXCEPT !.step = s] \in Job
           /\ \A t \in SUBSET Admins : [j EXCEPT !.todo = t] \in Job
           /\ \A a \in Admins \cup {None} : [j EXCEPT !.at = a] \in Job
           /\ \A o \in {"sent", "failed", "unsent"} : [j EXCEPT !.outcome = o] \in Job
           /\ \A b \in BOOLEAN : [j EXCEPT !.problem = b] \in Job /\ [j EXCEPT !.cycle = b] \in Job
                                 /\ [j EXCEPT !.again = b] \in Job
BY DEF Job

LEMMA IdleJob == Idle \in Job /\ Idle.again = FALSE /\ Idle.step = "idle"
BY DEF Idle, Job

\* The step of one worker.
LEMMA Stepping ==
    ASSUME BillingTypes, NEW w \in Workers, NEW job \in Job, Step(w, job)
    PROVE  /\ work' \in [Workers -> Job] /\ work'[w] = job /\ work[w] \in Job
           /\ \A v \in Workers : v # w => work'[v] = work[v]
BY DEF BillingTypes, TypeOK, Step

\* What steps leave of the types when they touch only the workers, the invoices, the run,
\* the syncs and the history.
LEMMA BillingTypesKept ==
    ASSUME BillingTypes, world' = world, parent' = parent, over' \in BOOLEAN,
           events' \in Nat, events <= events', events' <= world.events,
           panel' = panel, stored' = stored,
           syncs' \in [Keys -> SyncTask \cup {None}],
           inv' \in [Admins -> InvoiceRow \cup {None}],
           run' \in [status : {"none", "running", "retry", "failed", "completed"},
                     attempts : 0..(MAX_ATTEMPTS + events'), waiting : BOOLEAN],
           work' \in [Workers -> Job], told' \in [Admins -> Nat], redone' \in [Admins -> Nat]
    PROVE  BillingTypes'
<1>1. TypeOK' BY DEF BillingTypes, TypeOK, InvoiceRow
<1>2. panel \in [Panels -> Content] BY DEF BillingTypes, TypeOK
<1>3. \A p \in Panels : panel[p].edition \in Nat BY <1>2, EditionTypes DEF Content, Edition
<1>4. \A p \in Panels : panel'[p].edition <= events'
  BY <1>3 DEF BillingTypes
<1> QED BY <1>1, <1>4 DEF BillingTypes

\* The types taken apart.
LEMMA BillingParts ==
    ASSUME BillingTypes
    PROVE  /\ syncs \in [Keys -> SyncTask \cup {None}] /\ inv \in [Admins -> InvoiceRow \cup {None}]
           /\ work \in [Workers -> Job] /\ told \in [Admins -> Nat] /\ redone \in [Admins -> Nat]
           /\ panel \in [Panels -> Content] /\ stored \in [Panels -> Stored] /\ over \in BOOLEAN
           /\ run \in [status : {"none", "running", "retry", "failed", "completed"},
                       attempts : 0..(MAX_ATTEMPTS + events), waiting : BOOLEAN]
           /\ \A n \in Nat : events <= n =>
                 run \in [status : {"none", "running", "retry", "failed", "completed"},
                          attempts : 0..(MAX_ATTEMPTS + n), waiting : BOOLEAN]
<1>1. run \in [status : {"none", "running", "retry", "failed", "completed"},
               attempts : 0..(MAX_ATTEMPTS + events), waiting : BOOLEAN]
  BY DEF BillingTypes, TypeOK
<1>2. ASSUME NEW n \in Nat, events <= n
      PROVE  run \in [status : {"none", "running", "retry", "failed", "completed"},
                      attempts : 0..(MAX_ATTEMPTS + n), waiting : BOOLEAN]
  <2>1. 0..(MAX_ATTEMPTS + events) \subseteq 0..(MAX_ATTEMPTS + n) BY <1>2, EditionTypes
  <2> QED BY <1>1, <2>1
<1> QED BY <1>1, <1>2 DEF BillingTypes, TypeOK, InvoiceRow

LEMMA SyncTypes ==
    ASSUME BillingTypes, NEW k \in Keys, SyncStep(k)
    PROVE  BillingTypes'
<1> USE BillingParts
<1> DEFINE data == syncs[k].data
           p == k[1]
           Rest == UNCHANGED <<panel, inv, run, work, told, redone>>
<1>1. p \in Panels BY DEF Keys
<1>2. syncs[k] # None /\ UNCHANGED <<panel, inv, run, work, history>>
  BY DEF SyncStep, Fetch, WriteSync, FailSync, RecordFailure, Others
<1>3. syncs[k] \in SyncTask BY <1>2
<1>4. /\ world' = world /\ parent' = parent /\ over' = over
      /\ events' \in Nat /\ events <= events' /\ events' <= world.events
  <2>1. (\E e : Fault(e)) \/ UNCHANGED world_
    <3>1. Fault("outage") \/ UNCHANGED world_ BY DEF SyncStep, Fetch, WriteSync, FailSync, RecordFailure
    <3> QED BY <3>1
  <2> QED BY <2>1, Worldly
<1>5. ASSUME stored' \in [Panels -> Stored], syncs' \in [Keys -> SyncTask \cup {None}] PROVE BillingTypes'
  <2>1. TypeOK' BY <1>2, <1>4, <1>5 DEF BillingTypes, TypeOK
  <2>2. panel \in [Panels -> Content] BY DEF BillingTypes, TypeOK
  <2>3. \A q \in Panels : panel[q].edition \in Nat BY <2>2, EditionTypes DEF Content, Edition
  <2> QED BY <1>2, <1>4, <2>1, <2>3 DEF BillingTypes, history
<1>6. CASE Fetch(k)
  <2>1. [syncs[k] EXCEPT !.step = "fetched"] \in SyncTask BY <1>3 DEF SyncTask
  <2>2. PICK task \in SyncTask : syncs' = [syncs EXCEPT ![k] = task]
    <3>1. CASE syncs' = [syncs EXCEPT ![k].step = "fetched", ![k].data = panel[k[1]]]
      <4> DEFINE task == [[syncs[k] EXCEPT !.step = "fetched"] EXCEPT !.data = panel[k[1]]]
      <4>1. task \in SyncTask BY <1>1, <2>1 DEF SyncTask
      <4>2. syncs' = [syncs EXCEPT ![k] = task] BY <3>1
      <4> QED BY <4>1, <4>2
    <3>2. CASE syncs' = [syncs EXCEPT ![k].step = "fetched"] BY <2>1, <3>2
    <3> QED BY <1>6, <3>1, <3>2 DEF Fetch
  <2>3. stored' = stored BY <1>6 DEF Fetch
  <2> QED BY <1>5, <2>2, <2>3
<1>7. CASE WriteSync(k)
  <2>1. data \in Content BY <1>3, <1>7 DEF WriteSync, SyncTask
  <2>2. stored[p].rows \cup data.here \subseteq Admins BY <1>1, <2>1 DEF Stored, Content
  <2>3. [edition |-> data.edition, here |-> data.here, sells |-> data.sells,
         rows |-> stored[p].rows \cup data.here, synced |-> TRUE, status |-> "ok"] \in Stored
    BY <2>1, <2>2 DEF Stored, Content
  <2>4. stored' \in [Panels -> Stored] BY <1>7, <2>3 DEF WriteSync
  <2>5. ASSUME NEW x \in Keys, syncs[x] # None PROVE [syncs[x] EXCEPT !.newer = TRUE] \in SyncTask
    <3>1. syncs[x] \in SyncTask BY <2>5
    <3> QED BY <3>1 DEF SyncTask
  <2>6. syncs' = [x \in Keys |-> IF x = k THEN None
                                 ELSE IF x[1] = p /\ syncs[x] # None THEN [syncs[x] EXCEPT !.newer = TRUE]
                                 ELSE syncs[x]]
    BY <1>7 DEF WriteSync
  <2>7. syncs' \in [Keys -> SyncTask \cup {None}] BY <2>5, <2>6
  <2> QED BY <1>5, <2>4, <2>7
<1>8. CASE FailSync(k)
  <2>1. [syncs[k] EXCEPT !.step = "failing"] \in SyncTask BY <1>3 DEF SyncTask
  <2>2. syncs' = [syncs EXCEPT ![k].step = "failing"] /\ stored' = stored BY <1>8 DEF FailSync
  <2>3. syncs' = [syncs EXCEPT ![k] = [syncs[k] EXCEPT !.step = "failing"]] BY <2>2
  <2> QED BY <1>5, <2>1, <2>2, <2>3
<1>9. CASE RecordFailure(k)
  <2>1. [stored[p] EXCEPT !.status = "error"] \in Stored
    <3>1. stored[p] \in Stored BY <1>1
    <3> QED BY <3>1 DEF Stored
  <2>2. stored' = stored \/ stored' = [stored EXCEPT ![p] = [stored[p] EXCEPT !.status = "error"]]
    BY <1>9 DEF RecordFailure
  <2>3. stored' \in [Panels -> Stored] BY <2>1, <2>2
  <2>4. syncs' \in [Keys -> SyncTask \cup {None}] BY <1>9 DEF RecordFailure
  <2> QED BY <1>5, <2>3, <2>4
<1> QED BY <1>6, <1>7, <1>8, <1>9 DEF SyncStep

\* What a generation leaves of a reseller's invoice: what is out stays, with its status.
LEMMA Generating ==
    ASSUME BillingTypes, NEW force \in BOOLEAN
    PROVE  /\ Generated(force) \in [Admins -> InvoiceRow \cup {None}]
           /\ \A a \in Admins :
                 IF inv[a] = None \/ inv[a].status = "draft"
                 THEN Generated(force)[a] = None \/ Generated(force)[a].status = "draft"
                 ELSE Generated(force)[a] # None /\ Generated(force)[a].status = inv[a].status
<1> USE BillingParts
<1>1. ASSUME NEW a \in Admins PROVE Draft(a) \in InvoiceRow /\ Draft(a).status = "draft"
  <2>1. stored[PanelOf[a]].edition \in Edition BY PanelsAssumption DEF Stored
  <2> QED BY <2>1 DEF Draft, InvoiceRow
<1>2. ASSUME NEW a \in Admins, inv[a] # None
      PROVE  LET row == [inv[a] EXCEPT !.amount = stored[PanelOf[a]].edition]
             IN row \in InvoiceRow /\ row.status = inv[a].status
  <2>1. stored[PanelOf[a]].edition \in Edition BY PanelsAssumption DEF Stored
  <2>2. inv[a] \in InvoiceRow BY <1>2
  <2> QED BY <2>1, <2>2 DEF InvoiceRow
<1>3. InvoiceRow \subseteq [status : {"draft", "sent", "paid"}, amount : Nat]
  BY EditionTypes DEF InvoiceRow, Edition
<1>4. \A row \in InvoiceRow : row # None BY <1>3, NoneAssumption
<1>5. ASSUME NEW a \in Admins
      PROVE  /\ Persisted(a, force) \in InvoiceRow
             /\ IF inv[a] = None \/ inv[a].status = "draft" THEN Persisted(a, force).status = "draft"
                ELSE Persisted(a, force).status = inv[a].status
  BY <1>1, <1>2 DEF Persisted
<1>6. ASSUME NEW a \in Admins
      PROVE  /\ Generated(force)[a] \in InvoiceRow \cup {None}
             /\ IF inv[a] = None \/ inv[a].status = "draft"
                THEN Generated(force)[a] = None \/ Generated(force)[a].status = "draft"
                ELSE Generated(force)[a] # None /\ Generated(force)[a].status = inv[a].status
  BY <1>4, <1>5 DEF Generated
<1>7. Generated(force) \in [Admins -> InvoiceRow \cup {None}] BY <1>6 DEF Generated
<1> QED BY <1>6, <1>7

\* The jobs the workers go on with.
LEMMA JobTypes ==
    ASSUME BillingTypes, NEW w \in Workers
    PROVE  /\ work[w] \in Job
           /\ [Idle EXCEPT !.step = "syncing", !.cycle = TRUE] \in Job
           /\ [Idle EXCEPT !.step = "generated"] \in Job
           /\ \A a \in Admins : [Idle EXCEPT !.step = "sending", !.todo = {a}, !.again = TRUE] \in Job
           /\ \A b \in BOOLEAN : [work[w] EXCEPT !.step = "generated", !.problem = b] \in Job
           /\ \A t \in SUBSET Admins : [work[w] EXCEPT !.step = "sending", !.todo = t] \in Job
           /\ \A a \in Admins : [work[w] EXCEPT !.todo = @ \ {a}] \in Job
           /\ \A a \in Admins : [work[w] EXCEPT !.step = "telling", !.todo = @ \ {a}, !.at = a] \in Job
           /\ \A o \in {"sent", "failed", "unsent"} : [work[w] EXCEPT !.step = "told", !.outcome = o] \in Job
           /\ \A b \in BOOLEAN :
                 [work[w] EXCEPT !.step = "sending", !.at = None, !.outcome = "unsent", !.problem = b] \in Job
<1>1. work[w] \in Job BY BillingParts
<1>2. work[w].todo \subseteq Admins /\ \A a \in Admins : work[w].todo \ {a} \subseteq Admins BY <1>1 DEF Job
<1>3. [Idle EXCEPT !.step = "syncing", !.cycle = TRUE] \in Job
      /\ [Idle EXCEPT !.step = "generated"] \in Job
      /\ \A a \in Admins : [Idle EXCEPT !.step = "sending", !.todo = {a}, !.again = TRUE] \in Job
  BY IdleJob DEF Job, Idle
<1>4. \A b \in BOOLEAN : [work[w] EXCEPT !.step = "generated", !.problem = b] \in Job
  <2>1. [work[w] EXCEPT !.step = "generated"] \in Job BY <1>1, JobFields
  <2> QED BY <2>1, JobFields
<1>5. \A t \in SUBSET Admins : [work[w] EXCEPT !.step = "sending", !.todo = t] \in Job
  <2>1. [work[w] EXCEPT !.step = "sending"] \in Job BY <1>1, JobFields
  <2> QED BY <2>1, JobFields
<1>6. ASSUME NEW a \in Admins PROVE [work[w] EXCEPT !.todo = @ \ {a}] \in Job
  BY <1>1, <1>2, JobFields
<1>7. ASSUME NEW a \in Admins PROVE [work[w] EXCEPT !.step = "telling", !.todo = @ \ {a}, !.at = a] \in Job
  <2>1. [work[w] EXCEPT !.step = "telling"] \in Job BY <1>1, JobFields
  <2>2. [[work[w] EXCEPT !.step = "telling"] EXCEPT !.todo = work[w].todo \ {a}] \in Job BY <1>2, <2>1, JobFields
  <2>3. [[[work[w] EXCEPT !.step = "telling"] EXCEPT !.todo = work[w].todo \ {a}] EXCEPT !.at = a] \in Job
    BY <2>2, JobFields
  <2> QED BY <1>1, <2>3 DEF Job
<1>8. ASSUME NEW o \in {"sent", "failed", "unsent"} PROVE [work[w] EXCEPT !.step = "told", !.outcome = o] \in Job
  <2>1. [work[w] EXCEPT !.step = "told"] \in Job BY <1>1, JobFields
  <2> QED BY <2>1, JobFields
<1>9. ASSUME NEW b \in BOOLEAN
      PROVE  [work[w] EXCEPT !.step = "sending", !.at = None, !.outcome = "unsent", !.problem = b] \in Job
  <2>1. [work[w] EXCEPT !.step = "sending"] \in Job BY <1>1, JobFields
  <2>2. [work[w] EXCEPT !.step = "sending", !.at = None] \in Job BY <2>1, JobFields
  <2>3. [work[w] EXCEPT !.step = "sending", !.at = None, !.outcome = "unsent"] \in Job BY <2>2, JobFields
  <2> QED BY <2>3, JobFields
<1> QED BY <1>1, <1>3, <1>4, <1>5, <1>6, <1>7, <1>8, <1>9

\* What is added to one reseller's count.
Adds(f, g, a, n) == g \in [Admins -> Nat] /\ \A b \in Admins : g[b] = IF b = a THEN f[b] + n ELSE f[b]
LEMMA Adding ==
    ASSUME NEW f \in [Admins -> Nat], NEW a, NEW n \in Nat
    PROVE  Adds(f, [f EXCEPT ![a] = @ + n], a, n) /\ Adds(f, f, a, 0)
<1> DEFINE g == [f EXCEPT ![a] = @ + n]
<1>1. g \in [Admins -> Nat]
  <2>1. CASE a \in Admins
    <3>1. f[a] + n \in Nat BY <2>1
    <3> QED BY <2>1, <3>1
  <2>2. CASE a \notin Admins
    <3>1. g = f BY <2>2
    <3> QED BY <3>1
  <2> QED BY <2>1, <2>2
<1>2. \A b \in Admins : g[b] = IF b = a THEN f[b] + n ELSE f[b] OBVIOUS
<1>3. \A b \in Admins : f[b] = IF b = a THEN f[b] + 0 ELSE f[b] OBVIOUS
<1> QED BY <1>1, <1>2, <1>3 DEF Adds

\* Messages whose answer was lost, none to two of them, and one more if it is recorded.
LEMMA Telling ==
    ASSUME told \in [Admins -> Nat], redone \in [Admins -> Nat], NEW w \in Workers, Tell(w)
    PROVE  \E o \in {"sent", "failed", "unsent"}, lost \in {0, 1, 2} :
              /\ Step(w, [work[w] EXCEPT !.step = "told", !.outcome = o])
              /\ work[w].step = "telling" /\ inv' = inv
              /\ Adds(told, told', work[w].at, lost + One(o = "sent")) /\ Adds(redone, redone', work[w].at, lost)
<1> DEFINE a == work[w].at
           Ends(o) == Step(w, [work[w] EXCEPT !.step = "told", !.outcome = o])
<1>1. inv' = inv /\ work[w].step = "telling" BY DEF Tell
<1>2. ASSUME NEW o \in {"sent", "failed", "unsent"}, NEW lost \in {0, 1, 2}, NEW more \in Nat,
             Ends(o), Adds(told, told', a, more), Adds(redone, redone', a, lost), more = lost + One(o = "sent")
      PROVE  \E p \in {"sent", "failed", "unsent"}, n \in {0, 1, 2} :
                Ends(p) /\ Adds(told, told', a, n + One(p = "sent")) /\ Adds(redone, redone', a, n)
  <2>1. Adds(told, told', a, lost + One(o = "sent")) BY <1>2
  <2> QED BY <1>2, <2>1
<1> HIDE DEF Ends
<1>3. ASSUME UNCHANGED redone, told' = [told EXCEPT ![a] = @ + 1], Ends("sent")
      PROVE  \E p \in {"sent", "failed", "unsent"}, n \in {0, 1, 2} :
                Ends(p) /\ Adds(told, told', a, n + One(p = "sent")) /\ Adds(redone, redone', a, n)
  <2>1. Adds(told, told', a, 1) /\ Adds(redone, redone', a, 0) BY <1>3, Adding
  <2>2. 1 = 0 + One("sent" = "sent") BY DEF One
  <2> QED BY <1>2, <1>3, <2>1, <2>2
<1>4. ASSUME NEW full \in {0, 1}, NEW plain \in {0, 1}, NEW answer \in {"sent", "failed"},
             answer = "sent" => plain = 1,
             told' = [told EXCEPT ![a] = @ + (full + plain)],
             redone' = [redone EXCEPT ![a] = @ + IF answer = "sent" THEN full ELSE full + plain],
             Ends(answer)
      PROVE  \E p \in {"sent", "failed", "unsent"}, n \in {0, 1, 2} :
                Ends(p) /\ Adds(told, told', a, n + One(p = "sent")) /\ Adds(redone, redone', a, n)
  <2>1. PICK more \in {0, 1, 2} : more = full + plain OBVIOUS
  <2>2. PICK lost \in {0, 1, 2} : lost = IF answer = "sent" THEN full ELSE full + plain OBVIOUS
  <2>3. more = lost + One(answer = "sent") BY <1>4, <2>1, <2>2 DEF One
  <2>4. told' = [told EXCEPT ![a] = @ + more] BY <1>4, <2>1
  <2>5. redone' = [redone EXCEPT ![a] = @ + lost] BY <1>4, <2>2
  <2>6. Adds(told, told', a, more) /\ Adds(redone, redone', a, lost) BY <2>4, <2>5, Adding
  <2> QED BY <1>2, <1>4, <2>3, <2>6
<1>5. ASSUME UNCHANGED <<told, redone>>, Ends("unsent")
      PROVE  \E p \in {"sent", "failed", "unsent"}, n \in {0, 1, 2} :
                Ends(p) /\ Adds(told, told', a, n + One(p = "sent")) /\ Adds(redone, redone', a, n)
  <2>1. Adds(told, told', a, 0) /\ Adds(redone, redone', a, 0) BY <1>5, Adding
  <2>2. 0 = 0 + One("unsent" = "sent") BY DEF One
  <2> QED BY <1>2, <1>5, <2>1, <2>2
<1>6. \E p \in {"sent", "failed", "unsent"}, n \in {0, 1, 2} :
         Ends(p) /\ Adds(told, told', a, n + One(p = "sent")) /\ Adds(redone, redone', a, n)
  <2>1. CASE \E full, plain \in {0, 1} : \E answer \in {"sent", "failed"} :
              /\ answer = "sent" => plain = 1
              /\ told' = [told EXCEPT ![a] = @ + (full + plain)]
              /\ redone' = [redone EXCEPT ![a] = @ + IF answer = "sent" THEN full ELSE full + plain]
              /\ Ends(answer)
    BY <1>4, <2>1
  <2>2. CASE UNCHANGED redone /\ told' = [told EXCEPT ![a] = @ + 1] /\ Ends("sent") BY <1>3, <2>2
  <2>3. CASE UNCHANGED <<told, redone>> /\ Ends("unsent") BY <1>5, <2>3
  <2> QED BY Zenon, <2>1, <2>2, <2>3 DEF Tell, Ends
<1> QED BY <1>1, <1>6 DEF Ends

\* The steps of one worker: what it takes up, what it does then, and how it stops.
LEMMA WorkerTypes ==
    ASSUME BillingTypes, NEW w \in Workers, RunDue(w) \/ CycleStep(w) \/ Raise(w) \/ Crash(w)
    PROVE  BillingTypes'
<1> USE BillingParts
<1> DEFINE RunType(n) == [status : {"none", "running", "retry", "failed", "completed"},
                          attempts : 0..(MAX_ATTEMPTS + n), waiting : BOOLEAN]
<1>1. /\ world' = world /\ parent' = parent /\ over' = over /\ panel' = panel /\ stored' = stored
      /\ events' = events /\ events' \in Nat /\ events <= events' /\ events' <= world.events
  <2>1. Fault("telegram") \/ Fault("exception") \/ Fault("crash") \/ UNCHANGED world_
    BY DEF RunDue, Begin, CycleStep, Generate, FinishRun, Deliver, ListDrafts, Tell, Record, Vanished, EndByHand,
           Skip, Take, Raise, Crash
  <2>2. events' = events BY <2>1 DEF Fault, world_
  <2>3. UNCHANGED <<panel, stored>>
    BY DEF RunDue, Begin, CycleStep, Generate, FinishRun, Deliver, ListDrafts, Tell, Record, Vanished, EndByHand,
           Skip, Take, Raise, Crash, Abandon
  <2> QED BY <2>1, <2>2, <2>3, Worldly
<1>2. ASSUME syncs' \in [Keys -> SyncTask \cup {None}], inv' \in [Admins -> InvoiceRow \cup {None}],
             run' \in RunType(events), work' \in [Workers -> Job],
             told' \in [Admins -> Nat], redone' \in [Admins -> Nat]
      PROVE  BillingTypes'
  BY <1>1, <1>2, BillingTypesKept
<1>3. ASSUME NEW job \in Job, Step(w, job), syncs' = syncs, inv' \in [Admins -> InvoiceRow \cup {None}],
             run' \in RunType(events), told' \in [Admins -> Nat], redone' \in [Admins -> Nat]
      PROVE  BillingTypes'
  BY <1>2, <1>3, Stepping
<1>4. MAX_ATTEMPTS \in Nat /\ events \in Nat /\ run.attempts \in Nat BY EditionTypes DEF BillingTypes
<1>5. CASE RunDue(w)
  <2>1. CASE Begin(w) /\ run.attempts < MAX_ATTEMPTS
    <3>1. run' = [status |-> "running", attempts |-> run.attempts + 1, waiting |-> FALSE] BY <2>1 DEF Begin
    <3>2. run' \in RunType(events) BY <1>4, <2>1, <3>1
    <3>3. NewSync \in SyncTask BY DEF NewSync, SyncTask
    <3>4. syncs' \in [Keys -> SyncTask \cup {None}] BY <2>1, <3>3 DEF Begin
    <3>5. work' \in [Workers -> Job] BY <2>1, JobTypes, Stepping DEF Begin
    <3> QED BY <1>2, <2>1, <3>2, <3>4, <3>5 DEF Begin, history
  <2>2. CASE run' = [run EXCEPT !.status = "failed"] /\ UNCHANGED <<panel, stored, syncs, inv, work, history>>
    BY <1>2, <2>2 DEF history
  <2> QED BY <1>5, <2>1, <2>2 DEF RunDue
<1>6. CASE Generate(w)
  <2>1. inv' \in [Admins -> InvoiceRow \cup {None}] BY <1>6, Generating DEF Generate
  <2>2. Incomplete \in BOOLEAN BY DEF Incomplete
  <2>3. [work[w] EXCEPT !.step = "generated", !.problem = Incomplete] \in Job BY <2>2, JobTypes
  <2> QED BY <1>3, <1>6, <2>1, <2>3 DEF Generate
<1>7. CASE FinishRun(w)
  <2>1. run' \in RunType(events) BY <1>4, <1>7 DEF FinishRun
  <2> QED BY <1>3, <1>7, <2>1, IdleJob DEF FinishRun, history
<1>8. CASE ListDrafts(w)
  <2>1. {a \in Admins : inv[a] # None /\ inv[a].status = "draft"} \in SUBSET Admins OBVIOUS
  <2> QED BY <1>3, <1>8, <2>1, JobTypes DEF ListDrafts, history
<1>9. CASE EndByHand(w) BY <1>3, <1>9, IdleJob DEF EndByHand, history
<1>10. CASE \E a \in Admins : Skip(w, a) \/ Take(w, a)
  <2>1. PICK a \in Admins : Skip(w, a) \/ Take(w, a) BY <1>10
  <2> QED BY <1>3, <2>1, JobTypes DEF Skip, Take, history
<1>11. CASE Tell(w)
  <2>1. PICK o \in {"sent", "failed", "unsent"} :
            /\ Step(w, [work[w] EXCEPT !.step = "told", !.outcome = o])
            /\ told' \in [Admins -> Nat] /\ redone' \in [Admins -> Nat]
    BY <1>1, <1>11, Telling DEF BillingTypes, Adds
  <2>2. [work[w] EXCEPT !.step = "told", !.outcome = o] \in Job BY JobTypes
  <2> QED BY <1>3, <1>11, <2>1, <2>2 DEF Tell
<1>12. CASE Record(w)
  <2>1. inv' \in [Admins -> InvoiceRow \cup {None}]
    <3>1. inv' = inv \/ inv' = [inv EXCEPT ![work[w].at].status = "sent"] BY <1>12 DEF Record, Recorded
    <3>2. ASSUME work[w].at \in Admins PROVE [inv[work[w].at] EXCEPT !.status = "sent"] \in InvoiceRow
      <4>1. inv[work[w].at] \in InvoiceRow BY <1>12, <3>2 DEF Record
      <4> QED BY <4>1 DEF InvoiceRow
    <3> QED BY <3>1, <3>2
  <2> DEFINE problem == work[w].problem \/ work[w].outcome = "failed"
             next == [work[w] EXCEPT !.step = "sending", !.at = None, !.outcome = "unsent", !.problem = problem]
  <2>2. Step(w, Idle) \/ Step(w, next) BY <1>12 DEF Record
  <2>3. next \in Job
    <3>1. problem \in BOOLEAN OBVIOUS
    <3> QED BY <3>1, JobTypes
  <2>4. \E job \in Job : Step(w, job) BY <2>2, <2>3, IdleJob
  <2> QED BY <1>3, <1>12, <2>1, <2>4 DEF Record, history
<1>13. redone' = Unrecorded(w) => redone' \in [Admins -> Nat]
  <2>1. Unrecorded(w) = redone \/ Unrecorded(w) = [redone EXCEPT ![work[w].at] = @ + 1] BY DEF Unrecorded
  <2> QED BY <2>1
<1>14. NoCycleSyncs \in [Keys -> SyncTask \cup {None}] BY DEF NoCycleSyncs
<1>15. CASE Vanished(w) \/ Raise(w)
  <2>1. Abandon(w) BY <1>15 DEF Vanished, Raise
  <2>2. run' \in RunType(events) BY <1>4, <2>1 DEF Abandon
  <2> QED BY <1>2, <1>13, <1>14, <2>1, <2>2, IdleJob, Stepping DEF Abandon
<1>16. CASE Crash(w)
  BY <1>2, <1>13, <1>14, <1>16, IdleJob, Stepping DEF Crash
<1> QED
  BY <1>5, <1>6, <1>7, <1>8, <1>9, <1>10, <1>11, <1>12, <1>15, <1>16 DEF CycleStep, Deliver

\* What people do, and what time does.
LEMMA ByHandTypes ==
    ASSUME BillingTypes, ByHand \/ Wait \/ MonthEnds
    PROVE  BillingTypes'
<1> USE BillingParts
<1>1. ASSUME NEW e, Event(e)
      PROVE  /\ world' = world /\ parent' = parent /\ over' = over
             /\ events' \in Nat /\ events <= events' /\ events' <= world.events /\ events' = events + 1
  BY <1>1, Worldly DEF Event
<1>2. ASSUME NEW p \in Panels, SyncByHand(p) PROVE BillingTypes'
  <2>1. Event("sync") /\ UNCHANGED <<panel, stored, inv, run, work, history>> BY <1>2 DEF SyncByHand, Others
  <2>2. NewSync \in SyncTask BY DEF NewSync, SyncTask
  <2>3. syncs' \in [Keys -> SyncTask \cup {None}] BY <1>2, <2>2 DEF SyncByHand, Keys
  <2> QED BY <1>1, <2>1, <2>3, BillingTypesKept DEF history
<1>3. ASSUME NEW a \in Admins, Sell(a) \/ Leave(a) PROVE BillingTypes'
  <2> DEFINE p == PanelOf[a]
  <2>1. p \in Panels BY PanelsAssumption
  <2>2. panel[p] \in Content /\ panel[p].edition <= events BY <2>1 DEF BillingTypes
  <2>3. Event("sales") \/ Event("leave") BY <1>3 DEF Sell, Leave
  <2>4. /\ world' = world /\ parent' = parent /\ over' = over
        /\ events' \in Nat /\ events' <= world.events /\ events' = events + 1
    BY <1>1, <2>3
  <2>5. PICK here, sells : here \subseteq Admins /\ sells \subseteq Admins /\ Change(p, here, sells)
    <3>1. panel[p].here \subseteq Admins /\ panel[p].sells \subseteq Admins BY <2>2 DEF Content
    <3>2. CASE Sell(a)
      <4>1. PICK sells \in {panel[p].sells \cup {a}, panel[p].sells \ {a}} : Change(p, panel[p].here, sells)
        BY <3>2 DEF Sell
      <4> QED BY <3>1, <4>1
    <3>3. CASE Leave(a) BY <3>1, <3>3 DEF Leave
    <3> QED BY <1>3, <3>2, <3>3
  <2> DEFINE row == [edition |-> panel[p].edition + 1, here |-> here, sells |-> sells]
  <2>6. panel' = [panel EXCEPT ![p] = row] /\ UNCHANGED <<stored, syncs, inv, run, work, history>>
    BY <2>5 DEF Change
  <2>7. row.edition \in Nat /\ row.edition <= events' /\ row \in Content
    <3>1. panel[p].edition \in Nat /\ panel[p].edition + 1 <= MaxEvents
      BY <2>2, <2>4, EditionTypes DEF Content, Edition
    <3>2. row.edition \in Edition BY <3>1, EditionTypes DEF Edition
    <3>3. row \in Content BY <2>5, <3>2 DEF Content
    <3>4. row.edition \in Nat /\ row.edition <= events' BY <2>2, <2>4, <3>1, EditionTypes
    <3> QED BY <3>3, <3>4
  <2>8. panel' \in [Panels -> Content] BY <2>6, <2>7
  <2>9. ASSUME NEW q \in Panels PROVE panel'[q].edition <= events'
    <3>1. CASE q = p BY <2>1, <2>6, <2>7, <3>1
    <3>2. CASE q # p
      <4>1. panel'[q] = panel[q] /\ panel[q].edition <= events /\ panel[q] \in Content
        BY <2>6, <3>2 DEF BillingTypes
      <4>2. panel[q].edition \in Nat BY <4>1, EditionTypes DEF Content, Edition
      <4> QED BY <2>4, <4>1, <4>2, EditionTypes
    <3> QED BY <3>1, <3>2
  <2>10. run' \in [status : {"none", "running", "retry", "failed", "completed"},
                   attempts : 0..(MAX_ATTEMPTS + events'), waiting : BOOLEAN]
    BY <2>4, <2>6, EditionTypes
  <2>11. TypeOK' BY <2>4, <2>6, <2>8, <2>10 DEF BillingTypes, TypeOK
  <2> QED BY <2>4, <2>6, <2>9, <2>11 DEF BillingTypes, history
<1>4. ASSUME NEW a \in Admins, Pay(a) PROVE BillingTypes'
  <2>1. inv[a] \in InvoiceRow BY <1>4 DEF Pay
  <2>2. [inv[a] EXCEPT !.status = "paid"] \in InvoiceRow BY <2>1 DEF InvoiceRow
  <2>3. inv' \in [Admins -> InvoiceRow \cup {None}] BY <1>4, <2>2 DEF Pay
  <2>4. Event("pay") /\ UNCHANGED <<panel, stored, syncs, run, work, history>> BY <1>4 DEF Pay
  <2> QED BY <1>1, <2>3, <2>4, BillingTypesKept DEF history
<1>5. ASSUME GenerateByHand PROVE BillingTypes'
  <2>1. inv' \in [Admins -> InvoiceRow \cup {None}] BY <1>5, Generating DEF GenerateByHand
  <2>2. Event("generate") /\ UNCHANGED <<panel, stored, syncs, run, work, told, redone>>
    BY <1>5 DEF GenerateByHand
  <2> QED BY <1>1, <2>1, <2>2, BillingTypesKept
<1>6. ASSUME NEW w \in Workers, SendPeriodByHand(w) PROVE BillingTypes'
  <2>1. work' \in [Workers -> Job] BY <1>6, JobTypes, Stepping DEF SendPeriodByHand
  <2>2. Event("send period") /\ UNCHANGED <<panel, stored, syncs, inv, run, history>>
    BY <1>6 DEF SendPeriodByHand
  <2> QED BY <1>1, <2>1, <2>2, BillingTypesKept DEF history
<1>7. ASSUME NEW w \in Workers, NEW a \in Admins, SendByHand(w, a) PROVE BillingTypes'
  <2>1. work' \in [Workers -> Job] BY <1>7, JobTypes, Stepping DEF SendByHand
  <2>2. /\ Event("resend") /\ redone' = [redone EXCEPT ![a] = @ + 1]
        /\ UNCHANGED <<panel, stored, syncs, inv, run, told>>
    BY <1>7 DEF SendByHand
  <2>3. redone' \in [Admins -> Nat] BY <2>2
  <2> QED BY <1>1, <2>1, <2>2, <2>3, BillingTypesKept
<1>8. ASSUME NEW w \in Workers, RetryFailed(w) PROVE BillingTypes'
  <2>1. Event("retry failed") /\ Begin(w) BY <1>8 DEF RetryFailed
  <2>2. events' \in Nat /\ events' = events + 1 /\ MAX_ATTEMPTS \in Nat BY <1>1, <2>1, EditionTypes
  <2>3. run' = [status |-> "running", attempts |-> run.attempts + 1, waiting |-> FALSE] BY <2>1 DEF Begin
  <2>4. run' \in [status : {"none", "running", "retry", "failed", "completed"},
                  attempts : 0..(MAX_ATTEMPTS + events'), waiting : BOOLEAN]
    BY <2>2, <2>3, EditionTypes
  <2>5. NewSync \in SyncTask BY DEF NewSync, SyncTask
  <2>6. syncs' \in [Keys -> SyncTask \cup {None}] BY <2>1, <2>5 DEF Begin
  <2>7. work' \in [Workers -> Job] BY <2>1, JobTypes, Stepping DEF Begin
  <2> QED BY <1>1, <2>1, <2>4, <2>6, <2>7, BillingTypesKept DEF Begin, history
<1>9. ASSUME Wait PROVE BillingTypes'
  <2>1. run' = [run EXCEPT !.waiting = FALSE] /\ UNCHANGED <<panel, stored, syncs, inv, work, history, world_>>
    BY <1>9 DEF Wait
  <2>2. events' = events /\ world' = world /\ parent' = parent /\ over' = over /\ events \in Nat /\ events <= world.events
    BY <2>1 DEF world_, BillingTypes
  <2>3. run' \in [status : {"none", "running", "retry", "failed", "completed"},
                  attempts : 0..(MAX_ATTEMPTS + events'), waiting : BOOLEAN]
    BY <2>1, <2>2
  <2> QED BY <2>1, <2>2, <2>3, BillingTypesKept DEF history
<1>10. ASSUME MonthEnds PROVE BillingTypes'
  <2>1. over' \in BOOLEAN /\ UNCHANGED <<world, parent, events, faults, panel, stored, syncs, inv, run, work, history>>
    BY <1>10 DEF MonthEnds
  <2>2. events \in Nat /\ events <= world.events BY DEF BillingTypes
  <2> QED BY <2>1, <2>2, BillingTypesKept DEF history
<1> QED
  BY <1>2, <1>3, <1>4, <1>5, <1>6, <1>7, <1>8, <1>9, <1>10 DEF ByHand

\* What a deposit leaves of the billing: the payer's invoice, when it is owed, is paid.
LEMMA DepositBilling ==
    ASSUME BillingTypes, DepositStep
    PROVE  /\ UNCHANGED <<syncs, panel, stored, run, work, over, history>> /\ world' = world /\ parent' = parent
           /\ events' \in Nat /\ events <= events' /\ events' <= world.events
           /\ inv' = inv \/ (Owed /\ inv' = [inv EXCEPT ![Payer].status = "paid"])
<1>1. ASSUME Alone
      PROVE  /\ UNCHANGED <<syncs, panel, stored, run, work, over, history, inv>> /\ world' = world /\ parent' = parent
             /\ events' \in Nat /\ events <= events' /\ events' <= world.events
  BY <1>1 DEF Alone, billingVars, history, BillingTypes
<1>2. ASSUME Quiet, (\E e : Event(e)) \/ (\E e : Fault(e)) \/ UNCHANGED world_
      PROVE  /\ UNCHANGED <<syncs, panel, stored, run, work, over, history, inv>> /\ world' = world /\ parent' = parent
             /\ events' \in Nat /\ events <= events' /\ events' <= world.events
  BY <1>2, Worldly DEF Quiet
<1>3. CASE Tick \/ Send \/ Submit \/ ReadTransaction \/ ReadUsdt \/ ReadAvax \/ TimeOut \/ Verdict \/ Announce
  <2>1. Alone
    BY <1>3 DEF Tick, Send, Submit, ReadTransaction, ReadUsdt, ReadAvax, TimeOut, Verdict, Announce
  <2> QED BY <1>1, <2>1
<1>4. CASE Move \/ Reorg \/ ReadTon \/ ReadNothing \/ ReadHeight \/ ReadTime
  <2>1. Alone \/ (Quiet /\ (Event("market") \/ Fault("reorg") \/ Fault("node")))
    BY <1>4 DEF Move, Reorg, ReadTon, ReadNothing, ReadHeight, ReadTime
  <2> QED BY <1>1, <1>2, <2>1
<1>5. CASE Refresh
  <2>1. Quiet BY <1>5 DEF Refresh, RefreshUsdt, RefreshTon, RefreshAvax, Cache
  <2>2. Fault("slip") \/ UNCHANGED world_ BY <1>5 DEF Refresh, RefreshUsdt, RefreshTon, RefreshAvax, Quoted
  <2> QED BY <1>2, <2>1, <2>2
<1>6. ASSUME NEW status, NEW step, SettleWith(status, step)
      PROVE  /\ UNCHANGED <<syncs, panel, stored, run, work, over, history>> /\ world' = world /\ parent' = parent
             /\ events' \in Nat /\ events <= events' /\ events' <= world.events
             /\ inv' = inv \/ (Owed /\ inv' = [inv EXCEPT ![Payer].status = "paid"])
  BY <1>6 DEF SettleWith, world_, history, BillingTypes
<1>7. CASE AutoConfirm BY <1>1, <1>6, <1>7 DEF AutoConfirm
<1>8. CASE Verify
  <2>1. SettleWith("verified", check.step) \/ Alone BY <1>8 DEF Verify, Reviewed
  <2> QED BY <1>1, <1>6, <2>1
<1> QED BY <1>3, <1>4, <1>5, <1>7, <1>8 DEF DepositStep

LEMMA BillingTypesInit == Init => BillingTypes
<1> SUFFICES ASSUME Init PROVE BillingTypes
  OBVIOUS
<1>1. MaxEvents \in Nat /\ MAX_ATTEMPTS \in Nat /\ 0 \in Edition BY BoundsAssumption DEF Edition
<1>2. world \in Worlds BY DEF Init
<1>3. world.events \in Nat /\ world.trees \subseteq Trees BY <1>1, <1>2, WorldsAssumption
<1>4. PICK invoices, status :
          /\ BillingInit(invoices, status) /\ status \in {"completed", "none"}
          /\ invoices = Sent \/ invoices = [a \in Admins |-> None]
  <2>1. BillingInit(Sent, "completed") \/ BillingInit([a \in Admins |-> None], "none") BY DEF Init
  <2> QED BY <2>1
<1>5. /\ parent \in world.trees /\ over = FALSE /\ events = 0
      /\ panel = [p \in Panels |-> Fresh(p)]
      /\ stored = [p \in Panels |-> [edition |-> 0, here |-> AdminsOf(p), sells |-> AdminsOf(p),
                     rows |-> AdminsOf(p), synced |-> TRUE, status |-> "ok"]]
      /\ syncs = [k \in Keys |-> None] /\ inv = invoices
      /\ run = [status |-> status, attempts |-> 0, waiting |-> FALSE]
      /\ work = [w \in Workers |-> Idle]
      /\ told = [a \in Admins |-> 0] /\ redone = [a \in Admins |-> 0]
  BY <1>4 DEF BillingInit
<1>6. \A p : AdminsOf(p) \in SUBSET Admins BY DEF AdminsOf
<1>7. panel \in [Panels -> Content] /\ \A p \in Panels : panel[p].edition = 0
  BY <1>1, <1>5, <1>6 DEF Fresh, Content
<1>8. stored \in [Panels -> Stored] BY <1>1, <1>5, <1>6 DEF Stored
<1>9. inv \in [Admins -> InvoiceRow \cup {None}] BY <1>1, <1>4, <1>5 DEF Sent, InvoiceRow
<1>10. run \in [status : {"none", "running", "retry", "failed", "completed"},
                attempts : 0..(MAX_ATTEMPTS + events), waiting : BOOLEAN]
  BY <1>1, <1>4, <1>5
<1>11. TypeOK BY <1>2, <1>3, <1>5, <1>7, <1>8, <1>9, <1>10, IdleJob DEF TypeOK, InvoiceRow
<1> QED BY <1>3, <1>5, <1>7, <1>11 DEF BillingTypes

LEMMA BillingTypesStep == BillingTypes /\ [Next]_vars => BillingTypes'
<1> SUFFICES ASSUME BillingTypes, [Next]_vars PROVE BillingTypes'
  OBVIOUS
<1>1. CASE BillingNext
  BY <1>1, SyncTypes, WorkerTypes, ByHandTypes DEF BillingNext
<1>2. CASE DepositStep
  <2>1. inv' \in [Admins -> InvoiceRow \cup {None}]
    <3>1. CASE inv' = inv BY <3>1, BillingParts
    <3>2. CASE Owed /\ inv' = [inv EXCEPT ![Payer].status = "paid"]
      <4>1. inv[Payer] \in InvoiceRow BY <3>2, PayerAssumption, BillingParts DEF Owed
      <4>2. [inv[Payer] EXCEPT !.status = "paid"] \in InvoiceRow BY <4>1 DEF InvoiceRow
      <4> QED BY <3>2, <4>2, BillingParts
    <3> QED BY <1>2, <3>1, <3>2, DepositBilling
  <2>2. /\ UNCHANGED <<syncs, panel, stored, run, work, over, history>> /\ world' = world /\ parent' = parent
        /\ events' \in Nat /\ events <= events' /\ events' <= world.events
    BY <1>2, DepositBilling
  <2> QED BY <2>1, <2>2, BillingParts, BillingTypesKept DEF history
<1>3. CASE UNCHANGED vars
  <2>1. UNCHANGED billingVars BY <1>3 DEF vars
  <2> QED BY <2>1 DEF billingVars, history, BillingTypes, TypeOK
<1> QED BY <1>1, <1>2, <1>3 DEF Next

\* The types of MonthlyBilling hold, payments and all, and no edition is ahead of the events.
THEOREM BillingTypesHold == Spec => []BillingTypes
<1> QED BY BillingTypesInit, BillingTypesStep, PTL DEF Spec

-----------------------------------------------------------------------------
(* Messages.                                                               *)

\* Two sets that differ in one element at most differ by one at most.
LEMMA CountOne ==
    ASSUME IsFiniteSet(Workers), NEW S \in SUBSET Workers, NEW T \in SUBSET Workers, NEW w \in Workers,
           S \ {w} = T \ {w}
    PROVE  /\ Cardinality(S) \in Nat /\ Cardinality(T) \in Nat
           /\ Cardinality(S) + One(w \in T) = Cardinality(T) + One(w \in S)
<1>1. ASSUME NEW R \in SUBSET Workers
      PROVE  /\ Cardinality(R) \in Nat /\ Cardinality(R \ {w}) \in Nat
             /\ Cardinality(R) = Cardinality(R \ {w}) + One(w \in R)
  <2>1. IsFiniteSet(R) BY FS_Subset
  <2>2. IsFiniteSet(R \ {w}) BY <2>1, FS_Subset
  <2>3. Cardinality(R) \in Nat /\ Cardinality(R \ {w}) \in Nat BY <2>1, <2>2, FS_CardinalityType
  <2>4. CASE w \in R
    <3>1. Cardinality(R \ {w}) = Cardinality(R) - 1 BY <2>1, <2>4, FS_RemoveElement
    <3> QED BY <2>3, <2>4, <3>1 DEF One
  <2>5. CASE w \notin R
    <3>1. R \ {w} = R BY <2>5
    <3> QED BY <2>3, <2>5, <3>1 DEF One
  <2> QED BY <2>4, <2>5
<1>2. Cardinality(S) \in Nat /\ Cardinality(S) = Cardinality(S \ {w}) + One(w \in S) BY <1>1
<1>3. Cardinality(T) \in Nat /\ Cardinality(T) = Cardinality(T \ {w}) + One(w \in T) BY <1>1
<1>4. Cardinality(S \ {w}) = Cardinality(T \ {w}) /\ Cardinality(S \ {w}) \in Nat BY <1>1
<1>5. One(w \in S) \in Nat /\ One(w \in T) \in Nat BY DEF One
<1> QED BY <1>2, <1>3, <1>4, <1>5

\* When one worker steps, a reseller's count moves by what that worker does about it.
LEMMA BoundStep ==
    ASSUME IsFiniteSet(Workers), BillingTypes, BillingTypes', Bound, NEW w \in Workers,
           \A v \in Workers : v # w => work'[v] = work[v], NEW a \in Admins,
           told'[a] + One(Awaits(w, a)') + redone[a] + One(Out(a))
               <= told[a] + One(Awaits(w, a)) + redone'[a] + One(Out(a)')
    PROVE  told'[a] + Cardinality(Pending(a)') <= redone'[a] + One(Out(a)')
<1>1. Pending(a) \in SUBSET Workers /\ Pending(a)' \in SUBSET Workers BY DEF Pending
<1>2. \A v \in Workers : v # w => (Awaits(v, a)' <=> Awaits(v, a)) BY DEF Awaits
<1>3. Pending(a)' \ {w} = Pending(a) \ {w} BY <1>2 DEF Pending
<1>4. (w \in Pending(a) <=> Awaits(w, a)) /\ (w \in Pending(a)' <=> Awaits(w, a)') BY DEF Pending
<1>5. /\ Cardinality(Pending(a)') \in Nat /\ Cardinality(Pending(a)) \in Nat
      /\ Cardinality(Pending(a)') + One(w \in Pending(a)) = Cardinality(Pending(a)) + One(w \in Pending(a)')
  BY <1>1, <1>3, CountOne
<1>6. Cardinality(Pending(a)') + One(Awaits(w, a)) = Cardinality(Pending(a)) + One(Awaits(w, a)')
  BY <1>4, <1>5 DEF One
<1>7. told[a] \in Nat /\ told'[a] \in Nat /\ redone[a] \in Nat /\ redone'[a] \in Nat BY DEF BillingTypes
<1>8. told[a] + Cardinality(Pending(a)) <= redone[a] + One(Out(a)) BY DEF Bound
<1>9. One(Awaits(w, a)) \in Nat /\ One(Awaits(w, a)') \in Nat /\ One(Out(a)) \in Nat /\ One(Out(a)') \in Nat
  BY DEF One
<1> QED BY <1>5, <1>6, <1>7, <1>8, <1>9

\* The locks: what the other workers hold stays theirs.
LEMMA BusiesStep ==
    ASSUME Busies, NEW w \in Workers, \A v \in Workers : v # w => work'[v] = work[v],
           \A a \in Admins : Away(a)' => Away(a) \/ (Busy(w) /\ work[w].at = a),
           Busy(w)' => /\ work'[w].at \in Admins /\ (work'[w].again \/ ~Away(work[w].at)')
                       /\ \A v \in Workers : v # w /\ Busy(v) => work[v].at # work'[w].at
    PROVE  Busies'
<1> SUFFICES ASSUME NEW v \in Workers, Busy(v)'
             PROVE  /\ work'[v].at \in Admins /\ (work'[v].again \/ ~Away(work[v].at)')
                    /\ \A u \in Workers : Busy(u)' /\ work'[u].at = work'[v].at => u = v
  BY DEF Busies
<1>1. \A u \in Workers : u # w => (Busy(u)' <=> Busy(u)) /\ work'[u] = work[u] BY DEF Busy
<1>2. CASE v = w BY <1>1, <1>2
<1>3. CASE v # w
  <2>1. Busy(v) /\ work'[v] = work[v] /\ work[v].at \in Admins BY <1>1, <1>3 DEF Busies
  <2>2. work[v].again \/ ~Away(work[v].at) BY <2>1 DEF Busies
  <2>3. Away(work[v].at)' => Away(work[v].at) \/ (Busy(w) /\ work[w].at = work[v].at)
    <3>1. Away(work[v].at)' <=> inv'[work[v].at] # None /\ inv'[work[v].at].status # "draft"
      BY <2>1 DEF Away
    <3> QED BY <2>1, <3>1 DEF Away
  <2>4. ~(Busy(w) /\ work[w].at = work[v].at) BY <1>3, <2>1 DEF Busies
  <2>5. work'[v].again \/ ~Away(work[v].at)' BY <2>1, <2>2, <2>3, <2>4
  <2>6. ASSUME NEW u \in Workers, Busy(u)', work'[u].at = work'[v].at PROVE u = v
    <3>1. CASE u = w BY <1>1, <1>3, <2>1, <2>6, <3>1
    <3>2. CASE u # w
      <4>1. Busy(u) /\ work[u].at = work[v].at BY <1>1, <2>1, <2>6, <3>2
      <4> QED BY <2>1, <4>1 DEF Busies
    <3> QED BY <3>1, <3>2
  <2> QED BY <2>1, <2>5, <2>6
<1> QED BY <1>2, <1>3

LEMMA AgainsStep ==
    ASSUME Agains, NEW w \in Workers, \A v \in Workers : v # w => work'[v] = work[v], AgainOnce(w)'
    PROVE  Agains'
BY DEF Agains, AgainOnce, Busy

LEMMA OutStep ==
    ASSUME NEW w \in Workers, \A v \in Workers : v # w => work'[v] = work[v], NEW a,
           Away(a) => Away(a)', Unsaved(w, a) => Unsaved(w, a)' \/ Away(a)', Out(a)
    PROVE  Out(a)'
<1>1. CASE Away(a) BY <1>1 DEF Out
<1>2. CASE \E v \in Workers : Unsaved(v, a)
  <2>1. PICK v \in Workers : Unsaved(v, a) BY <1>2
  <2>2. CASE v = w BY <2>1, <2>2 DEF Out
  <2>3. CASE v # w
    <3>1. Unsaved(v, a)' BY <2>1, <2>3 DEF Unsaved
    <3> QED BY <3>1 DEF Out
  <2> QED BY <2>2, <2>3
<1> QED BY <1>1, <1>2 DEF Out

\* Nothing that delivers is touched, and no invoice goes out or comes back.
LEMMA ToldBeside ==
    ASSUME BillingTypes, ToldInv, \A a \in Admins : Away(a)' <=> Away(a), UNCHANGED <<work, told, redone>>
    PROVE  ToldInv'
<1>1. Busies'
  <2> SUFFICES ASSUME NEW w \in Workers, Busy(w)'
               PROVE  /\ work'[w].at \in Admins /\ (work'[w].again \/ ~Away(work[w].at)')
                      /\ \A v \in Workers : Busy(v)' /\ work'[v].at = work'[w].at => v = w
    BY DEF Busies
  <2>1. /\ work[w].at \in Admins /\ (work[w].again \/ ~Away(work[w].at))
        /\ \A v \in Workers : Busy(v) /\ work[v].at = work[w].at => v = w
    BY DEF ToldInv, Busies, Busy
  <2>2. Away(work[w].at)' <=> Away(work[w].at)
    <3>1. PICK a \in Admins : a = work[w].at BY <2>1
    <3> QED BY <3>1 DEF Away
  <2> QED BY <2>1, <2>2 DEF Busy
<1>2. Agains' BY DEF ToldInv, Agains, AgainOnce, Busy
<1>3. ASSUME NEW a \in Admins PROVE told'[a] + Cardinality(Pending(a)') <= redone'[a] + One(Out(a)')
  <2>1. \A w \in Workers : (Awaits(w, a)' <=> Awaits(w, a)) /\ (Unsaved(w, a)' <=> Unsaved(w, a))
    BY DEF Awaits, Unsaved
  <2>2. Pending(a)' = Pending(a) BY <2>1 DEF Pending
  <2>3. Out(a)' <=> Out(a) BY <2>1 DEF Out
  <2>4. told[a] + Cardinality(Pending(a)) <= redone[a] + One(Out(a)) BY DEF ToldInv, Bound
  <2>5. One(Out(a)') = One(Out(a)) BY <2>3 DEF One
  <2> QED BY <2>2, <2>4, <2>5
<1> QED BY <1>1, <1>2, <1>3 DEF ToldInv, Bound

\* A worker that has nothing locked, before and after, and lets go of nothing it owes.
LEMMA ToldFree ==
    ASSUME IsFiniteSet(Workers), BillingTypes, BillingTypes', ToldInv, \A a \in Admins : Away(a)' <=> Away(a),
           NEW w \in Workers, \A v \in Workers : v # w => work'[v] = work[v],
           ~Busy(w), ~Busy(w)', AgainOnce(w)', \A a \in Admins : Awaits(w, a)' => Awaits(w, a),
           UNCHANGED <<told, redone>>
    PROVE  ToldInv'
<1>1. Agains' BY AgainsStep DEF ToldInv
<1>2. \A a \in Admins : Away(a)' => Away(a) OBVIOUS
<1>3. Busies'
  <2> SUFFICES ASSUME NEW v \in Workers, Busy(v)'
               PROVE  /\ work'[v].at \in Admins /\ (work'[v].again \/ ~Away(work[v].at)')
                      /\ \A u \in Workers : Busy(u)' /\ work'[u].at = work'[v].at => u = v
    BY DEF Busies
  <2>1. v # w /\ work'[v] = work[v] /\ Busy(v) BY DEF Busy
  <2>2. /\ work[v].at \in Admins /\ (work[v].again \/ ~Away(work[v].at))
        /\ \A u \in Workers : Busy(u) /\ work[u].at = work[v].at => u = v
    BY <2>1 DEF ToldInv, Busies
  <2>3. Away(work[v].at)' <=> Away(work[v].at)
    <3>1. PICK a \in Admins : a = work[v].at /\ a = work'[v].at BY <2>1, <2>2
    <3> QED BY <2>1, <3>1 DEF Away
  <2>4. \A u \in Workers : Busy(u)' => u # w /\ Busy(u) /\ work'[u] = work[u] BY DEF Busy
  <2> QED BY <2>1, <2>2, <2>3, <2>4
<1>4. ASSUME NEW a \in Admins PROVE told'[a] + Cardinality(Pending(a)') <= redone'[a] + One(Out(a)')
  <2>1. ~Unsaved(w, a) BY DEF Unsaved, Busy
  <2>2. Out(a) => Out(a)' BY <2>1, OutStep
  <2>3. One(Out(a)) <= One(Out(a)') /\ One(Awaits(w, a)') <= One(Awaits(w, a)) BY <2>2 DEF One
  <2>4. told[a] \in Nat /\ redone[a] \in Nat /\ One(Out(a)) \in Nat /\ One(Out(a)') \in Nat
        /\ One(Awaits(w, a)) \in Nat /\ One(Awaits(w, a)') \in Nat
    BY DEF BillingTypes, One
  <2>5. told'[a] + One(Awaits(w, a)') + redone[a] + One(Out(a))
            <= told[a] + One(Awaits(w, a)) + redone'[a] + One(Out(a)')
    BY <2>3, <2>4
  <2> QED BY <2>5, BoundStep DEF ToldInv
<1> QED BY <1>1, <1>3, <1>4 DEF ToldInv, Bound

\* A worker that stops, wherever it is: what was out but not recorded will be sent again.
LEMMA ToldStops ==
    ASSUME IsFiniteSet(Workers), BillingTypes, BillingTypes', ToldInv, UNCHANGED <<inv, told>>,
           NEW w \in Workers, Step(w, Idle), redone' = Unrecorded(w)
    PROVE  ToldInv'
<1>1. (\A v \in Workers : v # w => work'[v] = work[v]) /\ work'[w] = Idle BY Stepping, IdleJob
<1>2. ~Busy(w)' /\ ~work'[w].again BY <1>1, IdleJob DEF Busy
<1>3. \A a \in Admins : Away(a)' <=> Away(a) BY DEF Away
<1>4. Agains' BY <1>1, <1>2, AgainsStep DEF ToldInv, AgainOnce
<1>5. Busies' BY <1>1, <1>2, <1>3, BusiesStep DEF ToldInv
<1>6. ASSUME NEW a \in Admins PROVE told'[a] + Cardinality(Pending(a)') <= redone'[a] + One(Out(a)')
  <2>1. told[a] \in Nat /\ redone[a] \in Nat /\ One(Out(a)) \in {0, 1} /\ One(Out(a)') \in {0, 1}
        /\ One(Awaits(w, a)) \in {0, 1} /\ One(Awaits(w, a)') = 0
    BY <1>2 DEF BillingTypes, One, Awaits
  <2>2. redone'[a] >= redone[a] + One(Unsaved(w, a))
    <3>1. redone \in [Admins -> Nat] BY DEF BillingTypes
    <3>2. CASE Unsaved(w, a)
      <4>1. redone' = [redone EXCEPT ![a] = @ + 1] BY <3>2 DEF Unrecorded, Unsaved
      <4> QED BY <3>1, <3>2, <4>1 DEF One
    <3>3. CASE ~Unsaved(w, a)
      <4>1. CASE redone' = redone BY <3>1, <3>3, <4>1 DEF One
      <4>2. CASE redone' = [redone EXCEPT ![work[w].at] = @ + 1] BY <3>1, <3>3, <4>2 DEF One
      <4> QED BY <4>1, <4>2 DEF Unrecorded
    <3> QED BY <3>2, <3>3
  <2>3. redone'[a] \in Nat BY DEF BillingTypes
  <2>4. One(Unsaved(w, a)) + One(Out(a)') >= One(Out(a))
    <3>1. CASE Unsaved(w, a) BY <2>1, <3>1 DEF One
    <3>2. CASE ~Unsaved(w, a)
      <4>1. Out(a) => Out(a)' BY <1>1, <1>3, <3>2, OutStep
      <4> QED BY <2>1, <4>1 DEF One
    <3> QED BY <3>1, <3>2
  <2>5. One(Unsaved(w, a)) \in {0, 1} BY DEF One
  <2>6. told'[a] = told[a] OBVIOUS
  <2>7. told'[a] + One(Awaits(w, a)') + redone[a] + One(Out(a))
            <= told[a] + One(Awaits(w, a)) + redone'[a] + One(Out(a)')
    BY <2>1, <2>2, <2>3, <2>4, <2>5, <2>6
  <2> QED BY <1>1, <2>7, BoundStep DEF ToldInv
<1> QED BY <1>4, <1>5, <1>6 DEF ToldInv, Bound

LEMMA ToldResend ==
    ASSUME IsFiniteSet(Workers), BillingTypes, BillingTypes', ToldInv,
           NEW w \in Workers, NEW a \in Admins, SendByHand(w, a)
    PROVE  ToldInv'
<1> DEFINE job == [Idle EXCEPT !.step = "sending", !.todo = {a}, !.again = TRUE]
<1>1. /\ Step(w, job) /\ redone' = [redone EXCEPT ![a] = @ + 1] /\ UNCHANGED <<inv, told>>
      /\ work[w].step = "idle"
  BY DEF SendByHand
<1>2. (\A v \in Workers : v # w => work'[v] = work[v]) /\ work'[w] = job BY <1>1, JobTypes, Stepping
<1>3. job.step = "sending" /\ job.todo = {a} /\ job.again = TRUE /\ job.cycle = FALSE BY DEF Idle
<1>4. ~Busy(w) /\ ~Busy(w)' /\ \A b \in Admins : Away(b)' <=> Away(b) BY <1>1, <1>2, <1>3 DEF Busy, Away
<1> HIDE DEF job
<1>5. Agains' BY <1>2, <1>3, <1>4, AgainsStep DEF ToldInv, AgainOnce
<1>6. Busies' BY <1>2, <1>4, BusiesStep DEF ToldInv
<1>7. ASSUME NEW b \in Admins PROVE told'[b] + Cardinality(Pending(b)') <= redone'[b] + One(Out(b)')
  <2>1. Awaits(w, b)' => b = a BY <1>2, <1>3 DEF Awaits
  <2>2. ~Unsaved(w, b) BY <1>1 DEF Unsaved
  <2>3. Out(b) => Out(b)' BY <1>2, <1>4, <2>2, OutStep
  <2>4. redone \in [Admins -> Nat] /\ told[b] \in Nat BY DEF BillingTypes
  <2>5. redone'[b] = redone[b] + One(b = a) BY <1>1, <2>4 DEF One
  <2>6. One(Awaits(w, b)') <= One(b = a) BY <2>1 DEF One
  <2>7. One(Out(b)) <= One(Out(b)') BY <2>3 DEF One
  <2>8. One(Out(b)) \in Nat /\ One(Out(b)') \in Nat /\ One(Awaits(w, b)) \in Nat /\ One(Awaits(w, b)') \in Nat
        /\ One(b = a) \in Nat /\ redone[b] \in Nat
    BY <2>4 DEF One
  <2>9. told'[b] + One(Awaits(w, b)') + redone[b] + One(Out(b))
            <= told[b] + One(Awaits(w, b)) + redone'[b] + One(Out(b)')
    BY <1>1, <2>4, <2>5, <2>6, <2>7, <2>8
  <2> QED BY <1>2, <2>9, BoundStep DEF ToldInv
<1> QED BY <1>5, <1>6, <1>7 DEF ToldInv, Bound

\* The invoice's lock is taken, and its status is looked at under it.
LEMMA ToldTakes ==
    ASSUME IsFiniteSet(Workers), BillingTypes, BillingTypes', ToldInv,
           NEW w \in Workers, NEW a \in Admins, Take(w, a)
    PROVE  ToldInv'
<1> DEFINE job == [work[w] EXCEPT !.step = "telling", !.todo = @ \ {a}, !.at = a]
<1>1. /\ Step(w, job) /\ UNCHANGED <<inv, told, redone>> /\ work[w].step = "sending" /\ a \in work[w].todo
      /\ ~Locked(a) /\ Sendable(w, a)
  BY DEF Take, history
<1>2. (\A v \in Workers : v # w => work'[v] = work[v]) /\ work'[w] = job /\ work[w] \in Job
  BY <1>1, JobTypes, Stepping
<1>3. /\ job.step = "telling" /\ job.at = a /\ job.todo = work[w].todo \ {a} /\ job.again = work[w].again
      /\ job.cycle = work[w].cycle
  BY <1>2 DEF Job
<1>4. ~Busy(w) /\ \A b \in Admins : Away(b)' <=> Away(b) BY <1>1 DEF Busy, Away
<1> HIDE DEF job
<1>5. AgainOnce(w)'
  <2>1. AgainOnce(w) BY DEF ToldInv, Agains
  <2> QED BY <1>1, <1>2, <1>3, <2>1 DEF AgainOnce
<1>6. Agains' BY <1>2, <1>5, AgainsStep DEF ToldInv
<1>7. Busies'
  <2>1. \A v \in Workers : v # w /\ Busy(v) => work[v].at # a BY <1>1 DEF Locked, Busy
  <2>2. work'[w].again \/ ~Away(work[w].at)' BY <1>1, <1>2, <1>3 DEF Sendable, Away
  <2> QED BY <1>2, <1>3, <1>4, <2>1, <2>2, BusiesStep DEF ToldInv
<1>8. ASSUME NEW b \in Admins PROVE told'[b] + Cardinality(Pending(b)') <= redone'[b] + One(Out(b)')
  <2>1. Awaits(w, b)' => Awaits(w, b) BY <1>1, <1>2, <1>3 DEF Awaits
  <2>2. ~Unsaved(w, b) BY <1>1 DEF Unsaved
  <2>3. Out(b) => Out(b)' BY <1>2, <1>4, <2>2, OutStep
  <2>4. redone[b] \in Nat /\ told[b] \in Nat BY DEF BillingTypes
  <2>5. One(Awaits(w, b)') <= One(Awaits(w, b)) /\ One(Out(b)) <= One(Out(b)') BY <2>1, <2>3 DEF One
  <2>6. One(Out(b)) \in Nat /\ One(Out(b)') \in Nat /\ One(Awaits(w, b)) \in Nat /\ One(Awaits(w, b)') \in Nat
    BY DEF One
  <2>7. told'[b] + One(Awaits(w, b)') + redone[b] + One(Out(b))
            <= told[b] + One(Awaits(w, b)) + redone'[b] + One(Out(b)')
    BY <1>1, <2>4, <2>5, <2>6
  <2> QED BY <1>2, <2>7, BoundStep DEF ToldInv
<1> QED BY <1>6, <1>7, <1>8 DEF ToldInv, Bound

\* The message goes out, or does not: one of a draft is the first, any other was asked for.
LEMMA ToldTells ==
    ASSUME IsFiniteSet(Workers), BillingTypes, BillingTypes', ToldInv, NEW w \in Workers, Tell(w)
    PROVE  ToldInv'
<1>0. told \in [Admins -> Nat] /\ redone \in [Admins -> Nat] BY DEF BillingTypes
<1> DEFINE Told(o, lost) ==
          /\ Step(w, [work[w] EXCEPT !.step = "told", !.outcome = o])
          /\ work[w].step = "telling" /\ inv' = inv
          /\ Adds(told, told', work[w].at, lost + One(o = "sent")) /\ Adds(redone, redone', work[w].at, lost)
<1>00. PICK o \in {"sent", "failed", "unsent"}, lost \in {0, 1, 2} : Told(o, lost) BY <1>0, Telling
<1>1. /\ Step(w, [work[w] EXCEPT !.step = "told", !.outcome = o])
      /\ work[w].step = "telling" /\ inv' = inv
      /\ \A b \in Admins :
            /\ told'[b] = IF b = work[w].at THEN told[b] + (lost + One(o = "sent")) ELSE told[b]
            /\ redone'[b] = IF b = work[w].at THEN redone[b] + lost ELSE redone[b]
  BY <1>00 DEF Adds
<1> DEFINE job == [work[w] EXCEPT !.step = "told", !.outcome = o]
           a == work[w].at
<1>2. (\A v \in Workers : v # w => work'[v] = work[v]) /\ work'[w] = job /\ work[w] \in Job
  BY <1>1, JobTypes, Stepping
<1>3. /\ job.step = "told" /\ job.at = a /\ job.todo = work[w].todo /\ job.again = work[w].again
      /\ job.cycle = work[w].cycle /\ job.outcome = o
  BY <1>2 DEF Job
<1>4. Busy(w) /\ \A b \in Admins : Away(b)' <=> Away(b) BY <1>1 DEF Busy, Away
<1> HIDE DEF job
<1>5. /\ a \in Admins /\ (work[w].again \/ ~Away(a))
      /\ \A v \in Workers : Busy(v) /\ work[v].at = a => v = w
  BY <1>4 DEF ToldInv, Busies
<1>6. AgainOnce(w)'
  <2>1. AgainOnce(w) BY DEF ToldInv, Agains
  <2> QED BY <1>1, <1>2, <1>3, <1>4, <2>1 DEF AgainOnce
<1>7. Agains' BY <1>2, <1>6, AgainsStep DEF ToldInv
<1>8. Busies'
  <2>1. work'[w].again \/ ~Away(work[w].at)' BY <1>1, <1>2, <1>3, <1>5 DEF Away
  <2> QED BY <1>2, <1>3, <1>4, <1>5, <2>1, BusiesStep DEF ToldInv
<1>9. ASSUME NEW b \in Admins PROVE told'[b] + Cardinality(Pending(b)') <= redone'[b] + One(Out(b)')
  <2>1. ~Awaits(w, b)' /\ ~Unsaved(w, b) /\ (Unsaved(w, b)' <=> o = "sent" /\ b = a)
    BY <1>1, <1>2, <1>3 DEF Awaits, Unsaved
  <2>2. Out(b) => Out(b)' BY <1>2, <1>4, <2>1, OutStep
  <2>3. redone[b] \in Nat /\ told \in [Admins -> Nat] /\ told[b] \in Nat BY DEF BillingTypes
  <2>4. One(Out(b)) \in {0, 1} /\ One(Out(b)') \in {0, 1} /\ One(Awaits(w, b)) \in {0, 1} /\ One(Awaits(w, b)') = 0
    BY <2>1 DEF One
  <2>5. One(Out(b)) <= One(Out(b)') BY <2>2 DEF One
  <2>6. CASE o = "sent" /\ b = a
    <3>1. told'[b] = told[b] + lost + 1 /\ redone'[b] = redone[b] + lost BY <1>1, <2>3, <2>6 DEF One
    <3>2. Out(b)' BY <2>1, <2>6 DEF Out
    <3>3. One(Out(b)') = 1 BY <3>2 DEF One
    <3>4. CASE work[w].again
      <4>1. Awaits(w, b) BY <1>1, <2>6, <3>4 DEF Awaits
      <4>2. One(Awaits(w, b)) = 1 BY <4>1 DEF One
      <4>3. told'[b] + One(Awaits(w, b)') + redone[b] + One(Out(b))
                <= told[b] + One(Awaits(w, b)) + redone'[b] + One(Out(b)')
        BY <1>1, <2>3, <2>4, <2>5, <3>1, <4>2
      <4> QED BY <1>2, <4>3, BoundStep DEF ToldInv
    <3>5. CASE ~work[w].again
      <4>1. ~Away(b) BY <1>5, <2>6, <3>5
      <4>2. \A v \in Workers : ~Unsaved(v, b)
        <5> SUFFICES ASSUME NEW v \in Workers, Unsaved(v, b) PROVE FALSE
          OBVIOUS
        <5>1. v = w BY <1>5, <2>6 DEF Unsaved, Busy
        <5> QED BY <2>1, <5>1
      <4>3. One(Out(b)) = 0 BY <4>1, <4>2 DEF Out, One
      <4>4. told'[b] + One(Awaits(w, b)') + redone[b] + One(Out(b))
                <= told[b] + One(Awaits(w, b)) + redone'[b] + One(Out(b)')
        BY <1>1, <2>3, <2>4, <3>1, <3>3, <4>3
      <4> QED BY <1>2, <4>4, BoundStep DEF ToldInv
    <3> QED BY <3>4, <3>5
  <2>7. CASE ~(o = "sent" /\ b = a)
    <3>1. PICK more \in {0, lost} : told'[b] = told[b] + more /\ redone'[b] = redone[b] + more
      BY <1>1, <2>3, <2>7 DEF One
    <3>2. told'[b] + One(Awaits(w, b)') + redone[b] + One(Out(b))
              <= told[b] + One(Awaits(w, b)) + redone'[b] + One(Out(b)')
      BY <2>3, <2>4, <2>5, <3>1
    <3> QED BY <1>2, <3>2, BoundStep DEF ToldInv
  <2> QED BY <2>6, <2>7
<1> QED BY <1>7, <1>8, <1>9 DEF ToldInv, Bound

\* The outcome is recorded: the invoice of a message that went out is one that is out.
LEMMA ToldRecords ==
    ASSUME IsFiniteSet(Workers), BillingTypes, BillingTypes', ToldInv, NEW w \in Workers, Record(w)
    PROVE  ToldInv'
<1>1. Busy(w) /\ work[w].at \in Admins BY DEF Record, Busy, ToldInv, Busies
<1>2. PICK a \in Admins : a = work[w].at BY <1>1
<1> DEFINE problem == work[w].problem \/ work[w].outcome = "failed"
           next == [work[w] EXCEPT !.step = "sending", !.at = None, !.outcome = "unsent", !.problem = problem]
<1>3. /\ work[w].step = "told" /\ inv[a] # None /\ inv' = Recorded(a, work[w].outcome)
      /\ Step(w, IF work[w].todo = {} /\ ~work[w].cycle THEN Idle ELSE next)
      /\ UNCHANGED <<told, redone>>
  BY <1>2 DEF Record, history
<1>4. next \in Job /\ work[w] \in Job
  <2>1. problem \in BOOLEAN OBVIOUS
  <2> QED BY <2>1, JobTypes
<1>5. /\ \A v \in Workers : v # w => work'[v] = work[v]
      /\ work'[w] = IF work[w].todo = {} /\ ~work[w].cycle THEN Idle ELSE next
  BY <1>3, <1>4, Stepping, IdleJob
<1>6. next.step = "sending" /\ next.again = work[w].again BY <1>4 DEF Job
<1> HIDE DEF next
<1>7. ~work'[w].again
  <2>1. CASE work[w].again
    <3>1. ~work[w].cycle /\ work[w].todo = {} BY <1>1, <2>1 DEF ToldInv, Agains, AgainOnce
    <3> QED BY <1>5, <3>1, IdleJob
  <2>2. CASE ~work[w].again BY <1>5, <1>6, <2>2, IdleJob
  <2> QED BY <2>1, <2>2
<1>8. ~Busy(w)' BY <1>5, <1>6, IdleJob DEF Busy
<1>9. /\ \A b \in Admins : Away(b) => Away(b)'
      /\ \A b \in Admins : Away(b)' => Away(b) \/ b = a
      /\ work[w].outcome = "sent" => Away(a)'
  <2>1. inv \in [Admins -> InvoiceRow \cup {None}] BY BillingParts
  <2>2. CASE work[w].outcome = "sent" /\ inv[a].status = "draft"
    <3> DEFINE row == [inv[a] EXCEPT !.status = "sent"]
    <3>1. inv' = [inv EXCEPT ![a] = row] BY <1>3, <2>2 DEF Recorded
    <3>2. inv[a] \in InvoiceRow BY <1>3, <1>1, <2>1
    <3>3. row \in [status : {"draft", "sent", "paid"}, amount : Nat] /\ row.status = "sent"
      BY <3>2, EditionTypes DEF InvoiceRow, Edition
    <3>4. row # None BY <3>3, NoneAssumption
    <3> HIDE DEF row
    <3>5. \A b \in Admins : inv'[b] = IF b = a THEN row ELSE inv[b] BY <2>1, <3>1
    <3> QED BY <1>1, <2>2, <3>3, <3>4, <3>5 DEF Away
  <2>3. CASE ~(work[w].outcome = "sent" /\ inv[a].status = "draft")
    <3>1. inv' = inv BY <1>3, <2>3 DEF Recorded
    <3> QED BY <1>3, <2>3, <3>1 DEF Away
  <2> QED BY <2>2, <2>3
<1>10. Agains' BY <1>5, <1>7, AgainsStep DEF ToldInv, AgainOnce
<1>11. Busies' BY <1>1, <1>2, <1>5, <1>8, <1>9, BusiesStep DEF ToldInv
<1>12. ASSUME NEW b \in Admins PROVE told'[b] + Cardinality(Pending(b)') <= redone'[b] + One(Out(b)')
  <2>1. ~Awaits(w, b)' BY <1>7 DEF Awaits
  <2>2. Unsaved(w, b) => Away(b)' BY <1>2, <1>9 DEF Unsaved
  <2>3. Out(b) => Out(b)' BY <1>5, <1>9, <2>2, OutStep
  <2>4. redone[b] \in Nat /\ told[b] \in Nat BY DEF BillingTypes
  <2>5. One(Out(b)) \in {0, 1} /\ One(Out(b)') \in {0, 1} /\ One(Awaits(w, b)) \in {0, 1} /\ One(Awaits(w, b)') = 0
        /\ One(Out(b)) <= One(Out(b)')
    BY <2>1, <2>3 DEF One
  <2>6. told'[b] + One(Awaits(w, b)') + redone[b] + One(Out(b))
            <= told[b] + One(Awaits(w, b)) + redone'[b] + One(Out(b)')
    BY <1>3, <2>4, <2>5
  <2> QED BY <1>5, <2>6, BoundStep DEF ToldInv
<1> QED BY <1>10, <1>11, <1>12 DEF ToldInv, Bound

LEMMA ToldInit == ASSUME IsFiniteSet(Workers), Init PROVE ToldInv
<1>1. PICK invoices, status : BillingInit(invoices, status)
  <2>1. BillingInit(Sent, "completed") \/ BillingInit([a \in Admins |-> None], "none") BY DEF Init
  <2> QED BY <2>1
<1>2. work = [w \in Workers |-> Idle] /\ told = [a \in Admins |-> 0] /\ redone = [a \in Admins |-> 0]
  BY <1>1 DEF BillingInit
<1>3. \A w \in Workers : work[w].step = "idle" /\ ~work[w].again BY <1>2, IdleJob
<1>4. Busies /\ Agains BY <1>3 DEF Busies, Agains, AgainOnce, Busy
<1>5. ASSUME NEW a \in Admins PROVE told[a] + Cardinality(Pending(a)) <= redone[a] + One(Out(a))
  <2>1. Pending(a) = {} BY <1>3 DEF Pending, Awaits
  <2>2. Cardinality(Pending(a)) = 0 BY <2>1, FS_EmptySet
  <2> QED BY <1>2, <2>2 DEF One
<1> QED BY <1>4, <1>5 DEF ToldInv, Bound

\* The steps of one worker that neither lock an invoice nor hold one.
LEMMA ToldIdles ==
    ASSUME IsFiniteSet(Workers), BillingTypes, BillingTypes', ToldInv, NEW w \in Workers,
           \/ Begin(w) /\ work[w].step = "idle"
           \/ Generate(w) \/ FinishRun(w) \/ ListDrafts(w) \/ EndByHand(w) \/ SendPeriodByHand(w)
           \/ \E a \in Admins : Skip(w, a)
    PROVE  ToldInv'
<1> USE DEF Busy
<1>1. work[w] \in Job /\ Idle \in Job BY JobTypes, IdleJob
<1>2. ASSUME NEW job \in Job, Step(w, job), ~Busy(w), job.step \notin {"telling", "told"},
             ~job.again \/ (work[w].again /\ job.step = "sending" /\ work[w].step = "sending"
                            /\ job.todo \subseteq work[w].todo /\ job.cycle = work[w].cycle),
             \A a \in Admins : Away(a)' <=> Away(a), UNCHANGED <<told, redone>>
      PROVE  ToldInv'
  <2>1. (\A v \in Workers : v # w => work'[v] = work[v]) /\ work'[w] = job BY <1>2, Stepping
  <2>2. AgainOnce(w) BY DEF ToldInv, Agains
  <2>3. AgainOnce(w)' BY <1>2, <2>1, <2>2 DEF AgainOnce
  <2>4. \A a \in Admins : Awaits(w, a)' => Awaits(w, a) BY <1>2, <2>1 DEF Awaits
  <2> QED BY <1>2, <2>1, <2>3, <2>4, ToldFree
<1>3. ASSUME inv' = inv, NEW a \in Admins PROVE Away(a)' <=> Away(a) BY <1>3 DEF Away
<1>4. CASE Begin(w) /\ work[w].step = "idle"
  <2> DEFINE job == [Idle EXCEPT !.step = "syncing", !.cycle = TRUE]
  <2>1. Step(w, job) /\ inv' = inv /\ UNCHANGED <<told, redone>> BY <1>4 DEF Begin, history
  <2>2. job \in Job /\ job.step = "syncing" /\ job.again = FALSE BY JobTypes DEF Idle
  <2> QED BY <1>2, <1>3, <1>4, <2>1, <2>2
<1>5. CASE Generate(w)
  <2> DEFINE job == [work[w] EXCEPT !.step = "generated", !.problem = Incomplete]
  <2>1. Step(w, job) /\ inv' = Generated(FALSE) /\ UNCHANGED <<told, redone>> /\ work[w].step = "syncing"
    BY <1>5 DEF Generate
  <2>2. Incomplete \in BOOLEAN BY DEF Incomplete
  <2>3. job \in Job BY <2>2, JobTypes
  <2>4. job.step = "generated" /\ job.again = work[w].again BY <1>1 DEF Job
  <2>5. ~work[w].again BY <2>1 DEF ToldInv, Agains, AgainOnce
  <2>6. \A a \in Admins : Away(a)' <=> Away(a) BY <2>1, Generating DEF Away
  <2> QED BY <1>2, <2>1, <2>3, <2>4, <2>5, <2>6
<1>6. CASE FinishRun(w) \/ EndByHand(w)
  <2>1. Step(w, Idle) /\ inv' = inv /\ UNCHANGED <<told, redone>> /\ work[w].step = "sending"
    BY <1>6 DEF FinishRun, EndByHand, history
  <2> QED BY <1>1, <1>2, <1>3, <2>1, IdleJob
<1>7. CASE ListDrafts(w)
  <2> DEFINE todo == {a \in Admins : inv[a] # None /\ inv[a].status = "draft"}
             job == [work[w] EXCEPT !.step = "sending", !.todo = todo]
  <2>1. Step(w, job) /\ inv' = inv /\ UNCHANGED <<told, redone>> /\ work[w].step = "generated"
    BY <1>7 DEF ListDrafts, history
  <2>2. todo \in SUBSET Admins OBVIOUS
  <2>3. job \in Job BY <2>2, JobTypes
  <2>4. job.step = "sending" /\ job.again = work[w].again BY <1>1 DEF Job
  <2>5. ~work[w].again BY <2>1 DEF ToldInv, Agains, AgainOnce
  <2> QED BY <1>2, <1>3, <2>1, <2>3, <2>4, <2>5
<1>8. CASE SendPeriodByHand(w)
  <2> DEFINE job == [Idle EXCEPT !.step = "generated"]
  <2>1. Step(w, job) /\ inv' = inv /\ UNCHANGED <<told, redone>> /\ work[w].step = "idle"
    BY <1>8 DEF SendPeriodByHand, history
  <2>2. job \in Job /\ job.step = "generated" /\ job.again = FALSE BY JobTypes DEF Idle
  <2> QED BY <1>2, <1>3, <2>1, <2>2
<1>9. CASE \E a \in Admins : Skip(w, a)
  <2>1. PICK a \in Admins : Skip(w, a) BY <1>9
  <2> DEFINE job == [work[w] EXCEPT !.todo = @ \ {a}]
  <2>2. Step(w, job) /\ inv' = inv /\ UNCHANGED <<told, redone>> /\ work[w].step = "sending"
    BY <2>1 DEF Skip, history
  <2>3. job \in Job BY JobTypes
  <2>4. /\ job.step = "sending" /\ job.again = work[w].again /\ job.todo \subseteq work[w].todo
        /\ job.cycle = work[w].cycle
    BY <1>1, <2>2 DEF Job
  <2> HIDE DEF job
  <2> QED BY <1>2, <1>3, <2>2, <2>3, <2>4
<1> QED BY <1>4, <1>5, <1>6, <1>7, <1>8, <1>9

LEMMA ToldStep ==
    ASSUME IsFiniteSet(Workers), BillingTypes, BillingTypes', ToldInv, [Next]_vars
    PROVE  ToldInv'
<1>1. ASSUME \A a \in Admins : Away(a)' <=> Away(a), UNCHANGED <<work, told, redone>> PROVE ToldInv'
  BY <1>1, ToldBeside
<1>2. ASSUME inv' = inv, NEW a \in Admins PROVE Away(a)' <=> Away(a) BY <1>2 DEF Away
<1>3. ASSUME NEW a \in Admins, inv[a] # None, inv[a].status = "sent", inv' = [inv EXCEPT ![a].status = "paid"],
             NEW b \in Admins
      PROVE  Away(b)' <=> Away(b)
  <2> DEFINE row == [inv[a] EXCEPT !.status = "paid"]
  <2>1. inv \in [Admins -> InvoiceRow \cup {None}] /\ inv[a] \in InvoiceRow BY <1>3, BillingParts
  <2>2. inv' = [inv EXCEPT ![a] = row] BY <1>3
  <2>3. row \in [status : {"draft", "sent", "paid"}, amount : Nat] /\ row.status = "paid"
    BY <2>1, EditionTypes DEF InvoiceRow, Edition
  <2>4. row # None BY <2>3, NoneAssumption
  <2> HIDE DEF row
  <2>5. inv'[b] = IF b = a THEN row ELSE inv[b] BY <2>1, <2>2
  <2> QED BY <1>3, <2>3, <2>4, <2>5 DEF Away
<1>4. CASE \E k \in Keys : SyncStep(k)
  <2>1. UNCHANGED <<inv, work, told, redone>>
    BY <1>4 DEF SyncStep, Fetch, WriteSync, FailSync, RecordFailure, Others, history
  <2> QED BY <1>1, <1>2, <2>1
<1>5. ASSUME NEW w \in Workers, RunDue(w) \/ CycleStep(w) \/ Raise(w) \/ Crash(w) PROVE ToldInv'
  <2>1. CASE RunDue(w)
    <3>1. CASE Begin(w) BY <2>1, <3>1, ToldIdles DEF RunDue, Due
    <3>2. CASE UNCHANGED <<panel, stored, syncs, inv, work, history>> BY <1>1, <1>2, <3>2 DEF history
    <3> QED BY <2>1, <3>1, <3>2 DEF RunDue
  <2>2. CASE Generate(w) \/ FinishRun(w) \/ ListDrafts(w) \/ EndByHand(w) BY <2>2, ToldIdles
  <2>3. CASE \E a \in Admins : Skip(w, a) \/ Take(w, a) BY <2>3, ToldIdles, ToldTakes
  <2>4. CASE Tell(w) BY <2>4, ToldTells
  <2>5. CASE Record(w) BY <2>5, ToldRecords
  <2>6. CASE Vanished(w) \/ Raise(w) \/ Crash(w)
    <3>1. UNCHANGED <<inv, told>> /\ Step(w, Idle) /\ redone' = Unrecorded(w)
      BY <2>6 DEF Vanished, Raise, Crash, Abandon
    <3> QED BY <3>1, ToldStops
  <2> QED BY <1>5, <2>1, <2>2, <2>3, <2>4, <2>5, <2>6 DEF CycleStep, Deliver
<1>6. CASE Wait \/ MonthEnds
  <2>1. UNCHANGED <<inv, work, told, redone>> BY <1>6 DEF Wait, MonthEnds, history
  <2> QED BY <1>1, <1>2, <2>1
<1>7. ASSUME ByHand PROVE ToldInv'
  <2>1. CASE \E p \in Panels : SyncByHand(p)
    <3>1. UNCHANGED <<inv, work, told, redone>> BY <2>1 DEF SyncByHand, Others, history
    <3> QED BY <1>1, <1>2, <3>1
  <2>2. CASE \E a \in Admins : Sell(a) \/ Leave(a)
    <3>1. UNCHANGED <<inv, work, told, redone>> BY <2>2 DEF Sell, Leave, Change, history
    <3> QED BY <1>1, <1>2, <3>1
  <2>3. CASE \E a \in Admins : Pay(a)
    <3>1. PICK a \in Admins : Pay(a) BY <2>3
    <3>2. /\ inv[a] # None /\ inv[a].status = "sent" /\ inv' = [inv EXCEPT ![a].status = "paid"]
          /\ UNCHANGED <<work, told, redone>>
      BY <3>1 DEF Pay, history
    <3> QED BY <1>1, <1>3, <3>2
  <2>4. CASE GenerateByHand
    <3>1. PICK force \in BOOLEAN : inv' = Generated(force) BY <2>4 DEF GenerateByHand
    <3>2. \A a \in Admins : Away(a)' <=> Away(a) BY <3>1, Generating DEF Away
    <3> QED BY <1>1, <2>4, <3>2 DEF GenerateByHand, history
  <2>5. ASSUME NEW w \in Workers, SendPeriodByHand(w) \/ RetryFailed(w) \/ \E a \in Admins : SendByHand(w, a)
        PROVE  ToldInv'
    <3>1. CASE SendPeriodByHand(w) BY <3>1, ToldIdles
    <3>2. CASE RetryFailed(w) BY <3>2, ToldIdles DEF RetryFailed, Due
    <3>3. CASE \E a \in Admins : SendByHand(w, a) BY <3>3, ToldResend
    <3> QED BY <2>5, <3>1, <3>2, <3>3
  <2> QED BY <1>7, <2>1, <2>2, <2>3, <2>4, <2>5 DEF ByHand
<1>8. CASE DepositStep
  <2>1. UNCHANGED <<work, told, redone>> BY <1>8, DepositBilling DEF history
  <2>2. CASE inv' = inv BY <1>1, <1>2, <2>1, <2>2
  <2>3. CASE Owed /\ inv' = [inv EXCEPT ![Payer].status = "paid"]
    <3>1. \A b \in Admins : Away(b)' <=> Away(b) BY <1>3, <2>3, PayerAssumption DEF Owed
    <3> QED BY <1>1, <2>1, <3>1
  <2> QED BY <1>8, <2>2, <2>3, DepositBilling
<1>9. CASE UNCHANGED vars
  <2>1. UNCHANGED <<inv, work, told, redone>> BY <1>9 DEF vars, billingVars, history
  <2> QED BY <1>1, <1>2, <2>1
<1> QED BY <1>4, <1>5, <1>6, <1>7, <1>8, <1>9 DEF Next, BillingNext

LEMMA ToldBound == ASSUME IsFiniteSet(Workers), BillingTypes, ToldInv PROVE ToldOnce
<1> SUFFICES ASSUME NEW a \in Admins PROVE told[a] <= 1 + redone[a]
  BY DEF ToldOnce
<1>1. told[a] + Cardinality(Pending(a)) <= redone[a] + One(Out(a)) BY DEF ToldInv, Bound
<1>2. told[a] \in Nat /\ redone[a] \in Nat /\ One(Out(a)) \in {0, 1} BY DEF BillingTypes, One
<1>3. Pending(a) \subseteq Workers BY DEF Pending
<1>4. Cardinality(Pending(a)) \in Nat BY <1>3, FS_Subset, FS_CardinalityType
<1> QED BY <1>1, <1>2, <1>4

\* A reseller gets the message of an invoice once, and once more for each time it is sent
\* again and each record that was lost: however many cycles, retries and deliveries overlap.
THEOREM ToldOncePerInvoice == ASSUME IsFiniteSet(Workers) PROVE Spec => []ToldOnce
<1>1. Init => BillingTypes /\ ToldInv BY BillingTypesInit, ToldInit
<1>2. BillingTypes /\ ToldInv /\ [Next]_vars => (BillingTypes /\ ToldInv)' BY BillingTypesStep, ToldStep
<1>3. BillingTypes /\ ToldInv => ToldOnce BY ToldBound
<1> QED BY <1>1, <1>2, <1>3, PTL DEF Spec

-----------------------------------------------------------------------------
(* What is stored of the panels.                                           *)

LEMMA PanelsInit == Init => PanelsInv
<1> SUFFICES ASSUME Init PROVE PanelsInv
  OBVIOUS
<1>1. /\ panel = [p \in Panels |-> Fresh(p)] /\ syncs = [k \in Keys |-> None]
      /\ stored = [p \in Panels |-> [edition |-> 0, here |-> AdminsOf(p), sells |-> AdminsOf(p),
                       rows |-> AdminsOf(p), synced |-> TRUE, status |-> "ok"]]
  BY DEF Init, BillingInit
<1> QED BY <1>1 DEF PanelsInv, PanelSound, DataSound, Fresh

\* What is read and stored stays sound when nothing of it changes but that syncs begin,
\* end and fail.
LEMMA PanelsBeside ==
    ASSUME PanelsInv, panel' = panel,
           \A p \in Panels : /\ stored'[p].edition = stored[p].edition /\ stored'[p].here = stored[p].here
                             /\ stored'[p].sells = stored[p].sells /\ stored'[p].rows = stored[p].rows,
           \A k \in Keys : \/ syncs'[k] = None \/ syncs'[k].data = None
                           \/ /\ syncs[k] # None
                              /\ syncs'[k].data = syncs[k].data /\ syncs'[k].newer = syncs[k].newer
    PROVE  PanelsInv'
<1>1. \A p \in Panels : PanelSound(p)' BY DEF PanelsInv, PanelSound
<1>2. ASSUME NEW k \in Keys PROVE DataSound(k)'
  <2>1. k[1] \in Panels BY DEF Keys
  <2> QED BY <2>1 DEF PanelsInv, DataSound
<1> QED BY <1>1, <1>2 DEF PanelsInv

\* A panel changes: it has no admin it did not have, and sales only of those it has.
LEMMA PanelChanges ==
    ASSUME BillingTypes, PanelsInv, NEW p \in Panels, NEW here \in SUBSET panel[p].here, NEW sells \in SUBSET here,
           Change(p, here, sells)
    PROVE  PanelsInv'
<1> USE BillingParts
<1>1. /\ panel' = [panel EXCEPT ![p] = [edition |-> panel[p].edition + 1, here |-> here, sells |-> sells]]
      /\ stored' = stored /\ syncs' = syncs
  BY DEF Change
<1>2. \A q \in Panels : panel[q].edition \in Nat /\ stored[q].edition \in Nat
  BY EditionTypes DEF Content, Stored, Edition
<1>3. \A q \in Panels : /\ panel'[q].edition \in Nat /\ panel[q].edition <= panel'[q].edition
                        /\ panel'[q].here \subseteq panel[q].here /\ panel'[q].sells \subseteq panel'[q].here
  BY <1>1, <1>2 DEF PanelsInv, PanelSound
<1>4. \A q \in Panels : PanelSound(q)' BY <1>1, <1>2, <1>3 DEF PanelsInv, PanelSound
<1>5. ASSUME NEW k \in Keys PROVE DataSound(k)'
  <2>1. k[1] \in Panels BY DEF Keys
  <2> SUFFICES ASSUME syncs[k] # None, syncs[k].data # None PROVE DataSound(k)'
    BY <1>1 DEF DataSound
  <2>2. syncs[k].data \in Content BY DEF SyncTask
  <2>3. syncs[k].data.edition \in Nat BY <2>2, EditionTypes DEF Content, Edition
  <2> QED BY <1>1, <1>2, <1>3, <2>1, <2>3 DEF PanelsInv, DataSound
<1> QED BY <1>4, <1>5 DEF PanelsInv

\* A sync reads what the panel has now, and what it stores no other sync has overtaken.
LEMMA PanelSyncs ==
    ASSUME BillingTypes, PanelsInv, NEW k \in Keys, SyncStep(k)
    PROVE  PanelsInv' /\ \A p \in Panels : stored[p].edition <= stored'[p].edition
<1> USE BillingParts
<1>1. k[1] \in Panels /\ panel' = panel
  BY DEF Keys, SyncStep, Fetch, WriteSync, FailSync, RecordFailure, Others
<1>2. \A p \in Panels : panel[p].edition \in Nat /\ stored[p].edition \in Nat
  BY EditionTypes DEF Content, Stored, Edition
<1>3. syncs[k] # None BY DEF SyncStep, Fetch, WriteSync, FailSync, RecordFailure
<1>4. syncs[k] \in SyncTask BY <1>3
<1>5. CASE Fetch(k)
  <2>1. stored' = stored BY <1>5 DEF Fetch
  <2>2. /\ \A x \in Keys : x # k => syncs'[x] = syncs[x]
        /\ syncs'[k].newer = syncs[k].newer /\ syncs'[k].data \in {panel[k[1]], syncs[k].data}
    BY <1>4, <1>5 DEF Fetch, SyncTask
  <2>3. \A p \in Panels : PanelSound(p)' BY <1>1, <2>1 DEF PanelsInv, PanelSound
  <2>4. ASSUME NEW x \in Keys PROVE DataSound(x)'
    <3>1. x[1] \in Panels BY DEF Keys
    <3>2. CASE x # k \/ syncs'[k].data = syncs[k].data BY <1>1, <1>3, <2>1, <2>2, <3>1, <3>2 DEF PanelsInv, DataSound
    <3>3. CASE x = k /\ syncs'[k].data = panel[k[1]]
      <4>1. PanelSound(k[1]) BY <1>1 DEF PanelsInv
      <4>2. panel[k[1]].here \subseteq AdminsOf(k[1]) BY <4>1 DEF PanelSound
      <4> QED BY <1>1, <1>2, <2>1, <3>3, <4>1, <4>2 DEF DataSound, PanelSound
    <3> QED BY <2>2, <3>2, <3>3
  <2> QED BY <1>2, <2>1, <2>3, <2>4 DEF PanelsInv
<1>6. CASE WriteSync(k)
  <2> DEFINE p == k[1]
             data == syncs[k].data
  <2>1. /\ data # None /\ ~syncs[k].newer
        /\ stored' = [stored EXCEPT ![p] =
              [edition |-> data.edition, here |-> data.here, sells |-> data.sells,
               rows |-> stored[p].rows \cup data.here, synced |-> TRUE, status |-> "ok"]]
    BY <1>6 DEF WriteSync, NewerSuccess
  <2>2. \A x \in Keys : \/ syncs'[x] = None
                        \/ x[1] # p /\ syncs'[x] = syncs[x]
                        \/ x[1] = p /\ syncs[x] # None /\ syncs'[x] = [syncs[x] EXCEPT !.newer = TRUE]
    BY <1>6 DEF WriteSync
  <2>3. data \in Content BY <1>4, <2>1 DEF SyncTask
  <2>4. data.edition \in Nat BY <2>3, EditionTypes DEF Content, Edition
  <2>5. /\ data.edition <= panel[p].edition /\ data.sells \subseteq data.here
        /\ panel[p].here \subseteq data.here /\ data.here \subseteq AdminsOf(p)
        /\ stored[p].edition <= data.edition
    BY <1>3, <2>1 DEF PanelsInv, DataSound
  <2>6. /\ stored'[p].edition = data.edition /\ stored'[p].here = data.here /\ stored'[p].sells = data.sells
        /\ stored'[p].rows = stored[p].rows \cup data.here
        /\ \A q \in Panels : q # p => stored'[q] = stored[q]
    BY <1>1, <2>1
  <2>7. ASSUME NEW q \in Panels PROVE PanelSound(q)'
    <3>1. PanelSound(q) BY DEF PanelsInv
    <3>2. CASE q # p BY <1>1, <2>6, <3>1, <3>2 DEF PanelSound
    <3>3. CASE q = p
      <4> HIDE DEF p, data
      <4> QED BY <1>1, <2>5, <2>6, <3>1, <3>3 DEF PanelSound
    <3> QED BY <3>2, <3>3
  <2>8. ASSUME NEW x \in Keys PROVE DataSound(x)'
    <3>1. DataSound(x) /\ x[1] \in Panels BY DEF PanelsInv, Keys
    <3>2. CASE syncs'[x] = None BY <3>2 DEF DataSound
    <3>3. CASE x[1] # p /\ syncs'[x] = syncs[x] BY <1>1, <2>6, <3>1, <3>3 DEF DataSound
    <3>4. CASE x[1] = p /\ syncs[x] # None /\ syncs'[x] = [syncs[x] EXCEPT !.newer = TRUE]
      <4>1. syncs[x] \in SyncTask BY <3>4
      <4>2. syncs'[x].data = syncs[x].data /\ syncs'[x].newer BY <3>4, <4>1 DEF SyncTask
      <4> QED BY <1>1, <3>1, <3>4, <4>2 DEF DataSound
    <3> QED BY <2>2, <3>2, <3>3, <3>4
  <2>9. \A q \in Panels : stored[q].edition <= stored'[q].edition
    <3> HIDE DEF p, data
    <3> QED BY <1>2, <2>4, <2>5, <2>6
  <2> QED BY <2>7, <2>8, <2>9 DEF PanelsInv
<1>7. CASE FailSync(k)
  <2>1. stored' = stored /\ syncs' = [syncs EXCEPT ![k].step = "failing"] BY <1>7 DEF FailSync
  <2>2. \A x \in Keys : syncs'[x] = syncs[x] \/ (x = k /\ syncs'[x].data = syncs[x].data /\ syncs'[x].newer = syncs[x].newer)
    BY <1>4, <2>1 DEF SyncTask
  <2> QED BY <1>1, <1>2, <1>3, <2>1, <2>2, PanelsBeside
<1>8. CASE RecordFailure(k)
  <2>1. /\ stored' = stored \/ stored' = [stored EXCEPT ![k[1]].status = "error"]
        /\ syncs' = [syncs EXCEPT ![k] = None]
    BY <1>8 DEF RecordFailure
  <2>2. \A p \in Panels : /\ stored'[p].edition = stored[p].edition /\ stored'[p].here = stored[p].here
                          /\ stored'[p].sells = stored[p].sells /\ stored'[p].rows = stored[p].rows
    BY <2>1 DEF Stored
  <2>3. \A x \in Keys : syncs'[x] = None \/ syncs'[x] = syncs[x] BY <2>1
  <2> QED BY <1>1, <1>2, <2>2, <2>3, PanelsBeside
<1> QED BY <1>5, <1>6, <1>7, <1>8 DEF SyncStep

\* Everything else begins and ends syncs at most.
LEMMA SyncsBeside ==
    ASSUME BillingTypes, [Next]_vars
    PROVE  \/ \E k \in Keys : SyncStep(k)
           \/ \E a \in Admins : Sell(a) \/ Leave(a)
           \/ /\ panel' = panel /\ stored' = stored
              /\ \A k \in Keys : syncs'[k] \in {None, NewSync, syncs[k]}
<1> DEFINE Beside == panel' = panel /\ stored' = stored /\ \A k \in Keys : syncs'[k] \in {None, NewSync, syncs[k]}
<1>1. ASSUME NEW w \in Workers, Begin(w) PROVE Beside BY <1>1 DEF Begin
<1>2. ASSUME NEW w \in Workers, RunDue(w) \/ Generate(w) \/ FinishRun(w) \/ Raise(w) \/ Crash(w) PROVE Beside
  BY <1>1, <1>2 DEF RunDue, Generate, FinishRun, Raise, Crash, Abandon, NoCycleSyncs
<1>3. ASSUME NEW w \in Workers, Deliver(w) PROVE Beside
  BY <1>3 DEF Deliver, ListDrafts, Tell, Record, Vanished, Abandon, NoCycleSyncs, EndByHand, Skip, Take
<1>4. ASSUME Wait \/ MonthEnds PROVE Beside BY <1>4 DEF Wait, MonthEnds
<1>5. ASSUME NEW p \in Panels, SyncByHand(p) PROVE Beside BY <1>5 DEF SyncByHand, Others, BillingTypes, TypeOK
<1>6. ASSUME NEW w \in Workers, SendPeriodByHand(w) \/ RetryFailed(w) \/ \E a \in Admins : SendByHand(w, a) PROVE Beside
  BY <1>1, <1>6 DEF SendPeriodByHand, RetryFailed, SendByHand
<1>7. ASSUME (\E a \in Admins : Pay(a)) \/ GenerateByHand PROVE Beside BY <1>7 DEF Pay, GenerateByHand
<1>8. CASE DepositStep BY <1>8, DepositBilling
<1>9. CASE UNCHANGED vars BY <1>9 DEF vars, billingVars
<1>10. CASE BillingNext
  <2> HIDE DEF Beside
  <2>1. ASSUME ByHand PROVE Beside \/ \E a \in Admins : Sell(a) \/ Leave(a) BY <1>5, <1>6, <1>7, <2>1 DEF ByHand
  <2>2. ASSUME NEW w \in Workers, RunDue(w) \/ CycleStep(w) \/ Raise(w) \/ Crash(w) PROVE Beside
    BY <1>2, <1>3, <2>2 DEF CycleStep
  <2>3. Beside \/ (\E k \in Keys : SyncStep(k)) \/ \E a \in Admins : Sell(a) \/ Leave(a)
    BY <1>4, <1>10, <2>1, <2>2, Zenon DEF BillingNext
  <2> QED BY <2>3 DEF Beside
<1> QED BY <1>8, <1>9, <1>10 DEF Next

LEMMA PanelsStep ==
    ASSUME BillingTypes, PanelsInv, [Next]_vars
    PROVE  PanelsInv' /\ \A p \in Panels : stored[p].edition <= stored'[p].edition
<1> USE BillingParts
<1>1. \A p \in Panels : stored[p].edition \in Nat BY EditionTypes DEF Stored, Edition
<1>2. CASE \E k \in Keys : SyncStep(k) BY <1>2, PanelSyncs
<1>3. ASSUME NEW a \in Admins, Sell(a) \/ Leave(a)
      PROVE  PanelsInv' /\ \A p \in Panels : stored[p].edition <= stored'[p].edition
  <2> DEFINE q == PanelOf[a]
  <2>1. q \in Panels /\ PanelSound(q) BY PanelsAssumption DEF PanelsInv
  <2>2. PICK here \in SUBSET panel[q].here : \E sells \in SUBSET here : Change(q, here, sells)
    <3>1. CASE Sell(a)
      <4>1. PICK sells \in {panel[q].sells \cup {a}, panel[q].sells \ {a}} : Change(q, panel[q].here, sells)
        BY <3>1 DEF Sell
      <4>2. a \in panel[q].here BY <3>1 DEF Sell
      <4>3. sells \subseteq panel[q].here BY <2>1, <4>1, <4>2 DEF PanelSound
      <4> QED BY <4>1, <4>3
    <3>2. CASE Leave(a)
      <4>1. Change(q, panel[q].here \ {a}, panel[q].sells \ {a}) BY <3>2 DEF Leave
      <4>2. panel[q].sells \ {a} \subseteq panel[q].here \ {a} BY <2>1 DEF PanelSound
      <4> QED BY <4>1, <4>2
    <3> QED BY <1>3, <3>1, <3>2
  <2>3. stored' = stored BY <2>2 DEF Change
  <2> QED BY <1>1, <2>1, <2>2, <2>3, PanelChanges
<1>4. CASE panel' = panel /\ stored' = stored /\ \A k \in Keys : syncs'[k] \in {None, NewSync, syncs[k]}
  <2>1. NewSync.data = None BY DEF NewSync
  <2>2. \A k \in Keys : \/ syncs'[k] = None \/ syncs'[k].data = None
                        \/ syncs[k] # None /\ syncs'[k].data = syncs[k].data /\ syncs'[k].newer = syncs[k].newer
    BY <1>4, <2>1
  <2> QED BY <1>1, <1>4, <2>2, PanelsBeside
<1> QED BY <1>2, <1>3, <1>4, SyncsBeside

\* What is stored of a panel never gets older, for any number of syncs of it that overlap,
\* fail or are cut off, in whatever order they get the panel's lock.
THEOREM StoredStaysFresh == Spec => StoredNeverOlder
<1>1. Init => BillingTypes /\ PanelsInv BY BillingTypesInit, PanelsInit
<1>2. BillingTypes /\ PanelsInv /\ [Next]_vars => (BillingTypes /\ PanelsInv)' BY BillingTypesStep, PanelsStep
<1>3. BillingTypes /\ PanelsInv /\ [Next]_vars => [\A p \in Panels : stored'[p].edition >= stored[p].edition]_stored
  <2> SUFFICES ASSUME BillingTypes, PanelsInv, [Next]_vars
               PROVE  \A p \in Panels : stored'[p].edition >= stored[p].edition
    OBVIOUS
  <2>1. \A p \in Panels : stored[p].edition \in Nat BY BillingParts, EditionTypes DEF Stored, Edition
  <2>2. BillingTypes' BY BillingTypesStep
  <2>3. \A p \in Panels : stored'[p].edition \in Nat
    <3>1. stored' \in [Panels -> Stored] BY <2>2 DEF BillingTypes, TypeOK
    <3> QED BY <3>1, EditionTypes DEF Stored, Edition
  <2> QED BY <2>1, <2>3, PanelsStep
<1> QED BY <1>1, <1>2, <1>3, PTL DEF Spec, StoredNeverOlder

-----------------------------------------------------------------------------
(* Who a cycle owes an invoice.                                            *)

\* With more rows, an admin has everybody below it that it had.
LEMMA BelowGrows ==
    ASSUME NEW p \in Panels, parent' = parent, stored[p].rows \subseteq stored'[p].rows,
           NEW a \in stored[p].rows, NEW b \in Below(p)[a]
    PROVE  b \in Below(p)'[a]
<1> DEFINE rows == stored[p].rows
           Closed(f, in) == \A x \in in : parent[x] \in f => x \in f
<1>1. b \in rows /\ \A f \in SUBSET rows : Closed(f, rows) /\ a \in f => b \in f BY DEF Below
<1>2. ASSUME NEW f \in SUBSET stored'[p].rows, Closed(f, stored'[p].rows), a \in f PROVE b \in f
  <2>1. f \cap rows \in SUBSET rows /\ a \in f \cap rows BY <1>2
  <2>2. Closed(f \cap rows, rows) BY <1>2
  <2>3. b \in f \cap rows BY <1>1, <2>1, <2>2
  <2> QED BY <2>3
<1>3. Below(p)' = [x \in stored'[p].rows |-> {y \in stored'[p].rows :
          \A f \in {g \in SUBSET stored'[p].rows : \A z \in stored'[p].rows : parent'[z] \in g => z \in g} :
             x \in f => y \in f}]
  BY DEF Below
<1>4. a \in stored'[p].rows /\ b \in stored'[p].rows BY <1>1
<1> QED BY <1>2, <1>3, <1>4

\* So a reseller stays in the branches it is in.
LEMMA BranchGrows ==
    ASSUME parent' = parent, \A p \in Panels : stored[p].rows \subseteq stored'[p].rows, NEW a \in Admins
    PROVE  /\ ExemptBranch(a) => ExemptBranch(a)'
           /\ \A r \in Branch(a) : r \in Branch(a)'
<1>1. PanelOf[a] \in Panels BY PanelsAssumption
<1>2. ASSUME ExemptBranch(a) PROVE ExemptBranch(a)'
  <2>1. PICK e \in Exempt \cap stored[PanelOf[a]].rows : a \in Below(PanelOf[a])[e] BY <1>2 DEF ExemptBranch
  <2>2. a \in Below(PanelOf[a])'[e] BY <1>1, <2>1, BelowGrows
  <2>3. e \in Exempt \cap stored'[PanelOf[a]].rows BY <1>1, <2>1
  <2> QED BY <2>2, <2>3 DEF ExemptBranch
<1>3. ASSUME NEW r \in Branch(a) PROVE r \in Branch(a)'
  <2>1. r \in stored[PanelOf[a]].rows /\ r \notin Exempt /\ parent[r] = Owner /\ a \in Below(PanelOf[a])[r]
    BY DEF Branch, Roots
  <2>2. a \in Below(PanelOf[a])'[r] BY <1>1, <2>1, BelowGrows
  <2>3. r \in stored'[PanelOf[a]].rows BY <1>1, <2>1
  <2> QED BY <2>1, <2>2, <2>3 DEF Branch, Roots
<1> QED BY <1>2, <1>3

\* An admin with everybody below it is one of the rows of its panel.
LEMMA BranchOf ==
    ASSUME PanelsInv, NEW a \in Admins, NEW r \in Branch(a)
    PROVE  r \in Admins /\ PanelOf[r] = PanelOf[a]
<1>1. PanelOf[a] \in Panels BY PanelsAssumption
<1>2. r \in stored[PanelOf[a]].rows BY DEF Branch, Roots
<1>3. stored[PanelOf[a]].rows \subseteq AdminsOf(PanelOf[a]) BY <1>1 DEF PanelsInv, PanelSound
<1> QED BY <1>2, <1>3 DEF AdminsOf

\* What any step leaves of the rows and of those present.
LEMMA RowsGrow ==
    ASSUME BillingTypes, PanelsInv, [Next]_vars
    PROVE  /\ parent' = parent
           /\ \A p \in Panels : stored[p].rows \subseteq stored'[p].rows /\ stored'[p].here \subseteq stored[p].here
<1>1. parent' = parent
  <2>1. CASE UNCHANGED vars BY <2>1 DEF vars, billingVars
  <2> QED BY <2>1, BillingWorld, DepositBilling DEF Next
<1>2. ASSUME NEW k \in Keys, SyncStep(k), NEW p \in Panels
      PROVE  stored[p].rows \subseteq stored'[p].rows /\ stored'[p].here \subseteq stored[p].here
  <2>1. stored[p] \in Stored BY BillingParts
  <2>2. CASE stored' = stored BY <2>2
  <2>3. CASE stored' = [stored EXCEPT ![k[1]].status = "error"] BY <2>1, <2>3, BillingParts DEF Stored
  <2>4. CASE WriteSync(k)
    <3> DEFINE data == syncs[k].data
    <3>1. /\ syncs[k] # None /\ data # None /\ ~syncs[k].newer
          /\ stored' = [stored EXCEPT ![k[1]] =
                [edition |-> data.edition, here |-> data.here, sells |-> data.sells,
                 rows |-> stored[k[1]].rows \cup data.here, synced |-> TRUE, status |-> "ok"]]
      BY <2>4 DEF WriteSync, NewerSuccess
    <3>2. data.here \subseteq stored[k[1]].here BY <3>1 DEF PanelsInv, DataSound
    <3> HIDE DEF data
    <3>3. CASE p # k[1] BY <3>1, <3>3, BillingParts
    <3>4. CASE p = k[1]
      <4>1. stored'[p].rows = stored[p].rows \cup data.here /\ stored'[p].here = data.here
        BY <3>1, <3>4, BillingParts
      <4> QED BY <3>2, <3>4, <4>1
    <3> QED BY <3>3, <3>4
  <2>5. stored' = stored \/ stored' = [stored EXCEPT ![k[1]].status = "error"] \/ WriteSync(k)
    BY <1>2 DEF SyncStep, Fetch, FailSync, RecordFailure
  <2> QED BY <2>2, <2>3, <2>4, <2>5
<1>3. ASSUME NEW a \in Admins, Sell(a) \/ Leave(a) PROVE stored' = stored BY <1>3 DEF Sell, Leave, Change
<1> QED BY <1>1, <1>2, <1>3, SyncsBeside

\* An invoice that is not a draft any more is out for good.
Keeps(r) == inv[r] # None => inv'[r] # None /\ (inv'[r].status = inv[r].status \/ inv'[r].status \in {"sent", "paid"})

\* When a root has been seen to, and when a worker's cycle has seen to everybody, it stays so.
LEMMA HandledStays ==
    ASSUME BillingTypes, NEW w \in Workers, NEW r \in Admins, Handled(w, r), Present(r)' => Present(r), Keeps(r),
           inv[r] # None /\ inv[r].status = "draft" /\ Ahead(w, r) =>
               Ahead(w, r)' \/ inv'[r].status \in {"sent", "paid"} \/ Reach[r] # "ok"
    PROVE  Handled(w, r)'
<1>1. inv[r] # None => inv[r].status \in {"draft", "sent", "paid"} BY BillingParts DEF InvoiceRow
<1> QED BY <1>1 DEF Handled, Keeps

LEMMA AccountedStays ==
    ASSUME BillingTypes, BillingTypes', PanelsInv, OwingInv, [Next]_vars, owing' \subseteq owing,
           \A w \in Workers : Clean(w)' =>
               Clean(w) /\ \A a \in owing' : \A r \in Branch(a) : Handled(w, r) => Handled(w, r)'
    PROVE  \A w \in Workers : Clean(w)' => \A a \in owing' : Accounted(w, a)'
<1> SUFFICES ASSUME NEW w \in Workers, Clean(w)', NEW a \in owing' PROVE Accounted(w, a)'
  OBVIOUS
<1>1. a \in Admins /\ Accounted(w, a) BY DEF OwingInv
<1>2. /\ ExemptBranch(a) => ExemptBranch(a)'
      /\ \A r \in Branch(a) : r \in Branch(a)'
  BY <1>1, RowsGrow, BranchGrows
<1>3. CASE ExemptBranch(a) BY <1>2, <1>3 DEF Accounted
<1>4. ASSUME NEW r \in Branch(a), Handled(w, r) PROVE Accounted(w, a)'
  <2>1. r \in Branch(a)' /\ Handled(w, r)' BY <1>2, <1>4
  <2> QED BY <2>1 DEF Accounted
<1> QED BY <1>1, <1>3, <1>4 DEF Accounted

\* A step that keeps invoices, and one worker at most goes on with a cycle.
LEMMA OwingBeside ==
    ASSUME BillingTypes, BillingTypes', PanelsInv, OwingInv, [Next]_vars, owing' = owing,
           \A r \in Admins : Keeps(r),
           \A w \in Workers : work'[w] = work[w] \/ ~Clean(w)'
               \/ /\ Clean(w)
                  /\ \A r \in Admins : inv[r] # None /\ inv[r].status = "draft" /\ Ahead(w, r) =>
                        Ahead(w, r)' \/ inv'[r].status \in {"sent", "paid"} \/ Reach[r] # "ok"
    PROVE  \A w \in Workers : Clean(w)' => \A a \in owing' : Accounted(w, a)'
<1>1. ASSUME NEW w \in Workers, Clean(w)'
      PROVE  Clean(w) /\ \A a \in owing' : \A r \in Branch(a) : Handled(w, r) => Handled(w, r)'
  <2>1. Clean(w) /\ \A r \in Admins : inv[r] # None /\ inv[r].status = "draft" /\ Ahead(w, r) =>
                        Ahead(w, r)' \/ inv'[r].status \in {"sent", "paid"} \/ Reach[r] # "ok"
    <3>1. CASE work'[w] = work[w] BY <1>1, <3>1 DEF Clean, Ahead
    <3> QED BY <1>1, <3>1
  <2>2. ASSUME NEW a \in owing', NEW r \in Branch(a), Handled(w, r) PROVE Handled(w, r)'
    <3>1. a \in Admins BY DEF OwingInv
    <3>2. r \in Admins BY <3>1, BranchOf
    <3>3. Present(r)' => Present(r)
      <4>1. PanelOf[r] \in Panels BY <3>2, PanelsAssumption
      <4> QED BY <4>1, RowsGrow DEF Present
    <3> QED BY <2>1, <2>2, <3>2, <3>3, HandledStays
  <2> QED BY <2>1, <2>2
<1> QED BY <1>1, AccountedStays

\* A generation keeps what is not a draft, and makes the invoices it bills.
LEMMA Generations ==
    ASSUME BillingTypes, NEW force \in BOOLEAN, inv' = Generated(force), NEW r \in Admins
    PROVE  /\ PanelOf[r] \notin Processed \/ r \in Billed(PanelOf[r]) => Keeps(r)
           /\ PanelOf[r] \in Processed /\ r \in Billed(PanelOf[r]) => inv'[r] # None
<1>1. InvoiceRow \subseteq [status : {"draft", "sent", "paid"}, amount : Nat]
  BY EditionTypes DEF InvoiceRow, Edition
<1>2. \A row \in InvoiceRow : row # None BY <1>1, NoneAssumption
<1>3. inv[r] \in InvoiceRow \cup {None} BY BillingParts
<1>4. stored[PanelOf[r]].edition \in Edition BY PanelsAssumption, BillingParts DEF Stored
<1>5. Draft(r) \in InvoiceRow /\ Draft(r).status = "draft" BY <1>4 DEF Draft, InvoiceRow
<1>6. ASSUME inv[r] # None
      PROVE  /\ [inv[r] EXCEPT !.amount = stored[PanelOf[r]].edition] \in InvoiceRow
             /\ [inv[r] EXCEPT !.amount = stored[PanelOf[r]].edition].status = inv[r].status
  <2>1. inv[r] \in InvoiceRow BY <1>3, <1>6
  <2> QED BY <1>4, <2>1 DEF InvoiceRow
<1>7. Persisted(r, force) # None /\ (inv[r] # None => Persisted(r, force).status = inv[r].status)
  BY <1>2, <1>3, <1>5, <1>6 DEF Persisted
<1>8. inv'[r] = IF PanelOf[r] \notin Processed THEN inv[r]
                ELSE IF r \in Billed(PanelOf[r]) THEN Persisted(r, force)
                ELSE IF inv[r] # None /\ inv[r].status = "draft" THEN None ELSE inv[r]
  BY DEF Generated
<1> QED BY <1>7, <1>8 DEF Keeps

\* The owner's own generation takes only drafts away, of resellers without sales.
LEMMA OwingByHand ==
    ASSUME BillingTypes, BillingTypes', PanelsInv, OwingInv, [Next]_vars, GenerateByHand
    PROVE  \A w \in Workers : Clean(w)' => \A a \in owing' : Accounted(w, a)'
<1>1. PICK force \in BOOLEAN : inv' = Generated(force) BY DEF GenerateByHand
<1>2. /\ owing' = {a \in owing : PanelOf[a] \in Processed => a \in stored[PanelOf[a]].sells}
      /\ work' = work /\ stored' = stored
  BY DEF GenerateByHand
<1>3. ASSUME NEW w \in Workers, NEW a \in owing', NEW r \in Branch(a), Handled(w, r) PROVE Handled(w, r)'
  <2>1. a \in Admins /\ (PanelOf[a] \in Processed => a \in stored[PanelOf[a]].sells) BY <1>2 DEF OwingInv
  <2>2. r \in Admins /\ PanelOf[r] = PanelOf[a] BY <2>1, BranchOf
  <2>3. r \in Roots(PanelOf[r]) /\ a \in Below(PanelOf[r])[r] BY <2>2 DEF Branch
  <2>4. Present(r)' <=> Present(r) BY <1>2 DEF Present
  <2>5. CASE ~Present(r) BY <2>4, <2>5 DEF Handled
  <2>6. CASE Present(r)
    <3>1. PanelOf[r] \in Processed => r \in Billed(PanelOf[r]) BY <2>1, <2>2, <2>3, <2>6 DEF Billed, Owes
    <3>2. Keeps(r) BY <1>1, <2>2, <3>1, Generations
    <3>3. inv[r] # None /\ inv[r].status = "draft" => Ahead(w, r)' = Ahead(w, r) BY <1>2 DEF Ahead
    <3> QED BY <1>3, <2>2, <2>4, <3>2, <3>3, HandledStays
  <2> QED BY <2>5, <2>6
<1>4. \A w \in Workers : Clean(w)' => Clean(w) BY <1>2 DEF Clean
<1>5. owing' \subseteq owing BY <1>2
<1> QED BY <1>3, <1>4, <1>5, AccountedStays

\* The cycle's generation, when it meets no problem, bills the branch of everybody with sales.
LEMMA OwingGenerates ==
    ASSUME BillingTypes, BillingTypes', PanelsInv, OwingInv, NEW w \in Workers, Generate(w), parent' = parent
    PROVE  \A v \in Workers : Clean(v)' => \A a \in owing' : Accounted(v, a)'
<1> DEFINE job == [work[w] EXCEPT !.step = "generated", !.problem = Incomplete]
<1>1. /\ work[w].step = "syncing" /\ inv' = Generated(FALSE) /\ Step(w, job) /\ stored' = stored
      /\ owing' = {a \in Admins : a \in stored[PanelOf[a]].sells}
  BY DEF Generate
<1>2. Incomplete \in BOOLEAN /\ work[w] \in Job BY JobTypes DEF Incomplete
<1>3. job \in Job BY <1>2, JobTypes
<1>4. job.step = "generated" /\ job.problem = Incomplete BY <1>2 DEF Job
<1> HIDE DEF job
<1>5. work'[w] = job /\ \A v \in Workers : v # w => work'[v] = work[v] BY <1>1, <1>3, Stepping
<1>6. ASSUME NEW v \in Workers, Clean(v)' PROVE v = w
  <2>1. work[w].cycle BY <1>1 DEF OwingInv, Cycles
  <2>2. CASE v # w
    <3>1. work[v].step # "idle" /\ work[v].cycle BY <1>5, <1>6, <2>2 DEF Clean
    <3> QED BY <1>1, <2>1, <3>1 DEF OwingInv, Cycles, OneCycle
  <2> QED BY <2>2
<1> SUFFICES ASSUME Clean(w)', NEW a \in owing' PROVE Accounted(w, a)'
  BY <1>6
<1> DEFINE p == PanelOf[a]
<1>7. a \in Admins /\ a \in stored[p].sells /\ p \in Panels BY <1>1, PanelsAssumption
<1>8. ~Incomplete BY <1>4, <1>5 DEF Clean
<1>9. p \in Processed /\ UnbilledSubtrees(p) = {} BY <1>7, <1>8 DEF Incomplete
<1>10. a \in stored[p].here /\ a \in stored[p].rows BY <1>7 DEF PanelsInv, PanelSound
<1>11. ASSUME NEW e \in stored[p].rows \cap Exempt, a \in Below(p)[e] PROVE Accounted(w, a)'
  <2>1. ExemptBranch(a) BY <1>11 DEF ExemptBranch
  <2> QED BY <1>1, <2>1, <1>7, BranchGrows DEF Accounted
<1>12. CASE a \in Exempt
  <2>1. a \in Below(p)[a] BY <1>10 DEF Below
  <2> QED BY <1>10, <1>11, <1>12, <2>1
<1>13. CASE a \notin Exempt
  <2>1. a \in Covered(p) BY <1>9, <1>10, <1>13 DEF UnbilledSubtrees, Present
  <2>2. PICK e \in Roots(p) \cup (stored[p].rows \cap Exempt) : a \in Below(p)[e] BY <2>1 DEF Covered
  <2>3. CASE e \in Roots(p)
    <3>1. e \in Branch(a) BY <2>2, <2>3, <1>7 DEF Branch
    <3>2. e \in Admins /\ PanelOf[e] = p BY <1>7, <3>1, BranchOf
    <3>3. e \in Branch(a)' BY <1>1, <1>7, <3>1, BranchGrows
    <3>4. CASE ~Present(e)
      <4>1. ~Present(e)' BY <1>1, <3>4 DEF Present
      <4> QED BY <3>3, <4>1 DEF Accounted, Handled
    <3>5. CASE Present(e)
      <4>1. e \in Billed(p) BY <1>7, <2>2, <2>3, <3>5 DEF Billed, Owes
      <4>2. inv'[e] # None BY <1>1, <1>9, <3>2, <4>1, Generations
      <4>3. Ahead(w, e)' BY <1>4, <1>5 DEF Ahead
      <4> QED BY <3>3, <4>2, <4>3 DEF Accounted, Handled
    <3> QED BY <3>4, <3>5
  <2> QED BY <1>11, <2>2, <2>3
<1> QED BY <1>12, <1>13

\* An invoice that is marked is there still.
LEMMA Keeping ==
    ASSUME BillingTypes, NEW at, inv[at] # None, NEW status \in {"sent", "paid"},
           inv' = [inv EXCEPT ![at].status = status], NEW r \in Admins
    PROVE  Keeps(r) /\ (r = at => inv'[r].status = status)
<1>1. CASE r # at BY <1>1, BillingParts DEF Keeps
<1>2. CASE r = at
  <2> DEFINE row == [inv[r] EXCEPT !.status = status]
  <2>1. inv'[r] = row BY <1>2, BillingParts
  <2>2. inv[r] \in InvoiceRow BY <1>2, BillingParts
  <2>3. row \in [status : {"draft", "sent", "paid"}, amount : Nat] /\ row.status = status
    BY <2>2, EditionTypes DEF InvoiceRow, Edition
  <2>4. row # None BY <2>3, NoneAssumption
  <2> HIDE DEF row
  <2> QED BY <2>1, <2>3, <2>4 DEF Keeps
<1> QED BY <1>1, <1>2

\* A delivery goes through the drafts one by one, and none of them is lost on the way.
LEMMA OwingDelivers ==
    ASSUME BillingTypes, NEW w \in Workers,
           \/ ListDrafts(w) \/ Tell(w) \/ Record(w)
           \/ \E a \in Admins : Skip(w, a) \/ Take(w, a)
    PROVE  /\ \A r \in Admins : Keeps(r)
           /\ work'[w].step # "syncing" /\ (work'[w].cycle => work[w].cycle /\ work[w].step # "idle")
           /\ Clean(w)' => Clean(w) /\ \A r \in Admins : inv[r] # None /\ inv[r].status = "draft" /\ Ahead(w, r) =>
                 Ahead(w, r)' \/ inv'[r].status \in {"sent", "paid"} \/ Reach[r] # "ok"
<1> USE DEF Clean, Ahead
<1>1. work[w] \in Job /\ \A r \in Admins : inv[r] \in InvoiceRow \cup {None} BY JobTypes, BillingParts
<1>2. inv' = inv => \A r \in Admins : Keeps(r) BY DEF Keeps
<1>3. CASE ListDrafts(w)
  <2> DEFINE todo == {a \in Admins : inv[a] # None /\ inv[a].status = "draft"}
             job == [work[w] EXCEPT !.step = "sending", !.todo = todo]
  <2>1. Step(w, job) /\ inv' = inv /\ work[w].step = "generated" BY <1>3 DEF ListDrafts
  <2>2. todo \in SUBSET Admins OBVIOUS
  <2>3. job \in Job BY <2>2, JobTypes
  <2>4. job.step = "sending" /\ job.todo = todo /\ job.cycle = work[w].cycle /\ job.problem = work[w].problem
    BY <1>1 DEF Job
  <2> HIDE DEF job
  <2>5. work'[w] = job BY <2>1, <2>3, Stepping
  <2> QED BY <1>2, <2>1, <2>4, <2>5
<1>4. CASE \E a \in Admins : Skip(w, a)
  <2>1. PICK a \in Admins : Skip(w, a) BY <1>4
  <2> DEFINE job == [work[w] EXCEPT !.todo = @ \ {a}]
  <2>2. Step(w, job) /\ inv' = inv /\ work[w].step = "sending" /\ ~Sendable(w, a) BY <2>1 DEF Skip
  <2>3. job \in Job BY JobTypes
  <2>4. job.step = "sending" /\ job.todo = work[w].todo \ {a} /\ job.cycle = work[w].cycle
        /\ job.problem = work[w].problem
    BY <1>1, <2>2 DEF Job
  <2> HIDE DEF job
  <2>5. work'[w] = job BY <2>2, <2>3, Stepping
  <2>6. inv[a] = None \/ inv[a].status # "draft" BY <2>2 DEF Sendable
  <2> QED BY <1>2, <2>2, <2>4, <2>5, <2>6
<1>5. CASE \E a \in Admins : Take(w, a)
  <2>1. PICK a \in Admins : Take(w, a) BY <1>5
  <2> DEFINE job == [work[w] EXCEPT !.step = "telling", !.todo = @ \ {a}, !.at = a]
  <2>2. Step(w, job) /\ inv' = inv /\ work[w].step = "sending" BY <2>1 DEF Take
  <2>3. job \in Job BY JobTypes
  <2>4. job.step = "telling" /\ job.todo = work[w].todo \ {a} /\ job.at = a /\ job.cycle = work[w].cycle
        /\ job.problem = work[w].problem
    BY <1>1 DEF Job
  <2> HIDE DEF job
  <2>5. work'[w] = job BY <2>2, <2>3, Stepping
  <2> QED BY <1>2, <2>2, <2>4, <2>5
<1>6. CASE Tell(w)
  <2>1. PICK o \in {"sent", "failed", "unsent"} :
           /\ Step(w, [work[w] EXCEPT !.step = "told", !.outcome = o])
           /\ o = "unsent" => Reach[work[w].at] # "ok"
    BY <1>6 DEF Tell
  <2> DEFINE job == [work[w] EXCEPT !.step = "told", !.outcome = o]
  <2>2. inv' = inv /\ work[w].step = "telling" BY <1>6 DEF Tell
  <2>3. job \in Job BY JobTypes
  <2>4. job.step = "told" /\ job.outcome = o /\ job.todo = work[w].todo /\ job.at = work[w].at
        /\ job.cycle = work[w].cycle /\ job.problem = work[w].problem
    BY <1>1 DEF Job
  <2>5. Step(w, job) BY <2>1
  <2> HIDE DEF job
  <2>6. work'[w] = job BY <2>3, <2>5, Stepping
  <2> QED BY <1>2, <2>1, <2>2, <2>4, <2>6
<1>7. CASE Record(w)
  <2> DEFINE problem == work[w].problem \/ work[w].outcome = "failed"
             next == [work[w] EXCEPT !.step = "sending", !.at = None, !.outcome = "unsent", !.problem = problem]
             job == IF work[w].todo = {} /\ ~work[w].cycle THEN Idle ELSE next
  <2>1. /\ work[w].step = "told" /\ inv[work[w].at] # None /\ inv' = Recorded(work[w].at, work[w].outcome)
        /\ Step(w, job)
    BY <1>7 DEF Record
  <2>2. next \in Job
    <3>1. problem \in BOOLEAN OBVIOUS
    <3> QED BY <3>1, JobTypes
  <2>3. next.step = "sending" /\ next.todo = work[w].todo /\ next.cycle = work[w].cycle /\ next.problem = problem
    BY <1>1 DEF Job
  <2>4. work'[w] = job BY <2>1, <2>2, IdleJob, Stepping
  <2>5. ASSUME NEW r \in Admins
        PROVE  /\ Keeps(r)
               /\ inv[r] # None /\ inv[r].status = "draft" /\ r = work[w].at /\ work[w].outcome = "sent"
                    => inv'[r].status = "sent"
    <3>1. CASE work[w].outcome = "sent" /\ inv[work[w].at].status = "draft"
      <4>1. inv' = [inv EXCEPT ![work[w].at].status = "sent"] BY <2>1, <3>1 DEF Recorded
      <4> QED BY <2>1, <4>1, Keeping
    <3>2. CASE ~(work[w].outcome = "sent" /\ inv[work[w].at].status = "draft")
      <4>1. inv' = inv BY <2>1, <3>2 DEF Recorded
      <4> QED BY <1>2, <3>2, <4>1
    <3> QED BY <3>1, <3>2
  <2> HIDE DEF next
  <2>6. CASE work[w].todo = {} /\ ~work[w].cycle
    <3>1. Idle.step = "idle" /\ Idle.cycle = FALSE BY DEF Idle
    <3> QED BY <2>4, <2>5, <2>6, <3>1
  <2>7. CASE ~(work[w].todo = {} /\ ~work[w].cycle)
    <3>1. work'[w] = next BY <2>4, <2>7
    <3> QED BY <2>1, <2>3, <2>5, <3>1
  <2> QED BY <2>6, <2>7
<1> QED BY <1>3, <1>4, <1>5, <1>6, <1>7

\* Where a worker begins, stops, or does what the owner asks for, nothing is owed to it.
LEMMA OwingStops ==
    ASSUME BillingTypes, NEW w \in Workers,
           \/ (Begin(w) /\ Running = {}) \/ FinishRun(w) \/ Raise(w) \/ Crash(w) \/ Vanished(w) \/ EndByHand(w) \/ SendPeriodByHand(w)
           \/ \E a \in Admins : SendByHand(w, a)
    PROVE  /\ inv' = inv /\ owing' = owing /\ \A v \in Workers : v # w => work'[v] = work[v]
           /\ ~Clean(w)' /\ (work'[w].step = "syncing" => work'[w].cycle)
           /\ Running = {} \/ work'[w].step = "idle" \/ ~work'[w].cycle
<1> USE DEF Clean
<1>1. Idle.step = "idle" /\ Idle.cycle = FALSE BY DEF Idle
<1>2. CASE Begin(w) /\ Running = {}
  <2> DEFINE job == [Idle EXCEPT !.step = "syncing", !.cycle = TRUE]
  <2>1. Step(w, job) /\ inv' = inv /\ owing' = owing BY <1>2 DEF Begin, history
  <2>2. job \in Job /\ job.step = "syncing" /\ job.cycle BY JobTypes DEF Idle
  <2> HIDE DEF job
  <2> QED BY <1>2, <2>1, <2>2, Stepping
<1>3. CASE FinishRun(w) \/ EndByHand(w)
  <2>1. Step(w, Idle) /\ inv' = inv /\ owing' = owing BY <1>3 DEF FinishRun, EndByHand, history
  <2> QED BY <1>1, <2>1, IdleJob, Stepping
<1>4. CASE Raise(w) \/ Crash(w) \/ Vanished(w)
  <2>1. Step(w, Idle) /\ inv' = inv /\ owing' = owing BY <1>4 DEF Raise, Vanished, Abandon, Crash
  <2> QED BY <1>1, <2>1, IdleJob, Stepping
<1>5. CASE SendPeriodByHand(w)
  <2> DEFINE job == [Idle EXCEPT !.step = "generated"]
  <2>1. Step(w, job) /\ inv' = inv /\ owing' = owing BY <1>5 DEF SendPeriodByHand, history
  <2>2. job \in Job /\ job.step = "generated" /\ job.cycle = FALSE BY JobTypes DEF Idle
  <2> HIDE DEF job
  <2> QED BY <2>1, <2>2, Stepping
<1>6. ASSUME NEW a \in Admins, SendByHand(w, a)
      PROVE  /\ inv' = inv /\ owing' = owing /\ \A v \in Workers : v # w => work'[v] = work[v]
             /\ work'[w].step = "sending" /\ ~work'[w].cycle
  <2> DEFINE job == [Idle EXCEPT !.step = "sending", !.todo = {a}, !.again = TRUE]
  <2>1. Step(w, job) /\ inv' = inv /\ owing' = owing BY <1>6 DEF SendByHand
  <2>2. job \in Job /\ job.step = "sending" /\ job.cycle = FALSE BY JobTypes DEF Idle
  <2> HIDE DEF job
  <2> QED BY <2>1, <2>2, Stepping
<1> QED BY <1>2, <1>3, <1>4, <1>5, <1>6

\* One cycle at a time: a worker begins one only where none runs.
LEMMA CyclesKept ==
    ASSUME Cycles, NEW w \in Workers, \A v \in Workers : v # w => work'[v] = work[v],
           work'[w].step = "syncing" => work'[w].cycle,
           work'[w].step # "idle" /\ work'[w].cycle => Running = {} \/ (work[w].step # "idle" /\ work[w].cycle)
    PROVE  Cycles'
<1>1. \A v \in Workers : work'[v].step = "syncing" => work'[v].cycle BY DEF Cycles
<1>2. ASSUME NEW u \in Workers, NEW v \in Workers, u # v, work'[u].step # "idle", work'[u].cycle,
             work'[v].step # "idle", work'[v].cycle
      PROVE  FALSE
  <2>1. \A x \in Workers : x \notin Running <=> ~(work[x].step # "idle" /\ work[x].cycle) BY DEF Running
  <2>2. Running # {} BY <1>2, <2>1
  <2>3. \A x \in {u, v} : work[x].step # "idle" /\ work[x].cycle BY <1>2, <2>2
  <2> QED BY <1>2, <2>3 DEF Cycles, OneCycle
<1> QED BY <1>1, <1>2 DEF Cycles, OneCycle

\* The steps in which no worker moves.
LEMMA OwingRests ==
    ASSUME BillingTypes, [Next]_vars
    PROVE  \/ GenerateByHand
           \/ \E w \in Workers :
                 \/ CycleStep(w) \/ Raise(w) \/ Crash(w) \/ SendPeriodByHand(w) \/ \E a \in Admins : SendByHand(w, a)
                 \/ Begin(w) /\ Running = {}
           \/ work' = work /\ owing' = owing /\ \A r \in Admins : Keeps(r)
<1> DEFINE Rests == work' = work /\ owing' = owing /\ \A r \in Admins : Keeps(r)
           Moves(w) == \/ CycleStep(w) \/ Raise(w) \/ Crash(w) \/ SendPeriodByHand(w) \/ \E a \in Admins : SendByHand(w, a)
                       \/ Begin(w) /\ Running = {}
<1>1. ASSUME work' = work, owing' = owing, inv' = inv PROVE Rests BY <1>1 DEF Keeps
<1>2. ASSUME NEW k \in Keys, SyncStep(k) PROVE Rests
  <2>1. work' = work /\ owing' = owing /\ inv' = inv
    BY <1>2 DEF SyncStep, Fetch, WriteSync, FailSync, RecordFailure, Others, history
  <2> QED BY <1>1, <2>1
<1>3. ASSUME Wait \/ MonthEnds \/ (\E p \in Panels : SyncByHand(p)) \/ (\E a \in Admins : Sell(a) \/ Leave(a)) PROVE Rests
  <2>1. work' = work /\ owing' = owing /\ inv' = inv
    BY <1>3 DEF Wait, MonthEnds, SyncByHand, Others, Sell, Leave, Change, history
  <2> QED BY <1>1, <2>1
<1>4. ASSUME NEW a \in Admins, Pay(a) PROVE Rests
  <2>1. /\ inv[a] # None /\ inv' = [inv EXCEPT ![a].status = "paid"]
        /\ work' = work /\ owing' = owing
    BY <1>4 DEF Pay, history
  <2> QED BY <2>1, Keeping
<1>5. ASSUME NEW w \in Workers, RunDue(w) PROVE Rests \/ Moves(w)
  <2>1. CASE Begin(w) BY <1>5, <2>1 DEF RunDue, Due
  <2>2. CASE ~Begin(w)
    <3>1. work' = work /\ owing' = owing /\ inv' = inv BY <1>5, <2>2 DEF RunDue, history
    <3> QED BY <1>1, <3>1
  <2> QED BY <2>1, <2>2
<1>6. ASSUME NEW w \in Workers, RetryFailed(w) PROVE Moves(w) BY <1>6 DEF RetryFailed, Due
<1>7. CASE DepositStep
  <2>1. work' = work /\ owing' = owing BY <1>7, DepositBilling DEF history
  <2>2. CASE inv' = inv BY <1>1, <2>1, <2>2
  <2>3. CASE Owed /\ inv' = [inv EXCEPT ![Payer].status = "paid"]
    <3>1. inv[Payer] # None BY <2>3 DEF Owed
    <3> QED BY <2>1, <2>3, <3>1, Keeping
  <2> QED BY <1>7, <2>2, <2>3, DepositBilling
<1>8. CASE UNCHANGED vars
  <2>1. work' = work /\ owing' = owing /\ inv' = inv BY <1>8 DEF vars, billingVars, history
  <2> QED BY <1>1, <2>1
<1>9. CASE BillingNext
  <2> HIDE DEF Rests
  <2>1. ASSUME ByHand PROVE GenerateByHand \/ Rests \/ \E w \in Workers : Moves(w)
    BY <1>3, <1>4, <1>6, <2>1, Zenon DEF ByHand
  <2>2. ASSUME NEW w \in Workers, RunDue(w) \/ CycleStep(w) \/ Raise(w) \/ Crash(w) PROVE Rests \/ Moves(w)
    BY <1>5, <2>2
  <2> HIDE DEF Moves
  <2>3. GenerateByHand \/ Rests \/ \E w \in Workers : Moves(w)
    BY <1>2, <1>3, <1>9, <2>1, <2>2, Zenon DEF BillingNext
  <2> QED BY <2>3 DEF Rests, Moves
<1> QED BY <1>7, <1>8, <1>9 DEF Next

LEMMA OwingInit == Init => OwingInv
<1> SUFFICES ASSUME Init PROVE OwingInv
  OBVIOUS
<1>1. PICK invoices, status : BillingInit(invoices, status)
  <2>1. BillingInit(Sent, "completed") \/ BillingInit([a \in Admins |-> None], "none") BY DEF Init
  <2> QED BY <2>1
<1>2. work = [w \in Workers |-> Idle] /\ owing = {} BY <1>1 DEF BillingInit
<1>3. \A w \in Workers : work[w].step = "idle" BY <1>2, IdleJob
<1> QED BY <1>2, <1>3 DEF OwingInv, Cycles, OneCycle, Clean

LEMMA OwingStep ==
    ASSUME BillingTypes, BillingTypes', PanelsInv, OwingInv, [Next]_vars
    PROVE  OwingInv'
<1> DEFINE Met == \A w \in Workers : Clean(w)' => \A a \in owing' : Accounted(w, a)'
<1>1. CASE GenerateByHand
  <2>1. work' = work /\ owing' \subseteq owing BY <1>1 DEF GenerateByHand
  <2>2. Met BY <1>1, OwingByHand
  <2> QED BY <2>1, <2>2 DEF OwingInv, Cycles, OneCycle
<1>2. CASE work' = work /\ owing' = owing /\ \A r \in Admins : Keeps(r)
  <2>1. Met BY <1>2, OwingBeside
  <2> QED BY <1>2, <2>1 DEF OwingInv, Cycles, OneCycle
<1>3. ASSUME NEW w \in Workers, Generate(w) PROVE OwingInv'
  <2>1. Met BY <1>3, RowsGrow, OwingGenerates
  <2>2. owing' \subseteq Admins BY <1>3 DEF Generate
  <2> DEFINE job == [work[w] EXCEPT !.step = "generated", !.problem = Incomplete]
  <2>3. Step(w, job) /\ work[w].step = "syncing" BY <1>3 DEF Generate
  <2>4. Incomplete \in BOOLEAN /\ work[w] \in Job BY JobTypes DEF Incomplete
  <2>5. job \in Job /\ job.step = "generated" /\ job.cycle = work[w].cycle
    <3>1. job \in Job BY <2>4, JobTypes
    <3> QED BY <2>4, <3>1 DEF Job
  <2> HIDE DEF job
  <2>6. work'[w] = job /\ \A v \in Workers : v # w => work'[v] = work[v] BY <2>3, <2>5, Stepping
  <2>7. Cycles' BY <2>3, <2>5, <2>6, CyclesKept DEF OwingInv
  <2> QED BY <2>1, <2>2, <2>7 DEF OwingInv
<1>4. ASSUME NEW w \in Workers, ListDrafts(w) \/ Tell(w) \/ Record(w) \/ \E a \in Admins : Skip(w, a) \/ Take(w, a)
      PROVE  OwingInv'
  <2>1. PICK job \in Job : Step(w, job)
    <3>1. \E job : Step(w, job) BY <1>4 DEF ListDrafts, Tell, Record, Skip, Take
    <3>2. work'[w] \in Job BY BillingParts DEF BillingTypes, TypeOK
    <3>3. Step(w, work'[w]) BY <3>1, BillingParts DEF Step
    <3> QED BY <3>2, <3>3
  <2>2. owing' = owing BY <1>4 DEF ListDrafts, Tell, Record, Skip, Take, history
  <2>3. \A v \in Workers : v # w => work'[v] = work[v] BY <2>1, Stepping
  <2>4. Met BY <1>4, <2>2, <2>3, OwingDelivers, OwingBeside
  <2>5. Cycles' BY <1>4, <2>3, OwingDelivers, CyclesKept DEF OwingInv
  <2> QED BY <2>2, <2>4, <2>5 DEF OwingInv
<1>5. ASSUME NEW w \in Workers,
             \/ FinishRun(w) \/ Raise(w) \/ Crash(w) \/ Vanished(w) \/ EndByHand(w) \/ SendPeriodByHand(w)
             \/ (\E a \in Admins : SendByHand(w, a)) \/ (Begin(w) /\ Running = {})
      PROVE  OwingInv'
  <2>1. /\ inv' = inv /\ owing' = owing /\ \A v \in Workers : v # w => work'[v] = work[v]
        /\ ~Clean(w)' /\ (work'[w].step = "syncing" => work'[w].cycle)
        /\ Running = {} \/ work'[w].step = "idle" \/ ~work'[w].cycle
    BY <1>5, OwingStops
  <2>2. \A r \in Admins : Keeps(r) BY <2>1 DEF Keeps
  <2>3. Met BY <2>1, <2>2, OwingBeside
  <2>4. Cycles' BY <2>1, CyclesKept DEF OwingInv
  <2> QED BY <2>1, <2>3, <2>4 DEF OwingInv
<1>6. ASSUME NEW w \in Workers, CycleStep(w) PROVE OwingInv'
  <2> HIDE DEF Met
  <2> QED BY <1>3, <1>4, <1>5, <1>6, Zenon DEF CycleStep, Deliver
<1> QED BY <1>1, <1>2, <1>5, <1>6, OwingRests, Zenon

\* A cycle gets completed where a worker finds all of its messages out.
LEMMA RunsFinish ==
    ASSUME BillingTypes, [Next]_vars, run'.status = "completed", run.status # "completed"
    PROVE  \E w \in Workers : FinishRun(w)
<1>1. run \in [status : {"none", "running", "retry", "failed", "completed"},
               attempts : 0..(MAX_ATTEMPTS + events), waiting : BOOLEAN]
  BY BillingParts
<1>2. ASSUME NEW w \in Workers, Begin(w) PROVE FALSE BY <1>2 DEF Begin
<1>3. ASSUME NEW w \in Workers, Abandon(w) PROVE FALSE
  <2>1. run' = run \/ run'.status \in {"failed", "retry"} BY <1>1, <1>3 DEF Abandon
  <2> QED BY <2>1
<1>4. ASSUME NEW w \in Workers, RunDue(w) PROVE FALSE
  <2>1. run'.status = "failed" \/ Begin(w) BY <1>1, <1>4 DEF RunDue
  <2> QED BY <1>2, <2>1
<1>5. ASSUME NEW w \in Workers, CycleStep(w) \/ Raise(w) \/ Crash(w) PROVE FinishRun(w)
  <2>1. FinishRun(w) \/ Abandon(w) \/ run' = run
    BY <1>5 DEF CycleStep, Generate, Deliver, ListDrafts, Tell, Record, Vanished, EndByHand, Skip, Take, Raise, Crash
  <2> QED BY <1>3, <2>1
<1>6. ASSUME NEW k \in Keys, SyncStep(k) PROVE run' = run
  BY <1>6 DEF SyncStep, Fetch, WriteSync, FailSync, RecordFailure, Others
<1>7. ASSUME Wait PROVE run'.status = run.status BY <1>1, <1>7 DEF Wait
<1>8. ASSUME MonthEnds PROVE run' = run BY <1>8 DEF MonthEnds
<1>9. ASSUME ByHand PROVE run' = run \/ \E w \in Workers : Begin(w)
  BY <1>9 DEF ByHand, SyncByHand, Others, Sell, Leave, Change, Pay, GenerateByHand, SendPeriodByHand, RetryFailed,
              SendByHand
<1>10. ASSUME DepositStep PROVE run' = run BY <1>10, DepositBilling
<1>11. ASSUME UNCHANGED vars PROVE run' = run BY <1>11 DEF vars, billingVars
<1> QED BY <1>2, <1>4, <1>5, <1>6, <1>7, <1>8, <1>9, <1>10, <1>11 DEF Next, BillingNext

\* Nobody with sales is left out of a cycle that counts as completed, for any panels, trees of
\* resellers and workers, however syncs, crashes, deliveries and the owner's requests overlap.
THEOREM CompletedBillsAll == Spec => CompletedIsBilled
<1> DEFINE Inv == BillingTypes /\ PanelsInv /\ OwingInv
           Completes ==
               run'.status = "completed" /\ run.status # "completed" =>
                   \A a \in owing : ExemptBranch(a) \/ \E r \in Branch(a) : Settled(r)
<1>1. Init => Inv BY BillingTypesInit, PanelsInit, OwingInit
<1>2. Inv /\ [Next]_vars => Inv' BY BillingTypesStep, PanelsStep, OwingStep
<1>3. Inv /\ [Next]_vars => [Completes]_run
  <2> SUFFICES ASSUME Inv, [Next]_vars, run'.status = "completed", run.status # "completed", NEW a \in owing
               PROVE  ExemptBranch(a) \/ \E r \in Branch(a) : Settled(r)
    OBVIOUS
  <2>1. PICK w \in Workers : FinishRun(w) BY RunsFinish
  <2>2. work[w].step = "sending" /\ work[w].cycle /\ work[w].todo = {} /\ ~work[w].problem
    <3>1. work[w].step = "sending" /\ work[w].cycle /\ work[w].todo = {}
          /\ run' = [run EXCEPT !.status = IF ~work[w].problem THEN "completed"
                                           ELSE IF run.attempts >= MAX_ATTEMPTS THEN "failed" ELSE "retry",
                                !.waiting = work[w].problem /\ ~(run.attempts >= MAX_ATTEMPTS)]
      BY <2>1 DEF FinishRun
    <3>2. run \in [status : {"none", "running", "retry", "failed", "completed"},
                   attempts : 0..(MAX_ATTEMPTS + events), waiting : BOOLEAN]
      BY BillingParts
    <3> QED BY <3>1, <3>2
  <2>3. Clean(w) BY <2>2 DEF Clean
  <2>4. Accounted(w, a) BY <2>3 DEF OwingInv
  <2>5. ASSUME NEW r \in Branch(a), Handled(w, r) PROVE Settled(r)
    BY <2>2, <2>5 DEF Handled, Ahead, Settled
  <2> QED BY <2>4, <2>5 DEF Accounted
<1> QED BY <1>1, <1>2, <1>3, PTL DEF Spec, CompletedIsBilled

=============================================================================
