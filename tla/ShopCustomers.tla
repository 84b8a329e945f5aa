--------------------------- MODULE ShopCustomers ---------------------------
(***************************************************************************)
(* The customers of a shop talk to its bot while its administrators work   *)
(* on the same rows: they buy plans, ask for top-ups, redeem codes and     *)
(* claim their free trial.                                                 *)
(*                                                                         *)
(* The state of a conversation is kept in memory, so a restart of the bot  *)
(* forgets it.  Every update (a message or a tap on a button) is a task of *)
(* its own: its handler is chosen by the state when the update came in,    *)
(* reads the conversation's data later, and writes to the database and the *)
(* conversation later still, beside the handlers of other updates.  Old    *)
(* messages keep their buttons, so any button may be tapped at any time.   *)
(***************************************************************************)
EXTENDS ShopAdmin, Functions

CONSTANTS
    Tasks,                  \* updates worked on at once
    Cards,                  \* confirmations of a purchase, which are storefront_operations
    MaxPending              \* storefront_max_pending_topups

ASSUME CustomersAssumption ==
    /\ Cards \subseteq Nat \ {0} /\ MaxPending \in Nat
    /\ IsFiniteSet(Cards) /\ IsFiniteSet(Tasks)
    /\ \A w \in Worlds : w.talkers \subseteq Customers

VARIABLES
    chat,       \* state and data of each customer's conversation
    task,       \* the update each task works on
    card,       \* the operations, with their charge and its refund
    trials,     \* trials each customer got: users made for him on the panel
    unreaped,   \* trial orders that a restart left pending, for the reaper
    unsure,     \* history: trials that were made and taken for failed
    heard,      \* updates so far
    outside     \* is the reseller suspended, and who is in the shop's channel

talking == <<chat, task, card, trials, unreaped, unsure, heard, outside>>
allVars == <<vars, talking>>
shopRest == <<keys, req, asked, sends, sweep, world, history>>

Quiet == [at |-> None, plan |-> 0, amount |-> 0, code |-> FALSE, crypto |-> FALSE]
States == {None, "buy_name", "topup_amount", "topup_choice", "topup_code", "topup_proof",
           "gift_code", "cust_support"}
Chat == [at : States, plan : Plans \cup {0}, amount : Nat, code : BOOLEAN, crypto : BOOLEAN]
\* The kinds of updates: buttons, menu labels and messages.
Kinds == {"buy", "confirm", "topup", "ask code", "no code", "ask gift", "usdt", "card",
          "cancel", "trial", "support",
          "name", "amount", "code", "proof", "gift", "question"}
Task == [who : Customers, do : Kinds, n : Nat, data : Chat, price : Nat,
         step : {"arrived", "taken", "charge", "panel", "trial"}]
Card == [who : Customers, status : {"pending", "in_progress", "done", "failed"}, paid : Nat]
ASSUME NoneCustomersAssumption == None \notin Task \cup Card
CustomersTypeOK ==
    /\ TypeOK
    /\ chat \in [Customers -> Chat]
    /\ task \in [Tasks -> Task \cup {None}]
    /\ card \in [Cards -> Card \cup {None}]
    /\ trials \in [Customers -> Nat] /\ unreaped \in [Customers -> Nat] /\ unsure \in [Customers -> Nat]

-----------------------------------------------------------------------------
(* What a customer can send.                                               *)

Update(do, n) == [do |-> do, n |-> n]
Taps == {Update("buy", p) : p \in Plans} \cup {Update("confirm", c) : c \in {d \in Cards : card[d] # None}}
        \cup {Update(do, 0) : do \in {"topup", "ask code", "no code", "ask gift", "usdt", "card"}}
Labels == {Update(do, 0) : do \in {"cancel", "trial", "support"}}
\* A photo, or the id of one deposit in either spelling.
Photo == 0
Proofs == {Photo, 1, 2}
Messages(at) ==
    CASE at = "buy_name" -> {Update("name", 0)}
      [] at \in {"topup_amount", "topup_choice"} -> {Update("amount", n) : n \in 1..2}
      [] at = "topup_code" -> {Update("code", 0)}
      [] at = "topup_proof" -> {Update("proof", x) : x \in Proofs}
      [] at = "gift_code" -> {Update("gift", 0)}
      [] at = "cust_support" -> {Update("question", 0)}
      [] OTHER -> {}

NewTopups(i) == {t \in Topups : Buyer[t] = i /\ db.topup[t] = None}
NewCards == {c \in Cards : card[c] = None}
Working(do) == {h \in Tasks : task[h] # None /\ task[h].do = do}
\* Only as many requests as there are ids for.
Room(i, do) ==
    /\ do = "name" => Cardinality(Working(do)) < Cardinality(NewCards)
    /\ do = "proof" => Cardinality({h \in Working(do) : task[h].who = i}) < Cardinality(NewTopups(i))

\* The gates before every handler: banned, suspended, not in the channel.  Cancelling is
\* not gated, and neither are the shop's administrators by the first and the last.
Administers(i) == i \in db.shop.managers
Welcome(i) == Administers(i) \/ ~db.cust[i].banned
InChannel(i) == Administers(i) \/ ~db.shop.required \/ db.shop.channel = None \/ i \in outside.members
Gates(i, do) == (do # "cancel" => Welcome(i) /\ InChannel(i)) /\ ~outside.suspended

\* Handlers that read the conversation, and those that clear it then.
Clears == {"confirm", "proof", "gift", "question", "cancel"}
Reads == Clears \cup {"name", "code"}
Arrive(h) ==
    /\ task[h] = None /\ heard < world.hears
    /\ Cardinality({g \in Tasks : task[g] # None}) < world.tasks
    /\ \E i \in world.talkers : \E u \in Taps \cup Labels \cup Messages(chat[i].at) :
          /\ u.do \in world.talk /\ Gates(i, u.do) /\ Room(i, u.do)
          /\ task' = [task EXCEPT ![h] = [who |-> i, do |-> u.do, n |-> u.n, data |-> Quiet, price |-> 0,
                                          step |-> IF u.do \in Reads THEN "arrived" ELSE "taken"]]
    /\ heard' = heard + 1
    /\ UNCHANGED <<db, shopRest, chat, card, trials, unreaped, unsure, outside>>

Take(h) ==
    /\ task[h] # None /\ task[h].step = "arrived"
    /\ LET i == task[h].who
       IN /\ task' = [task EXCEPT ![h].step = "taken", ![h].data = chat[i]]
          /\ chat' = [chat EXCEPT ![i] = IF task[h].do \in Clears THEN Quiet ELSE @]
    /\ UNCHANGED <<db, shopRest, card, trials, unreaped, unsure, heard, outside>>

Handles(h, do) == task[h] # None /\ task[h].step = "taken" /\ task[h].do \in do
Who(h) == task[h].who
Ends(h) == task' = [task EXCEPT ![h] = None]
Turns(h, c) == chat' = [chat EXCEPT ![Who(h)] = Updated(@, c)]
Silent == UNCHANGED <<db, shopRest, card, trials, unreaped, unsure, heard, outside>>

-----------------------------------------------------------------------------
(* Buying: a plan, a name, a confirmation.                                 *)

Offers(p) == p \in OnSale(db)
Affords(i, n) == db.cust[i].bal >= n
Buy(h) ==
    /\ Handles(h, {"buy"}) /\ Ends(h) /\ Silent
    /\ LET p == task[h].n
       IN IF ~db.shop.closed /\ Offers(p) /\ Affords(Who(h), db.plan[p].price)
          THEN Turns(h, [at |-> "buy_name", plan |-> p]) ELSE UNCHANGED chat
\* The operation is written before its button is shown.
Name(h) ==
    /\ Handles(h, {"name"}) /\ Ends(h)
    /\ \/ /\ Offers(task[h].data.plan)
          /\ card' = [card EXCEPT ![Min(NewCards)] = [who |-> Who(h), status |-> "pending", paid |-> 0]]
          /\ UNCHANGED chat
       \/ ~Offers(task[h].data.plan) /\ chat' = [chat EXCEPT ![Who(h)] = Quiet] /\ UNCHANGED card
    /\ UNCHANGED <<db, shopRest, trials, unreaped, unsure, heard, outside>>

\* One purchase or trial of a customer at a time: the lock is held while the panel is called.
Serving(i) == \E h \in Tasks : task[h] # None /\ task[h].who = i /\ task[h].step \in {"charge", "panel", "trial"}
Claimable(h, c) == card[c].who = Who(h) /\ card[c].status = "pending"
\* What is bought is the plan of the conversation, at its price of now.
Confirm(h) ==
    /\ Handles(h, {"confirm"}) /\ ~Serving(Who(h))
    /\ LET c == task[h].n
           p == task[h].data.plan
       IN \/ /\ db.shop.closed \/ ~Claimable(h, c)
             /\ Ends(h) /\ UNCHANGED card
          \/ /\ ~db.shop.closed /\ Claimable(h, c) /\ (outside.suspended \/ ~Offers(p))
             /\ card' = [card EXCEPT ![c].status = "failed"] /\ Ends(h)
          \/ /\ ~db.shop.closed /\ Claimable(h, c) /\ ~outside.suspended /\ Offers(p)
             /\ UNCHANGED card
             /\ IF Affords(Who(h), db.plan[p].price)
                THEN task' = [task EXCEPT ![h].step = "charge", ![h].price = db.plan[p].price]
                ELSE Ends(h)
    /\ UNCHANGED <<db, shopRest, chat, trials, unreaped, unsure, heard, outside>>
\* The balance is read again under its lock.
Charge(h) ==
    /\ task[h] # None /\ task[h].step = "charge"
    /\ IF Affords(Who(h), task[h].price)
       THEN /\ db' = Moves(db, Who(h), -task[h].price)
            /\ card' = [card EXCEPT ![task[h].n].status = "in_progress", ![task[h].n].paid = task[h].price]
            /\ task' = [task EXCEPT ![h].step = "panel"]
       ELSE Ends(h) /\ UNCHANGED <<db, card>>
    /\ UNCHANGED <<shopRest, chat, trials, unreaped, unsure, heard, outside>>
\* The panel has made the user, or the money goes back.
Settles(c) ==
    \/ /\ card' = [card EXCEPT ![c].status = "done"]
       /\ UNCHANGED db
    \/ /\ card' = [card EXCEPT ![c].status = "failed", ![c].paid = 0]
       /\ db' = Moves(db, card[c].who, card[c].paid)
Provision(h) ==
    /\ task[h] # None /\ task[h].step = "panel"
    /\ Settles(task[h].n) /\ Ends(h)
    /\ UNCHANGED <<shopRest, chat, trials, unreaped, unsure, heard, outside>>
\* reap_pending_orders, once the lease of a purchase nobody works on is over.
ReapCard(c) ==
    /\ card[c] # None /\ card[c].status = "in_progress"
    /\ \A h \in Tasks : task[h] # None /\ task[h].step = "panel" => task[h].n # c
    /\ Settles(c)
    /\ UNCHANGED <<shopRest, chat, task, trials, unreaped, unsure, heard, outside>>

-----------------------------------------------------------------------------
(* Topping up: an amount, a code, a method, a proof.                       *)

Waiting(i) == {t \in Topups : Buyer[t] = i /\ db.topup[t] # None /\ db.topup[t].status = "pending"}
StartTopup(h) ==
    /\ Handles(h, {"topup"}) /\ Ends(h) /\ Silent
    /\ IF Cardinality(Waiting(Who(h))) < MaxPending
       THEN Turns(h, [at |-> "topup_amount"]) ELSE UNCHANGED chat
Amount(h) ==
    /\ Handles(h, {"amount"}) /\ Ends(h) /\ Silent
    /\ Turns(h, [at |-> "topup_choice", amount |-> task[h].n, code |-> FALSE])
AskCode(h) ==
    /\ Handles(h, {"ask code"}) /\ Ends(h) /\ Silent
    /\ Turns(h, [at |-> "topup_code"])
\* A code that was accepted before stays.
NoCode(h) ==
    /\ Handles(h, {"no code"}) /\ Ends(h) /\ Silent
    /\ Turns(h, [at |-> "topup_choice"])
EnterCode(h) ==
    /\ Handles(h, {"code"}) /\ Ends(h) /\ Silent
    /\ IF Redeemable(db, Who(h), task[h].data.amount)
       THEN Turns(h, [at |-> "topup_choice", code |-> TRUE]) ELSE UNCHANGED chat
Method(h) ==
    /\ Handles(h, {"usdt", "card"}) /\ Ends(h) /\ Silent
    /\ Turns(h, [at |-> "topup_proof", crypto |-> task[h].do = "usdt"])

Deposit(crypto, x) == IF crypto /\ x = 2 THEN 1 ELSE x
AskedBefore(crypto, x) ==
    /\ crypto /\ x # Photo
    /\ \E t \in Topups : db.topup[t] # None /\ db.topup[t].crypto /\ db.topup[t].txid = x
Proof(h) ==
    /\ Handles(h, {"proof"}) /\ Ends(h)
    /\ LET d == task[h].data
           x == Deposit(d.crypto, task[h].n)
       IN db' = IF AskedBefore(d.crypto, x) THEN db
                ELSE [db EXCEPT !.topup[Min(NewTopups(Who(h)))] =
                        [status |-> "pending", amount |-> d.amount, code |-> d.code,
                         crypto |-> d.crypto, txid |-> x]]
    /\ UNCHANGED <<shopRest, chat, card, trials, unreaped, unsure, heard, outside>>

AskGift(h) ==
    /\ Handles(h, {"ask gift"}) /\ Ends(h) /\ Silent
    /\ Turns(h, [at |-> "gift_code"])
Gift(h) ==
    /\ Handles(h, {"gift"}) /\ Ends(h)
    /\ db' = IF Redeemable(db, Who(h), 0) THEN Redeem(db, Who(h)) ELSE db
    /\ UNCHANGED <<shopRest, chat, card, trials, unreaped, unsure, heard, outside>>

-----------------------------------------------------------------------------
(* The free trial, support and cancelling.                                 *)

\* A menu label is only heard outside a conversation, which it ends then.
Free(h) == chat[Who(h)].at = None
Locks(h) == /\ Handles(h, {"trial", "support"}) /\ ~Free(h)
            /\ Ends(h) /\ UNCHANGED chat /\ Silent
\* Mutant of Unclaimed: the flag is written when the panel has made the user.
UnclaimedLate(i, to) == db
Unclaimed(i, to) == [db EXCEPT !.cust[i].trial = to]
ClaimTrial(h) ==
    /\ Handles(h, {"trial"}) /\ Free(h) /\ ~Serving(Who(h))
    /\ LET i == Who(h)
       IN IF ~db.shop.closed /\ db.shop.trial /\ ~outside.suspended /\ ~db.cust[i].trial
          THEN db' = Unclaimed(i, TRUE) /\ task' = [task EXCEPT ![h].step = "trial"]
          ELSE Ends(h) /\ UNCHANGED db
    /\ chat' = [chat EXCEPT ![Who(h)] = Quiet]
    /\ UNCHANGED <<shopRest, card, trials, unreaped, unsure, heard, outside>>
\* The panel has made the user, or has not and the flag is lowered; or it has, and the
\* answer says otherwise (a timeout, a 200 that is no user), so the flag is lowered too.
TrialAnswers(i) ==
    \/ trials' = [trials EXCEPT ![i] = @ + 1] /\ UNCHANGED <<db, unsure>>
    \/ db' = [db EXCEPT !.cust[i].trial = FALSE] /\ UNCHANGED <<trials, unsure>>
    \/ /\ trials' = [trials EXCEPT ![i] = @ + 1]
       /\ db' = [db EXCEPT !.cust[i].trial = FALSE]
       /\ unsure' = [unsure EXCEPT ![i] = @ + 1]
GiveTrial(h) ==
    /\ task[h] # None /\ task[h].step = "trial" /\ Ends(h)
    /\ TrialAnswers(Who(h))
    /\ UNCHANGED <<shopRest, chat, card, unreaped, heard, outside>>
\* reap_pending_orders asks the panel about a pending trial order nobody works on; whether
\* its user had been made before the restart shows only then.
ReapTrial(i) ==
    /\ unreaped[i] > 0 /\ unreaped' = [unreaped EXCEPT ![i] = @ - 1]
    /\ TrialAnswers(i)
    /\ UNCHANGED <<shopRest, chat, task, card, heard, outside>>
Support(h) ==
    /\ Handles(h, {"support"}) /\ Free(h) /\ Ends(h) /\ Silent
    /\ chat' = [chat EXCEPT ![Who(h)] = [Quiet EXCEPT !.at = "cust_support"]]
\* All that is done has been done: the conversation is over.
Over(h) == Handles(h, {"question", "cancel"}) /\ Ends(h) /\ UNCHANGED chat /\ Silent

-----------------------------------------------------------------------------
(* The world outside.                                                      *)

\* The bot's process starts again: conversations and the updates at work are lost.  The
\* order of a trial whose user was asked for stays pending.
AsksTrial(i) == \E h \in Tasks : task[h] # None /\ task[h].step = "trial" /\ task[h].who = i
Restart ==
    /\ "restart" \in world.may
    /\ chat' = [i \in Customers |-> Quiet] /\ task' = [h \in Tasks |-> None]
    /\ chat # chat' \/ task # task'
    /\ unreaped' = [i \in Customers |-> IF AsksTrial(i) THEN unreaped[i] + 1 ELSE unreaped[i]]
    /\ UNCHANGED <<db, shopRest, card, trials, unsure, heard, outside>>
Suspend ==
    /\ "suspend" \in world.may
    /\ outside' = [outside EXCEPT !.suspended = ~@]
    /\ UNCHANGED <<db, shopRest, chat, task, card, trials, unreaped, unsure, heard>>
JoinOrLeave(i) ==
    /\ "channel" \in world.may
    /\ outside' = [outside EXCEPT !.members = IF i \in @ THEN @ \ {i} ELSE @ \cup {i}]
    /\ UNCHANGED <<db, shopRest, chat, task, card, trials, unreaped, unsure, heard>>

-----------------------------------------------------------------------------

CustomersInit ==
    /\ Init
    /\ chat = [i \in Customers |-> Quiet]
    /\ task = [h \in Tasks |-> None]
    /\ card = [c \in Cards |-> None]
    /\ trials = [i \in Customers |-> 0] /\ unreaped = trials /\ unsure = trials
    /\ heard = 0
    /\ outside = [suspended |-> FALSE, members |-> {}]

CustomersNext ==
    \/ Next /\ UNCHANGED talking
    \/ \E h \in Tasks :
          \/ Arrive(h) \/ Take(h) \/ Buy(h) \/ Name(h) \/ Confirm(h) \/ Charge(h) \/ Provision(h)
          \/ StartTopup(h) \/ Amount(h) \/ AskCode(h) \/ NoCode(h) \/ EnterCode(h) \/ Method(h) \/ Proof(h)
          \/ AskGift(h) \/ Gift(h) \/ Locks(h) \/ ClaimTrial(h) \/ GiveTrial(h) \/ Support(h) \/ Over(h)
    \/ \E c \in Cards : ReapCard(c)
    \/ Restart \/ Suspend
    \/ \E i \in Customers : ReapTrial(i) \/ JoinOrLeave(i)

CustomersSpec == CustomersInit /\ [][CustomersNext]_allVars

-----------------------------------------------------------------------------

\* What each top-up brought a customer, and what each of his confirmations cost him.
Confirmed(i) ==
    [t \in Topups |-> IF Buyer[t] = i /\ db.topup[t] # None /\ db.topup[t].status = "confirmed"
                      THEN db.topup[t].amount ELSE 0]
Charged(i) == [c \in Cards |-> IF card[c] # None /\ card[c].who = i THEN card[c].paid ELSE 0]

\* A customer's balance is what the ledger and his confirmed top-ups add up to, less what
\* his confirmations were charged and not given back, whoever decides, adjusts, buys and
\* redeems at once and however often a button is tapped; and a code is redeemed no more
\* often than it may be, by each customer and by all (_get_for_update, storefront_ops.claim,
\* storefront_credit.reserve).
MoneyAddsUp ==
    /\ \A i \in Customers :
          /\ db.cust[i].bal = db.ledger[i] + SumFunction(Confirmed(i)) - SumFunction(Charged(i))
          /\ db.cust[i].bal >= 0 /\ db.uses[i] <= 1
    /\ db.code # None => db.code.used = SumFunction(db.uses) /\ db.code.used <= db.code.cap

\* A customer gets no more free trials than one of before the monthly reset, one of after it
\* and one for each that was made and then taken for failed, which gives the flag back; the
\* orders that a restart left pending count, as their users may be on the panel.  It holds
\* whatever fails, restarts, is reaped late or is tapped twice (claim_trial's flag, set
\* before the panel is asked and lowered after it).
OneTrialAMonth ==
    \A i \in Customers :
        trials[i] + unreaped[i] <= 1 + (IF db.shop.period = None THEN 0 ELSE 1) + unsure[i]

=============================================================================
