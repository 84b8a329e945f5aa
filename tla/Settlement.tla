----------------------------- MODULE Settlement -----------------------------
(***************************************************************************)
(* How reseller payments settle invoices.                                  *)
(*                                                                         *)
(* The database rows are the invoices, the payments and one ledger row per *)
(* invoice (financial_records).  A request handler that locks one row and  *)
(* commits is one action.  Every other handler runs in a session: it takes *)
(* its row locks one after the other (SELECT ... FOR UPDATE), decides from *)
(* what it then reads, and commits; other sessions run in between.  The    *)
(* handlers in UnlockedWriters read invoices without a lock, wait for      *)
(* Telegram, a panel or the chain, and write afterwards from the objects   *)
(* they read (the sessions keep objects across commits and never refresh   *)
(* them); their UPDATE still waits for the row lock of other sessions.     *)
(***************************************************************************)
EXTENDS FiniteSetsExt

CONSTANTS
    Invoices,   \* invoice ids, numbered in the order rows are locked
    Payments,   \* payment ids; an id also stands for the payment's tx hash
    Resellers,  \* reseller rows
    OwnerOf,    \* the reseller an invoice bills
    Sessions,   \* concurrent requests and jobs
    Ops,        \* the handlers this instance lets run
    NoPay       \* "no payment", outside Payments

LockedHandlers ==
    {"submit", "confirm", "auto", "verify", "reject", "delete", "discardProof",
     "markPaid", "unmark", "cancel", "revert", "edit"}

UnlockedWriters ==
    {"send", "dunning", "stamp", "unstamp", "defer", "recompute", "discard"}

ASSUME InvoicesAssumption == Invoices \subseteq Nat
ASSUME OwnerAssumption == OwnerOf \in [Invoices -> Resellers]
ASSUME NoPayAssumption == NoPay \notin Payments
ASSUME OpsAssumption == Ops \subseteq LockedHandlers \cup UnlockedWriters

VARIABLES
    inv,        \* status of each invoice row
    sentAt,     \* does the invoice carry a delivery date?
    pay,        \* the payment rows
    ledger,     \* the durable financial record of each invoice
    suspended,  \* enforcement_state = enforced, by reseller
    sess        \* what each session is doing

vars == <<inv, sentAt, pay, ledger, suspended, sess>>

Owed == {"sent", "overdue", "enforced"}
InvoiceStatus == Owed \cup {"draft", "paid", "canceled", "gone"}
PaymentStatus == {"unused", "pending", "confirmed", "rejected", "deleted"}
Kind == {"txid", "screenshot", "manual"}

NoRow == [status |-> "none", tx |-> NoPay]

Idle == [op |-> "idle", phase |-> "none", p |-> NoPay, kind |-> "txid",
         cover |-> {}, pays |-> {}, todo |-> {}, rows |-> {}, mem |-> {},
         seen |-> "none"]

(***************************************************************************)
(* A session: the handler it runs, the payment p it works on, the invoices *)
(* it was asked about (cover), the payment and invoice rows it has locked  *)
(* (pays, rows), the invoices it has still to lock (todo), the invoices it *)
(* decided to write (mem) and the status it decided on or read (seen).     *)
(***************************************************************************)
Session ==
    [op : {"idle"} \cup LockedHandlers \cup UnlockedWriters,
     phase : {"none", "wait", "lock", "commit"},
     p : Payments \cup {NoPay}, kind : Kind,
     cover : SUBSET Invoices, pays : SUBSET Payments,
     todo : SUBSET Invoices, rows : SUBSET Invoices, mem : SUBSET Invoices,
     seen : InvoiceStatus \cup PaymentStatus \cup {"none"}]

PaymentRow == [status : PaymentStatus, kind : Kind, cover : SUBSET Invoices]
LedgerRow == [status : (InvoiceStatus \ {"draft", "gone"}) \cup {"none"},
              tx : Payments \cup {NoPay}]

TypeOK ==
    /\ inv \in [Invoices -> InvoiceStatus]
    /\ sentAt \in [Invoices -> BOOLEAN]
    /\ pay \in [Payments -> PaymentRow]
    /\ ledger \in [Invoices -> LedgerRow]
    /\ suspended \in [Resellers -> BOOLEAN]
    /\ sess \in [Sessions -> Session]

-----------------------------------------------------------------------------
(* Row locks and the ledger.                                               *)

RowFree(i) == \A t \in Sessions : i \notin sess[t].rows
PayFree(p) == \A t \in Sessions : p \notin sess[t].pays
IsIdle(s) == sess[s].op = "idle"
Exists(i) == inv[i] # "gone"

\* No row has this payment id and no session is about to insert one.
Fresh(p) == pay[p].status = "unused" /\ \A t \in Sessions : sess[t].p # p

\* Mutants of Recorded: drafts get a row; a settling hash is never cleared.
RecordedDraft(row, status, tx) ==
    [status |-> status, tx |-> IF status = "paid" /\ tx = NoPay THEN row.tx ELSE tx]
RecordedKeepsTx(row, status, tx) ==
    IF status = "draft" THEN NoRow
    ELSE [status |-> status, tx |-> IF tx # NoPay THEN tx ELSE row.tx]

\* financial_archive.record: what the ledger row becomes.
Recorded(row, status, tx) ==
    IF status = "draft" THEN NoRow
    ELSE [status |-> status,
          tx |-> IF tx # NoPay THEN tx
                 ELSE IF status = "paid" THEN row.tx ELSE NoPay]

TxOf(p) == IF pay[p].kind = "txid" THEN p ELSE NoPay

SetInvoices(S, status) == inv' = [i \in Invoices |-> IF i \in S THEN status ELSE inv[i]]

Record(S, status, tx) ==
    ledger' = [i \in Invoices |->
                 IF i \in S THEN Recorded(ledger[i], status, tx) ELSE ledger[i]]

SetPayment(p, status) == pay' = [pay EXCEPT ![p].status = status]

\* A handler that waits without holding a lock, and one that takes its locks.
Waiting(op, p, cover, mem, seen) ==
    [op |-> op, phase |-> "wait", p |-> p, kind |-> "txid", cover |-> cover, pays |-> {},
     todo |-> {}, rows |-> {}, mem |-> mem, seen |-> seen]
Locking(op, p, kind, pays, cover, todo, mem) ==
    [op |-> op, phase |-> "lock", p |-> p, kind |-> kind, cover |-> cover, pays |-> pays,
     todo |-> todo, rows |-> {}, mem |-> mem, seen |-> "none"]

Goto(s, state) == sess' = [sess EXCEPT ![s] = state]
End(s) == Goto(s, Idle)
Decided(s, mem, seen) ==
    Goto(s, [sess[s] EXCEPT !.phase = "commit", !.mem = mem, !.seen = seen])
HoldPayments(s, pays, todo) ==
    Goto(s, [sess[s] EXCEPT !.phase = "lock", !.pays = pays, !.todo = todo])
TakeRow(s, i) == Goto(s, [sess[s] EXCEPT !.todo = @ \ {i}, !.rows = @ \cup {i}])
SkipRow(s, i) == Goto(s, [sess[s] EXCEPT !.todo = @ \ {i}])

DBUnchanged == UNCHANGED <<inv, sentAt, pay, ledger, suspended>>

-----------------------------------------------------------------------------
Init ==
    /\ inv \in [Invoices -> {"draft", "sent"}]
    /\ sentAt = [i \in Invoices |-> inv[i] = "sent"]
    /\ pay = [p \in Payments |-> [status |-> "unused", kind |-> "txid", cover |-> {}]]
    /\ ledger = [i \in Invoices |->
                   IF inv[i] = "sent" THEN [status |-> "sent", tx |-> NoPay] ELSE NoRow]
    /\ suspended = [r \in Resellers |-> FALSE]
    /\ sess = [s \in Sessions |-> Idle]

-----------------------------------------------------------------------------
(* Taking invoice locks, in ascending order.                               *)

\* Mutant of NextLock: screenshot submissions lock in the opposite order.
NextLockSelected(s, i) ==
    /\ i \in sess[s].todo
    /\ \A j \in sess[s].todo : IF sess[s].kind = "screenshot" THEN i >= j ELSE i <= j

\* The next row a session locks.
NextLock(s, i) == i \in sess[s].todo /\ \A j \in sess[s].todo : i <= j

\* Mutant of LockInvoice: a locking read of a row that is gone is not skipped.
LockInvoiceNoSkip(s) ==
    /\ sess[s].phase = "lock" /\ sess[s].op # "submit"
    /\ \E i \in Invoices :
          /\ NextLock(s, i) /\ Exists(i) /\ RowFree(i)
          /\ TakeRow(s, i)
    /\ DBUnchanged

\* Flushing an UPDATE of a row that is gone raises StaleDataError; a locking
\* read of it is skipped.
LockInvoice(s) ==
    /\ sess[s].phase = "lock" /\ sess[s].op # "submit"
    /\ \E i \in Invoices :
          /\ NextLock(s, i)
          /\ \/ /\ Exists(i) /\ RowFree(i)
                /\ TakeRow(s, i)
             \/ /\ ~Exists(i) /\ sess[s].op \notin {"stamp", "unstamp"}
                /\ SkipRow(s, i)
             \/ /\ ~Exists(i) /\ sess[s].op \in {"stamp", "unstamp"}
                /\ End(s)
    /\ DBUnchanged

\* submit_reseller_payment: any invoice no longer payable rejects the whole set.
SubmitLock(s) ==
    /\ sess[s].op = "submit" /\ sess[s].phase = "lock"
    /\ \E i \in Invoices :
          /\ NextLock(s, i)
          /\ \/ /\ inv[i] \in Owed /\ RowFree(i)
                /\ TakeRow(s, i)
             \/ /\ inv[i] \notin Owed /\ (Exists(i) => RowFree(i))
                /\ End(s)
    /\ DBUnchanged

Locked(s, ops) == sess[s].op \in ops /\ sess[s].phase = "lock" /\ sess[s].todo = {}
Deciding(s, ops) == sess[s].op \in ops /\ sess[s].phase = "commit"

-----------------------------------------------------------------------------
(* A reseller submits a payment.                                           *)

\* A tx hash: a new one, or a rejected payment re-opened with a new or its old set.
SubmitTxid(s, p, C) ==
    /\ "submit" \in Ops /\ IsIdle(s)
    /\ \/ /\ pay[p].status = "unused"
          /\ \A t \in Sessions : sess[t].p = p => sess[t].kind = "txid"
          /\ Goto(s, Locking("submit", p, "txid", {}, C, C, {}))
       \/ /\ pay[p].status = "rejected" /\ pay[p].kind = "txid" /\ PayFree(p)
          /\ Goto(s, Locking("submit", p, "txid", {p}, C, C, {}))
    /\ DBUnchanged

SubmitScreenshot(s, p, C) ==
    /\ "submit" \in Ops /\ IsIdle(s) /\ Fresh(p)
    /\ Goto(s, Locking("submit", p, "screenshot", {}, C, C, {}))
    /\ DBUnchanged

\* Mutant of HeldByPending: only the primary invoice of a payment is looked at.
HeldByPrimary(C) ==
    \E q \in Payments : pay[q].status = "pending" /\ Min(pay[q].cover) \in C

\* _pending_invoice_ids_in_sets. Its reseller filter never drops a row here: the
\* invoices of a submission and of the payments that hold them are all those of
\* the submitting customer's own resellers.
HeldByPending(C) ==
    \E q \in Payments : pay[q].status = "pending" /\ pay[q].cover \cap C # {}

SubmitDecide(s) ==
    /\ Locked(s, {"submit"})
    /\ IF HeldByPending(sess[s].cover) THEN End(s)
       ELSE Decided(s, {}, "pending")
    /\ DBUnchanged

\* A new hash inserted meanwhile by another session hits the unique constraint.
SubmitCommit(s) ==
    /\ Deciding(s, {"submit"})
    /\ LET p == sess[s].p
       IN  IF pay[p].status = "unused" \/ p \in sess[s].pays
           THEN pay' = [pay EXCEPT ![p] = [status |-> "pending", kind |-> sess[s].kind,
                                           cover |-> sess[s].cover]]
           ELSE UNCHANGED pay
    /\ End(s)
    /\ UNCHANGED <<inv, sentAt, ledger, suspended>>

\* discard_unproven_screenshot
DiscardProof(p) ==
    /\ "discardProof" \in Ops
    /\ pay[p].status = "pending" /\ pay[p].kind = "screenshot" /\ PayFree(p)
    /\ SetPayment(p, "deleted")
    /\ UNCHANGED <<inv, sentAt, ledger, suspended, sess>>

-----------------------------------------------------------------------------
(* The owner's and the chain's decisions on a payment: the payment row is  *)
(* locked first, then the invoices it covers.                              *)

Open(s, op, p) == Goto(s, Locking(op, p, pay[p].kind, {p}, {}, pay[p].cover, {}))

\* confirm_manually and reject_payment work on a payment in any state.
Confirm(s, p) ==
    /\ "confirm" \in Ops /\ IsIdle(s)
    /\ pay[p].status \in {"pending", "confirmed", "rejected"} /\ PayFree(p)
    /\ Open(s, "confirm", p)
    /\ DBUnchanged

Reject(s, p) ==
    /\ "reject" \in Ops /\ IsIdle(s)
    /\ pay[p].status \in {"pending", "confirmed", "rejected"} /\ PayFree(p)
    /\ Open(s, "reject", p)
    /\ DBUnchanged

\* try_auto_confirm: the chain is read, without a lock, for the set the payment
\* covers now; a set the deposit does not match ends the attempt.
AutoRead(s, p) ==
    /\ "auto" \in Ops /\ IsIdle(s)
    /\ pay[p].status = "pending" /\ pay[p].kind = "txid"
    /\ Goto(s, Waiting("auto", p, pay[p].cover, {}, "none"))
    /\ DBUnchanged

\* _confirm_payment with require_pending
AutoLock(s) ==
    /\ sess[s].op = "auto" /\ sess[s].phase = "wait"
    /\ PayFree(sess[s].p)
    /\ IF pay[sess[s].p].status = "pending"
       THEN HoldPayments(s, {sess[s].p}, pay[sess[s].p].cover)
       ELSE End(s)
    /\ DBUnchanged

\* verify_payment: a transaction not found or with too few confirmations leaves
\* the payment pending, a wrong address or token rejects it.
VerifyEarly(p, status) ==
    /\ "verify" \in Ops
    /\ pay[p].status \in {"pending", "rejected"} /\ pay[p].kind = "txid" /\ PayFree(p)
    /\ SetPayment(p, status)
    /\ UNCHANGED <<inv, sentAt, ledger, suspended, sess>>

Verify(s, p) ==
    /\ "verify" \in Ops /\ IsIdle(s)
    /\ pay[p].status \in {"pending", "rejected"} /\ pay[p].kind = "txid" /\ PayFree(p)
    /\ Open(s, "verify", p)
    /\ DBUnchanged

\* delete_payment reverts what a confirmed payment settled, and drops the row.
Delete(s, p) ==
    /\ "delete" \in Ops /\ IsIdle(s)
    /\ pay[p].status = "confirmed" /\ PayFree(p)
    /\ Open(s, "delete", p)
    /\ DBUnchanged

DeleteUnsettled(p) ==
    /\ "delete" \in Ops
    /\ pay[p].status \in {"pending", "rejected"} /\ PayFree(p)
    /\ SetPayment(p, "deleted")
    /\ UNCHANGED <<inv, sentAt, ledger, suspended, sess>>

Cover(s) == pay[sess[s].p].cover
OwedMembers(s) == {i \in Cover(s) : inv[i] \in Owed}

\* Mutant of ConfirmDecide: only a vanished member refuses the set.
ConfirmDecideAnyMember(s) ==
    /\ Locked(s, {"confirm", "auto"})
    /\ IF \E i \in Cover(s) : inv[i] = "gone" THEN End(s)
       ELSE Decided(s, OwedMembers(s), "confirmed")
    /\ DBUnchanged

\* _confirm_payment refuses a set with a draft, canceled or vanished member.
ConfirmDecide(s) ==
    /\ Locked(s, {"confirm", "auto"})
    /\ IF \E i \in Cover(s) : inv[i] \in {"draft", "canceled", "gone"} THEN End(s)
       ELSE Decided(s, OwedMembers(s), "confirmed")
    /\ DBUnchanged

\* The still-owed members are the targets.  Without one the payment is closed
\* only when its whole set is paid; otherwise the deposit covers their sum, is
\* too low, or the sum is zero and the owner has to look.
VerifyDecide(s) ==
    /\ Locked(s, {"verify"})
    /\ \/ /\ OwedMembers(s) # {}
          /\ \/ Decided(s, OwedMembers(s), "confirmed")
             \/ \E verdict \in {"pending", "rejected"} : Decided(s, {}, verdict)
       \/ /\ OwedMembers(s) = {}
          /\ Decided(s, {},
                     IF \A i \in Cover(s) : inv[i] = "paid" THEN "confirmed" ELSE "pending")
    /\ DBUnchanged

\* Mutant of SettledByOther: the other payments are not asked.
SettledByNoOther(i, p) == FALSE

\* _settled_by_other_confirmed
SettledByOther(i, p) ==
    \E q \in Payments \ {p} : pay[q].status = "confirmed" /\ i \in pay[q].cover

\* Mutant of RevertDecide: the old status is read after it was overwritten.
RevertDecideNothing(s) ==
    /\ Locked(s, {"reject", "delete"})
    /\ Decided(s, {}, IF sess[s].op = "reject" THEN "rejected" ELSE "deleted")
    /\ DBUnchanged

\* _revert_settled_invoices
RevertDecide(s) ==
    /\ Locked(s, {"reject", "delete"})
    /\ LET p == sess[s].p
           settled == {i \in Cover(s) : inv[i] = "paid" /\ ~SettledByOther(i, p)}
       IN  Decided(s, IF pay[p].status = "confirmed" THEN settled ELSE {},
                   IF sess[s].op = "reject" THEN "rejected" ELSE "deleted")
    /\ DBUnchanged

\* _mark_invoices_paid, the new status and the commit
ConfirmCommit(s) ==
    /\ Deciding(s, {"confirm", "auto", "verify"})
    /\ SetInvoices(sess[s].mem, "paid")
    /\ Record(sess[s].mem, "paid", TxOf(sess[s].p))
    /\ SetPayment(sess[s].p, sess[s].seen)
    /\ End(s)
    /\ UNCHANGED <<sentAt, suspended>>

RevertCommit(s) ==
    /\ Deciding(s, {"reject", "delete"})
    /\ SetInvoices(sess[s].mem, "sent")
    /\ Record(sess[s].mem, "sent", NoPay)
    /\ SetPayment(sess[s].p, sess[s].seen)
    /\ End(s)
    /\ UNCHANGED <<sentAt, suspended>>

-----------------------------------------------------------------------------
(* The owner's invoice routes.                                             *)

\* mark_paid, with the confirmed manual payment record_manual_payment adds
MarkPaid(i, q) ==
    /\ "markPaid" \in Ops
    /\ inv[i] \in Owed /\ RowFree(i) /\ Fresh(q)
    /\ SetInvoices({i}, "paid")
    /\ Record({i}, "paid", NoPay)
    /\ pay' = [pay EXCEPT ![q] = [status |-> "confirmed", kind |-> "manual", cover |-> {i}]]
    /\ UNCHANGED <<sentAt, suspended, sess>>

\* unmark_paid checks the invoice on an unlocked read ...
UnmarkRead(s, i) ==
    /\ "unmark" \in Ops /\ IsIdle(s) /\ inv[i] = "paid"
    /\ Goto(s, Waiting("unmark", NoPay, {i}, {}, "none"))
    /\ DBUnchanged

Manual(i) ==
    {q \in Payments : /\ pay[q].kind = "manual" /\ pay[q].status = "confirmed"
                      /\ pay[q].cover = {i}}

\* ... retire_manual_payments locks the manual payments behind it, ...
UnmarkRetire(s) ==
    /\ sess[s].op = "unmark" /\ sess[s].phase = "wait"
    /\ \E i \in sess[s].cover :
          /\ \A q \in Manual(i) : PayFree(q)
          /\ HoldPayments(s, Manual(i), {i})
    /\ DBUnchanged

\* Mutant of UnmarkDecide: the unlocked check is trusted.
UnmarkDecideUnchecked(s) ==
    /\ Locked(s, {"unmark"})
    /\ Decided(s, sess[s].cover, "sent")
    /\ DBUnchanged

\* ... and the invoice is checked again under its lock.
UnmarkDecide(s) ==
    /\ Locked(s, {"unmark"})
    /\ IF \A i \in sess[s].cover : inv[i] = "paid"
       THEN Decided(s, sess[s].cover, "sent")
       ELSE End(s)
    /\ DBUnchanged

UnmarkCommit(s) ==
    /\ Deciding(s, {"unmark"})
    /\ \E i \in sess[s].mem :
          LET status == IF sentAt[i] THEN "sent" ELSE "draft"
          IN  SetInvoices({i}, status) /\ Record({i}, status, NoPay)
    /\ pay' = [q \in Payments |->
                 IF q \in sess[s].pays THEN [pay[q] EXCEPT !.status = "rejected"] ELSE pay[q]]
    /\ End(s)
    /\ UNCHANGED <<sentAt, suspended>>

\* cancel
Cancel(i) ==
    /\ "cancel" \in Ops
    /\ inv[i] \notin {"paid", "gone"} /\ RowFree(i)
    /\ SetInvoices({i}, "canceled")
    /\ Record({i}, "canceled", NoPay)
    /\ UNCHANGED <<sentAt, pay, suspended, sess>>

\* revert_to_draft
RevertToDraft(i) ==
    /\ "revert" \in Ops
    /\ inv[i] \notin {"paid", "gone"} /\ RowFree(i)
    /\ SetInvoices({i}, "draft")
    /\ Record({i}, "draft", NoPay)
    /\ sentAt' = [sentAt EXCEPT ![i] = FALSE]
    /\ UNCHANGED <<pay, suspended, sess>>

\* edit_invoice writes the ledger row again; amounts are not modelled.
Edit(i) ==
    /\ "edit" \in Ops
    /\ inv[i] \notin {"paid", "canceled", "gone"} /\ RowFree(i)
    /\ Record({i}, inv[i], NoPay)
    /\ UNCHANGED <<inv, sentAt, pay, suspended, sess>>

-----------------------------------------------------------------------------
(* Writers that read without a lock.                                       *)

Running(op) == \E t \in Sessions : sess[t].op = op

\* _send_invoice, under a per-invoice advisory lock: the invoice and its reseller
\* are read, the message goes out, ...
SendRead(s, i) ==
    /\ "send" \in Ops /\ IsIdle(s) /\ inv[i] = "draft"
    /\ \A t \in Sessions : sess[t].op = "send" => i \notin sess[t].mem
    /\ Goto(s, Waiting("send", NoPay, {}, {i},
                       IF suspended[OwnerOf[i]] THEN "enforced" ELSE "sent"))
    /\ DBUnchanged

\* ... and the invoice becomes sent.  An undelivered message changes nothing.
SendCommit(s) ==
    /\ sess[s].op = "send"
    /\ \E i \in sess[s].mem :
          IF Exists(i)
          THEN /\ RowFree(i)
               /\ SetInvoices({i}, sess[s].seen)
               /\ Record({i}, sess[s].seen, NoPay)
               /\ sentAt' = [sentAt EXCEPT ![i] = TRUE]
          ELSE UNCHANGED <<inv, ledger, sentAt>>
    /\ End(s)
    /\ UNCHANGED <<pay, suspended>>

SendFail(s) == sess[s].op = "send" /\ End(s) /\ DBUnchanged

\* run_dunning reads the delivered debts once.  Those of a pending payment are
\* held, unless the payment is older than pending_payment_hold_days.
DunningRead(s) ==
    /\ "dunning" \in Ops /\ IsIdle(s) /\ ~Running("dunning")
    /\ \E expired \in SUBSET {q \in Payments : pay[q].status = "pending"} :
          LET held == {i \in Invoices : \E q \in Payments \ expired :
                                           pay[q].status = "pending" /\ i \in pay[q].cover}
          IN  Goto(s, Waiting("dunning", NoPay, {},
                        {i \in Invoices : inv[i] = "sent" /\ sentAt[i]} \ held, "none"))
    /\ DBUnchanged

\* After the hard warning went out, a debt that was sent when read turns overdue.
DunningFlip(s, i) ==
    /\ sess[s].op = "dunning" /\ i \in sess[s].mem /\ Exists(i) /\ RowFree(i)
    /\ SetInvoices({i}, "overdue")
    /\ Record({i}, "overdue", NoPay)
    /\ Goto(s, [sess[s] EXCEPT !.mem = @ \ {i}])
    /\ UNCHANGED <<sentAt, pay, suspended>>

\* Most debts are not due for a warning; a row that is gone aborts the run.
DunningEnd(s) == sess[s].op = "dunning" /\ End(s) /\ DBUnchanged

InvoicesOf(r) == {i \in Invoices : OwnerOf[i] = r}

\* The last step of a suspension stamps every owed invoice of the reseller, the
\* last step of a restore takes the stamps off; the flush locks ascending ids.
StampRead(s, r) ==
    /\ IsIdle(s)
    /\ \E op \in {"stamp", "unstamp"} \cap Ops :
          LET found == {i \in InvoicesOf(r) :
                          inv[i] \in IF op = "stamp" THEN {"sent", "overdue"} ELSE {"enforced"}}
          IN  Goto(s, Locking(op, NoPay, "txid", {}, InvoicesOf(r), found, found))
    /\ DBUnchanged

SetSuspended(s, value) ==
    suspended' = [r \in Resellers |->
                    IF \E i \in sess[s].cover : OwnerOf[i] = r THEN value ELSE suspended[r]]

StampCommit(s) ==
    /\ Locked(s, {"stamp"})
    /\ SetInvoices(sess[s].mem, "enforced")
    /\ Record(sess[s].mem, "enforced", NoPay)
    /\ SetSuspended(s, TRUE)
    /\ End(s)
    /\ UNCHANGED <<sentAt, pay>>

\* Each invoice goes back to its own dunning clock.
UnstampCommit(s) ==
    /\ Locked(s, {"unstamp"})
    /\ \E late \in SUBSET sess[s].mem :
          LET status(i) == IF i \in late THEN "overdue" ELSE "sent"
          IN  /\ inv' = [i \in Invoices |-> IF i \in sess[s].mem THEN status(i) ELSE inv[i]]
              /\ ledger' = [i \in Invoices |->
                              IF i \in sess[s].mem THEN Recorded(ledger[i], status(i), NoPay)
                              ELSE ledger[i]]
    /\ SetSuspended(s, FALSE)
    /\ End(s)
    /\ UNCHANGED <<sentAt, pay>>

\* defer_invoice: a past deadline keeps the status, another sends an overdue
\* invoice back to sent, and a suspended reseller may be restored with it.
WasEnforced(i) == inv[i] = "enforced" \/ suspended[OwnerOf[i]]

Defer(i) ==
    /\ "defer" \in Ops /\ inv[i] \in Owed /\ RowFree(i)
    /\ \E status \in {inv[i]} \cup (IF inv[i] = "overdue" \/ WasEnforced(i)
                                     THEN {"sent"} ELSE {}) :
          SetInvoices({i}, status) /\ Record({i}, status, NoPay)
    /\ UNCHANGED <<sentAt, pay, suspended, sess>>

\* When the restore is queued, queue_restore commits and so drops the row lock ...
DeferCommit(s, i) ==
    /\ "defer" \in Ops /\ IsIdle(s) /\ inv[i] \in Owed /\ RowFree(i) /\ WasEnforced(i)
    /\ LET status == IF inv[i] = "overdue" THEN "sent" ELSE inv[i]
       IN  /\ SetInvoices({i}, status)
           /\ Goto(s, Waiting("defer", NoPay, {}, {i}, status))
    /\ UNCHANGED <<sentAt, pay, ledger, suspended>>

\* ... before the rest is written: the status, if the object read was not sent
\* already, and the ledger row.
DeferTail(s) ==
    /\ sess[s].op = "defer"
    /\ \E i \in sess[s].mem :
          IF sess[s].seen = "sent"
          THEN UNCHANGED inv /\ Record({i}, "sent", NoPay)
          ELSE /\ Exists(i) => RowFree(i)
               /\ SetInvoices({i} \cap {j \in Invoices : Exists(j)}, "sent")
               /\ Record({i} \cap {j \in Invoices : Exists(j)}, "sent", NoPay)
    /\ End(s)
    /\ UNCHANGED <<sentAt, pay, suspended>>

\* recompute_invoice keeps the invoice it read while the panel is synced, and
\* then writes new amounts and the ledger row, status included.
RecomputeRead(s, i) ==
    /\ "recompute" \in Ops /\ IsIdle(s) /\ inv[i] \notin {"paid", "gone"}
    /\ Goto(s, Waiting("recompute", NoPay, {}, {i}, inv[i]))
    /\ DBUnchanged

RecomputeCommit(s) ==
    /\ sess[s].op = "recompute" /\ ~Running("discard")
    /\ \E i \in sess[s].mem :
          /\ Exists(i) => RowFree(i)
          /\ Record({i} \cap {j \in Invoices : Exists(j)}, sess[s].seen, NoPay)
    /\ End(s)
    /\ UNCHANGED <<inv, sentAt, pay, suspended>>

\* A panel that does not sync leaves the invoice alone.
RecomputeFail(s) == sess[s].op = "recompute" /\ End(s) /\ DBUnchanged

\* discard_drafts reads the ids of the drafts, under the billing advisory lock,
\* and deletes the rows with these ids.
DiscardRead(s) ==
    /\ "discard" \in Ops /\ IsIdle(s) /\ ~Running("discard")
    /\ \E S \in SUBSET {i \in Invoices : inv[i] = "draft"} \ {{}} :
          Goto(s, Locking("discard", NoPay, "txid", {}, {}, S, S))
    /\ DBUnchanged

\* Payments whose primary invoice (the first of the set) is among S: deleting the
\* invoice updates them, ON DELETE SET NULL, and so needs their row locks.
PrimaryIn(S) ==
    {q \in Payments : /\ pay[q].status \notin {"unused", "deleted"}
                      /\ pay[q].cover # {} /\ Min(pay[q].cover) \in S}

\* A ledger row that appeared after the ledger was cleared stays.
DiscardCommit(s) ==
    /\ Locked(s, {"discard"})
    /\ \A q \in PrimaryIn(sess[s].mem) : PayFree(q)
    /\ SetInvoices(sess[s].mem, "gone")
    /\ \E wiped \in SUBSET sess[s].mem :
          ledger' = [i \in Invoices |-> IF i \in wiped THEN NoRow ELSE ledger[i]]
    /\ End(s)
    /\ UNCHANGED <<sentAt, pay, suspended>>

-----------------------------------------------------------------------------
(* Waiting for locks.                                                      *)

WaitsFor(s, t) ==
    \/ sess[s].phase = "lock" /\ \E i \in sess[t].rows : NextLock(s, i)
    \/ /\ sess[s].op = "auto" /\ sess[s].phase = "wait" /\ sess[s].p \in sess[t].pays
    \/ /\ sess[s].op = "unmark" /\ sess[s].phase = "wait"
       /\ \E i \in sess[s].cover : Manual(i) \cap sess[t].pays # {}
    \/ Locked(s, {"discard"}) /\ PrimaryIn(sess[s].mem) \cap sess[t].pays # {}

\* A nonempty set of sessions none of which can go on before another one does.
Deadlocked(D) == D # {} /\ \A s \in D : \E t \in D \ {s} : WaitsFor(s, t)

\* The database rolls one of them back.
DeadlockVictim(s) ==
    /\ \E D \in SUBSET Sessions : s \in D /\ Deadlocked(D)
    /\ End(s)
    /\ DBUnchanged

-----------------------------------------------------------------------------
\* Steps that need a lock, and the other steps of a handler under way.
Acquire(s) ==
    \/ LockInvoice(s) \/ SubmitLock(s) \/ AutoLock(s) \/ UnmarkRetire(s)
    \/ SendCommit(s) \/ DeferTail(s) \/ RecomputeCommit(s) \/ DiscardCommit(s)

Proceed(s) ==
    \/ SubmitDecide(s) \/ SubmitCommit(s)
    \/ ConfirmDecide(s) \/ VerifyDecide(s) \/ RevertDecide(s) \/ UnmarkDecide(s)
    \/ ConfirmCommit(s) \/ RevertCommit(s) \/ UnmarkCommit(s)
    \/ StampCommit(s) \/ UnstampCommit(s)
    \/ SendFail(s) \/ DunningEnd(s) \/ RecomputeFail(s)
    \/ DeadlockVictim(s)

Request(s) ==
    \/ \E p \in Payments :
          \/ \E C \in SUBSET Invoices \ {{}} : SubmitTxid(s, p, C) \/ SubmitScreenshot(s, p, C)
          \/ Confirm(s, p) \/ Reject(s, p) \/ AutoRead(s, p) \/ Verify(s, p) \/ Delete(s, p)
    \/ \E i \in Invoices :
          \/ UnmarkRead(s, i) \/ SendRead(s, i) \/ DeferCommit(s, i) \/ RecomputeRead(s, i)
          \/ DunningFlip(s, i)
    \/ \E r \in Resellers : StampRead(s, r)
    \/ DunningRead(s) \/ DiscardRead(s)

Atomic ==
    \/ \E p \in Payments :
          \/ DiscardProof(p) \/ DeleteUnsettled(p)
          \/ \E status \in {"pending", "rejected"} : VerifyEarly(p, status)
          \/ \E i \in Invoices : MarkPaid(i, p)
    \/ \E i \in Invoices : Cancel(i) \/ RevertToDraft(i) \/ Edit(i) \/ Defer(i)

Next == Atomic \/ \E s \in Sessions : Request(s) \/ Acquire(s) \/ Proceed(s)

Spec == Init /\ [][Next]_vars

(***************************************************************************)
(* A handler runs on until it ends, and lock queues are first come, first  *)
(* served, so a lock that is free again and again is granted.              *)
(***************************************************************************)
Fairness == \A s \in Sessions : WF_vars(Proceed(s)) /\ SF_vars(Acquire(s))

FairSpec == Spec /\ Fairness

-----------------------------------------------------------------------------
(* What every session can rely on between its steps: the inductive          *)
(* invariant behind PaidIsBacked and ReversalSparesOthers.                  *)

Settling == {"confirm", "auto", "verify"}
Reversing == {"reject", "delete"}

\* No two sessions hold the same row lock.
LocksExclusive ==
    \A s, t \in Sessions :
        s # t => /\ sess[s].rows \cap sess[t].rows = {}
                 /\ sess[s].pays \cap sess[t].pays = {}

Backers(i) == {q \in Payments : pay[q].status = "confirmed" /\ i \in pay[q].cover}

\* Locked rows exist; the rows a flush is about to write are locked or still to be
\* locked, those of a DELETE may be gone.
RowsHeld(s) ==
    /\ \A i \in sess[s].rows : inv[i] # "gone"
    /\ \A q \in sess[s].pays : pay[q].status # "unused"
    /\ sess[s].op \in {"stamp", "unstamp"} => sess[s].mem \subseteq sess[s].todo \cup sess[s].rows
    /\ sess[s].op = "discard"
       => \A i \in sess[s].mem : i \in sess[s].todo \cup sess[s].rows \/ inv[i] = "gone"

\* A session works on the payment it locked, and what it has not locked of the
\* payment's set is still to be locked or gone.
PaymentHeld(s) ==
    sess[s].op \in Settling \cup Reversing
    => /\ sess[s].p \in Payments
       /\ sess[s].phase = "wait" => sess[s].op = "auto"
       /\ sess[s].phase \in {"lock", "commit"}
          => /\ sess[s].p \in sess[s].pays
             /\ \A i \in pay[sess[s].p].cover :
                   i \in sess[s].todo \cup sess[s].rows \/ inv[i] = "gone"
             /\ sess[s].op = "verify" => pay[sess[s].p].status # "confirmed"
             /\ sess[s].phase = "commit" => sess[s].todo = {}

\* A settlement writes invoices of its payment, and then confirms it.
SettlementDecided(s) ==
    sess[s].op \in Settling /\ sess[s].phase = "commit"
    => /\ sess[s].mem \subseteq pay[sess[s].p].cover /\ sess[s].mem \subseteq sess[s].rows
       /\ sess[s].seen \in {"confirmed", "pending", "rejected"}
       /\ sess[s].mem # {} \/ sess[s].op # "verify" => sess[s].seen = "confirmed"

\* A reversal un-pays exactly the invoices its payment alone settles.
ReversalDecided(s) ==
    sess[s].op \in Reversing /\ sess[s].phase = "commit"
    => /\ sess[s].seen \in {"rejected", "deleted"}
       /\ sess[s].mem \subseteq sess[s].rows
       /\ \A i \in pay[sess[s].p].cover \ sess[s].mem :
             inv[i] = "paid" => Backers(i) # {sess[s].p}
       /\ \A i \in sess[s].mem : Backers(i) \subseteq {sess[s].p}

\* A submission changes a payment it inserts or a rejected one it locked.
SubmissionHeld(s) ==
    sess[s].op = "submit"
    => /\ sess[s].p \in Payments
       /\ sess[s].pays \subseteq {sess[s].p}
       /\ \A q \in sess[s].pays : pay[q].status = "rejected"

\* Unmarking takes back payments of its invoice alone.
UnmarkHeld(s) ==
    sess[s].op = "unmark"
    => /\ \E i \in Invoices : sess[s].cover = {i}
       /\ \A q \in sess[s].pays : pay[q].status = "confirmed" /\ pay[q].cover = sess[s].cover
       /\ sess[s].phase = "lock"
          => \A i \in sess[s].cover : i \in sess[s].todo \cup sess[s].rows \/ inv[i] = "gone"
       /\ sess[s].phase = "commit"
          => sess[s].mem = sess[s].cover /\ sess[s].mem \subseteq sess[s].rows

\* What the other writers remember is a status they may write.
StatusRemembered(s) ==
    /\ sess[s].op = "send" => sess[s].seen \in {"sent", "enforced"}
    /\ sess[s].op = "recompute" => sess[s].seen \in InvoiceStatus \ {"paid", "gone"}

-----------------------------------------------------------------------------
(* Properties.                                                             *)

\* Every paid invoice is covered by a confirmed payment, whatever runs at the same
\* time: confirming, verifying and mark_paid write both, and reject, delete and
\* unmark take both back (payments.py, "we never leave a paid invoice with no
\* payment behind it").
PaidIsBacked ==
    \A i \in Invoices :
        inv[i] = "paid" => \E p \in Payments : pay[p].status = "confirmed" /\ i \in pay[p].cover

SessionSound(s) ==
    /\ RowsHeld(s) /\ PaymentHeld(s) /\ SettlementDecided(s) /\ ReversalDecided(s)
    /\ SubmissionHeld(s) /\ UnmarkHeld(s) /\ StatusRemembered(s)

IInv ==
    /\ TypeOK /\ LocksExclusive /\ PaidIsBacked
    /\ \A s \in Sessions : SessionSound(s)

\* A session that waits holds no lock, and what it has locked comes before what it has
\* still to lock.
LockOrder(s) ==
    /\ sess[s].phase \notin {"lock", "commit"} => sess[s].rows = {} /\ sess[s].pays = {}
    /\ \A i \in sess[s].rows, j \in sess[s].todo : i < j

\* A confirmation holds its whole set, owed or paid already, and writes what is owed.
ConfirmReady(s) ==
    sess[s].op \in {"confirm", "auto"} /\ sess[s].phase = "commit"
    => \A i \in Cover(s) : /\ i \in sess[s].rows
                           /\ IF i \in sess[s].mem THEN inv[i] \in Owed ELSE inv[i] = "paid"

\* A reversal un-pays only what its payment has paid, and an unmarking only what is paid.
ReversalReady(s) ==
    sess[s].op \in Reversing /\ sess[s].phase = "commit"
    => \A i \in sess[s].mem :
          inv[i] = "paid" /\ i \in Cover(s) /\ pay[sess[s].p].status = "confirmed"
UnmarkReady(s) ==
    sess[s].op = "unmark" /\ sess[s].phase = "commit"
    => \A i \in sess[s].mem : inv[i] = "paid"

\* A submission holds every row it asks for before it looks at the pending payments, and
\* none of them gets one of its rows before it commits.
SubmitReady(s) ==
    sess[s].op = "submit"
    => /\ sess[s].phase \in {"lock", "commit"}
       /\ sess[s].cover \subseteq sess[s].rows \cup sess[s].todo
       /\ sess[s].phase = "commit" => sess[s].todo = {} /\ ~HeldByPending(sess[s].cover)

Careful(s) == LockOrder(s) /\ ConfirmReady(s) /\ ReversalReady(s) /\ UnmarkReady(s)

\* An invoice is in at most one pending payment: two submissions for overlapping
\* sets cannot both pass _pending_invoice_ids_in_sets.
OnePendingPerInvoice ==
    \A p, q \in Payments :
        /\ pay[p].status = "pending" /\ pay[q].status = "pending" /\ p # q
        => pay[p].cover \cap pay[q].cover = {}

\* The durable ledger shows the status of every delivered invoice, nothing for a
\* draft, and a transaction hash only against a paid invoice (financial_archive.py).
LedgerMirrors ==
    \A i \in Invoices :
        /\ ledger[i].status = IF inv[i] \in {"draft", "gone"} THEN "none" ELSE inv[i]
        /\ ledger[i].tx # NoPay => inv[i] = "paid"

\* No handlers wait for each other's locks: payments before invoices, invoices in
\* ascending order (payments.py, _lock_invoices).
NoDeadlock == \A D \in SUBSET Sessions : ~Deadlocked(D)

\* A payment that becomes confirmed leaves its whole set paid, although the set was
\* chosen and the invoices were checked in earlier steps (_confirm_payment).
ConfirmSettlesAll ==
    [][\A p \in Payments :
         pay[p].status # "confirmed" /\ pay'[p].status = "confirmed"
           => \A i \in pay'[p].cover : inv'[i] = "paid"]_vars

\* Rejecting or deleting a payment never un-pays an invoice that another confirmed
\* payment covers when the reversal commits (_settled_by_other_confirmed).
ReversalSparesOthers ==
    [][\A s \in Sessions : \A i \in Invoices :
         /\ sess[s].op \in {"reject", "delete"} /\ IsIdle(s)'
         /\ inv[i] = "paid" /\ inv'[i] # "paid"
         => \A q \in Payments : ~(pay'[q].status = "confirmed" /\ i \in pay'[q].cover)]_vars

\* An invoice leaves paid only when a handler takes a payment back: reject, delete
\* or unmark (invoice_state.py: paid leaves only by an explicit unmark).
PaidLeavesByReversal ==
    [][\A i \in Invoices :
         inv[i] = "paid" /\ inv'[i] # "paid"
           => \E s \in Sessions : sess[s].op \in {"reject", "delete", "unmark"} /\ IsIdle(s)']_vars

\* An automatic confirmation settles the set the chain was asked about
\* (_auto_confirm_verdict compares the deposit with the sum of that set).
AutoSettlesCheckedSet ==
    [][\A s \in Sessions :
         sess[s].op = "auto" /\ sess[s].phase = "commit" /\ IsIdle(s)'
           => pay[sess[s].p].cover = sess[s].cover]_vars

\* Discarding deletes drafts only (discard_drafts).
DiscardsOnlyDrafts ==
    [][\A i \in Invoices : Exists(i) /\ inv'[i] = "gone" => inv[i] = "draft"]_vars

\* Every handler that starts ends: its locks come free and no wait is circular.
HandlersFinish == \A s \in Sessions : ~IsIdle(s) ~> IsIdle(s)

\* With the handlers that lock what they write, the system implements the contract
\* of SettlementContract: settling and reversing look like single steps.
Settles(p) == IF pay[p].status = "confirmed" THEN pay[p].cover ELSE {}

Contract == INSTANCE SettlementContract WITH
                status <- inv, settles <- [p \in Payments |-> Settles(p)]

ImplementsContract == Contract!Spec

=============================================================================
