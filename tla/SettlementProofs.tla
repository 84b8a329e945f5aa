-------------------------- MODULE SettlementProofs --------------------------
(***************************************************************************)
(* Proofs about Settlement, for any sets of invoices, payments, resellers  *)
(* and sessions, and any set of handlers: types and backing; and what its  *)
(* row locks buy: no circular waits, whole settlements, one pending        *)
(* payment per invoice, a ledger that shows the invoices, and the contract *)
(* of SettlementContract. Each theorem names the handlers it has to do     *)
(* without.                                                                *)
(***************************************************************************)
EXTENDS Settlement, FiniteSetTheorems, TLAPS

-----------------------------------------------------------------------------
(* Sessions that do not move.                                              *)

\* What Frame asks of a step, for a session t.
Undisturbed(t) ==
    /\ \A i \in sess[t].rows : inv'[i] = inv[i] /\ Backers(i)' = Backers(i)
    /\ \A q \in sess[t].pays : pay'[q] = pay[q]

NoneRevived == \A i \in Invoices : inv[i] = "gone" => inv'[i] = "gone"

\* A session that does not move finds what it has locked as it left it.
Calm == NoneRevived /\ \A t \in Sessions : sess'[t] = sess[t] => Undisturbed(t)

\* What a session relies on survives a step that leaves its locked rows, its locked
\* payments and the confirmed payments of its locked rows alone, and revives no row.
LEMMA Frame ==
    ASSUME IInv, NEW t \in Sessions, sess'[t] = sess[t],
           \A i \in sess[t].rows : inv'[i] = inv[i],
           \A i \in Invoices : inv[i] = "gone" => inv'[i] = "gone",
           \A q \in sess[t].pays : pay'[q] = pay[q],
           \A i \in sess[t].rows : Backers(i)' = Backers(i)
    PROVE  SessionSound(t)'
<1> USE DEF IInv, SessionSound
<1>0. /\ sess[t] \in Session /\ inv \in [Invoices -> InvoiceStatus]
  BY DEF TypeOK
<1>1. RowsHeld(t)'
  BY <1>0, SMT DEF RowsHeld, Session
<1>2. PaymentHeld(t)'
  BY <1>0, SMT DEF PaymentHeld, Session, TypeOK, PaymentRow, Settling, Reversing
<1>3. SettlementDecided(t)'
  BY <1>0, SMT DEF SettlementDecided, PaymentHeld, Session, Settling
<1>4. ReversalDecided(t)'
  <2> SUFFICES ASSUME sess[t].op \in Reversing, sess[t].phase = "commit"
               PROVE  ReversalDecided(t)'
    BY DEF ReversalDecided
  <2> DEFINE p == sess[t].p
  <2>1. /\ p \in Payments /\ p \in sess[t].pays /\ pay'[p] = pay[p] /\ sess[t].todo = {}
        /\ \A i \in pay[p].cover : i \in sess[t].rows \/ inv[i] = "gone"
    BY SMT DEF PaymentHeld
  <2>2. \A i \in pay[p].cover : inv'[i] = "paid" => i \in sess[t].rows /\ inv[i] = "paid"
    BY <1>0, <2>1, SMT DEF TypeOK, PaymentRow
  <2>3. \A i \in pay[p].cover \ sess[t].mem : inv'[i] = "paid" => Backers(i)' # {p}
    BY <2>2, SMT DEF ReversalDecided
  <2>4. \A i \in sess[t].mem : Backers(i)' \subseteq {p}
    BY SMT DEF ReversalDecided
  <2> QED
    BY <2>1, <2>3, <2>4 DEF ReversalDecided
<1>5. SubmissionHeld(t)'
  BY SMT DEF SubmissionHeld
<1>6. UnmarkHeld(t)'
  BY <1>0, SMT DEF UnmarkHeld, Session
<1>7. StatusRemembered(t)'
  BY DEF StatusRemembered
<1> QED
  BY <1>1, <1>2, <1>3, <1>4, <1>5, <1>6, <1>7

\* A session that ended relies on nothing.
LEMMA IdleSound ==
    ASSUME NEW s \in Sessions, sess'[s] = Idle
    PROVE  SessionSound(s)'
  BY SMT DEF SessionSound, Idle, RowsHeld, PaymentHeld, SettlementDecided, ReversalDecided,
         SubmissionHeld, UnmarkHeld, StatusRemembered, Settling, Reversing

\* A step of one session that leaves the database alone.
LEMMA LocalStep ==
    ASSUME IInv, DBUnchanged, NEW s \in Sessions,
           sess' \in [Sessions -> Session],
           \A t \in Sessions \ {s} : sess'[t] = sess[t],
           \A t \in Sessions \ {s} : /\ sess'[s].rows \cap sess[t].rows = {}
                                     /\ sess'[s].pays \cap sess[t].pays = {},
           SessionSound(s)'
    PROVE  IInv' /\ Calm
<1>1. TypeOK'
  BY DEF IInv, TypeOK, DBUnchanged
<1>2. LocksExclusive'
  BY SMT DEF IInv, LocksExclusive
<1>3. PaidIsBacked'
  BY DEF IInv, PaidIsBacked, DBUnchanged
<1>4. ASSUME NEW t \in Sessions PROVE SessionSound(t)'
  <2>1. CASE t = s
    BY <2>1
  <2>2. CASE t # s
    <3>1. \A i : Backers(i)' = Backers(i)
      BY DEF Backers, DBUnchanged
    <3> QED
      BY <2>2, <3>1, Frame DEF DBUnchanged
  <2> QED
    BY <2>1, <2>2
<1>5. Calm
  BY DEF Calm, NoneRevived, Undisturbed, Backers, DBUnchanged
<1> QED
  BY <1>1, <1>2, <1>3, <1>4, <1>5 DEF IInv

\* A session that ends without writing.
LEMMA EndStep ==
    ASSUME IInv, DBUnchanged, NEW s \in Sessions, NoPay \notin Payments, End(s)
    PROVE  IInv' /\ Calm
<1>1. /\ Idle \in Session /\ sess \in [Sessions -> Session]
  BY SMT DEF Idle, Session, Kind, IInv, TypeOK
<1>2. /\ sess' \in [Sessions -> Session] /\ sess'[s] = Idle
      /\ \A t \in Sessions \ {s} : sess'[t] = sess[t]
  BY <1>1, SMT DEF End, Goto
<1>3. SessionSound(s)'
  BY <1>2, IdleSound
<1>4. Idle.rows = {} /\ Idle.pays = {}
  BY DEF Idle
<1> QED
  BY <1>2, <1>3, <1>4, LocalStep

\* Where a session goes stays typed, and the other sessions stay where they are.
LEMMA GotoTyped ==
    ASSUME TypeOK, NEW s \in Sessions, NEW r \in Session, Goto(s, r)
    PROVE  /\ sess' \in [Sessions -> Session] /\ sess'[s] = r
           /\ \A t \in Sessions \ {s} : sess'[t] = sess[t]
  BY SMT DEF TypeOK, Goto

LEMMA DecidedTyped ==
    ASSUME TypeOK, NEW s \in Sessions, NEW mem \in SUBSET Invoices,
           NEW seen \in InvoiceStatus \cup PaymentStatus, Decided(s, mem, seen)
    PROVE  /\ sess' \in [Sessions -> Session]
           /\ \A t \in Sessions \ {s} : sess'[t] = sess[t]
           /\ sess'[s].phase = "commit" /\ sess'[s].mem = mem /\ sess'[s].seen = seen
           /\ sess'[s].op = sess[s].op /\ sess'[s].p = sess[s].p
           /\ sess'[s].cover = sess[s].cover /\ sess'[s].pays = sess[s].pays
           /\ sess'[s].todo = sess[s].todo /\ sess'[s].rows = sess[s].rows
<1> DEFINE a == [sess[s] EXCEPT !.phase = "commit"]
           b == [a EXCEPT !.mem = mem]
           c == [b EXCEPT !.seen = seen]
<1>1. sess[s] \in Session
  BY DEF TypeOK
<1>2. /\ a \in Session /\ a.phase = "commit" /\ a.op = sess[s].op /\ a.p = sess[s].p
      /\ a.cover = sess[s].cover /\ a.pays = sess[s].pays
      /\ a.todo = sess[s].todo /\ a.rows = sess[s].rows
  BY <1>1, SMT DEF Session
<1>3. c = [sess[s] EXCEPT !.phase = "commit", !.mem = mem, !.seen = seen]
  BY SMT
<1> HIDE DEF a
<1>4. /\ b \in Session /\ b.phase = a.phase /\ b.op = a.op /\ b.p = a.p /\ b.mem = mem
      /\ b.cover = a.cover /\ b.pays = a.pays /\ b.todo = a.todo /\ b.rows = a.rows
  BY <1>2, SMT DEF Session
<1> HIDE DEF b
<1>5. /\ c \in Session /\ c.phase = b.phase /\ c.op = b.op /\ c.p = b.p /\ c.mem = b.mem
      /\ c.seen = seen /\ c.cover = b.cover /\ c.pays = b.pays /\ c.todo = b.todo
      /\ c.rows = b.rows
  BY <1>4, SMT DEF Session
<1> HIDE DEF c
<1>6. Goto(s, c)
  BY <1>3 DEF Decided
<1> QED
  BY <1>2, <1>4, <1>5, <1>6, GotoTyped

LEMMA HoldTyped ==
    ASSUME TypeOK, NEW s \in Sessions, NEW pays \in SUBSET Payments,
           NEW todo \in SUBSET Invoices, HoldPayments(s, pays, todo)
    PROVE  /\ sess' \in [Sessions -> Session]
           /\ \A t \in Sessions \ {s} : sess'[t] = sess[t]
           /\ sess'[s].phase = "lock" /\ sess'[s].pays = pays /\ sess'[s].todo = todo
           /\ sess'[s].op = sess[s].op /\ sess'[s].p = sess[s].p
           /\ sess'[s].cover = sess[s].cover /\ sess'[s].rows = sess[s].rows
<1> DEFINE a == [sess[s] EXCEPT !.phase = "lock"]
           b == [a EXCEPT !.pays = pays]
           c == [b EXCEPT !.todo = todo]
<1>1. sess[s] \in Session
  BY DEF TypeOK
<1>2. /\ a \in Session /\ a.phase = "lock" /\ a.op = sess[s].op /\ a.p = sess[s].p
      /\ a.cover = sess[s].cover /\ a.rows = sess[s].rows
  BY <1>1, SMT DEF Session
<1>3. c = [sess[s] EXCEPT !.phase = "lock", !.pays = pays, !.todo = todo]
  BY SMT
<1> HIDE DEF a
<1>4. /\ b \in Session /\ b.phase = a.phase /\ b.op = a.op /\ b.p = a.p /\ b.pays = pays
      /\ b.cover = a.cover /\ b.rows = a.rows
  BY <1>2, SMT DEF Session
<1> HIDE DEF b
<1>5. /\ c \in Session /\ c.phase = b.phase /\ c.op = b.op /\ c.p = b.p /\ c.pays = b.pays
      /\ c.todo = todo /\ c.cover = b.cover /\ c.rows = b.rows
  BY <1>4, SMT DEF Session
<1> HIDE DEF c
<1>6. Goto(s, c)
  BY <1>3 DEF HoldPayments
<1> QED
  BY <1>2, <1>4, <1>5, <1>6, GotoTyped

LEMMA TakeTyped ==
    ASSUME TypeOK, NEW s \in Sessions, NEW i \in Invoices, TakeRow(s, i) \/ SkipRow(s, i)
    PROVE  /\ sess' \in [Sessions -> Session]
           /\ \A t \in Sessions \ {s} : sess'[t] = sess[t]
           /\ sess'[s].phase = sess[s].phase /\ sess'[s].pays = sess[s].pays
           /\ sess'[s].todo = sess[s].todo \ {i} /\ sess'[s].mem = sess[s].mem
           /\ sess'[s].op = sess[s].op /\ sess'[s].p = sess[s].p /\ sess'[s].seen = sess[s].seen
           /\ sess'[s].cover = sess[s].cover
           /\ TakeRow(s, i) => sess'[s].rows = sess[s].rows \cup {i}
           /\ SkipRow(s, i) => sess'[s].rows = sess[s].rows
<1> DEFINE a == [sess[s] EXCEPT !.todo = sess[s].todo \ {i}]
           b == [a EXCEPT !.rows = sess[s].rows \cup {i}]
<1>1. sess[s] \in Session
  BY DEF TypeOK
<1>2. /\ a \in Session /\ a.phase = sess[s].phase /\ a.op = sess[s].op /\ a.p = sess[s].p
      /\ a.cover = sess[s].cover /\ a.rows = sess[s].rows /\ a.pays = sess[s].pays
      /\ a.todo = sess[s].todo \ {i} /\ a.mem = sess[s].mem /\ a.seen = sess[s].seen
  BY <1>1, SMT DEF Session
<1>3. /\ b = [sess[s] EXCEPT !.todo = @ \ {i}, !.rows = @ \cup {i}]
      /\ a = [sess[s] EXCEPT !.todo = @ \ {i}]
  BY <1>1, SMT DEF Session
<1>4. sess[s].rows \cup {i} \in SUBSET Invoices
  BY <1>1, SMT DEF Session
<1> HIDE DEF a
<1>5. /\ b \in Session /\ b.phase = a.phase /\ b.op = a.op /\ b.p = a.p /\ b.pays = a.pays
      /\ b.cover = a.cover /\ b.rows = sess[s].rows \cup {i} /\ b.todo = a.todo
      /\ b.mem = a.mem /\ b.seen = a.seen
  BY <1>2, <1>4, SMT DEF Session
<1> HIDE DEF b
<1>6. TakeRow(s, i) => Goto(s, b)
  BY <1>3 DEF TakeRow
<1>7. SkipRow(s, i) => Goto(s, a)
  BY <1>3 DEF SkipRow
<1>8. Goto(s, b) => /\ sess' \in [Sessions -> Session] /\ sess'[s] = b
                    /\ \A t \in Sessions \ {s} : sess'[t] = sess[t]
  BY <1>5, GotoTyped
<1>9. Goto(s, a) => /\ sess' \in [Sessions -> Session] /\ sess'[s] = a
                    /\ \A t \in Sessions \ {s} : sess'[t] = sess[t]
  BY <1>2, GotoTyped
<1> QED
  BY <1>2, <1>5, <1>6, <1>7, <1>8, <1>9

-----------------------------------------------------------------------------
(* Steps that write.                                                       *)

\* A step that moves no session.
LEMMA AtomicStep ==
    ASSUME IInv, TypeOK', PaidIsBacked', sess' = sess, NoneRevived,
           \A t \in Sessions : Undisturbed(t)
    PROVE  IInv' /\ Calm
<1>1. \A t \in Sessions : SessionSound(t)'
  BY Frame DEF Undisturbed, NoneRevived
<1>2. LocksExclusive'
  BY DEF IInv, LocksExclusive
<1> QED
  BY <1>1, <1>2 DEF IInv, Calm

\* A step that ends the session that writes.
LEMMA CommitStep ==
    ASSUME IInv, NEW s \in Sessions, TypeOK', PaidIsBacked', End(s), NoneRevived,
           \A t \in Sessions \ {s} : Undisturbed(t)
    PROVE  IInv' /\ Calm
<1>1. sess' = [sess EXCEPT ![s] = Idle] /\ sess \in [Sessions -> Session]
  BY DEF End, Goto, IInv, TypeOK
<1>2. /\ sess'[s] = Idle
      /\ \A t \in Sessions \ {s} : sess'[t] = sess[t]
  BY <1>1
<1>3. \A t \in Sessions : SessionSound(t)'
  BY <1>2, Frame, IdleSound DEF Undisturbed, NoneRevived
<1>4. LocksExclusive'
  BY <1>2, SMT DEF IInv, LocksExclusive, Idle
<1>5. sess'[s] = sess[s] => sess[s].rows = {} /\ sess[s].pays = {}
  BY <1>2, SMT DEF Idle
<1>6. Calm
  BY <1>5 DEF Calm, Undisturbed
<1> QED
  BY <1>3, <1>4, <1>6 DEF IInv

\* The ledger keeps its type.
LEMMA RecordTyped ==
    ASSUME TypeOK, NEW S, NEW status \in InvoiceStatus \ {"gone"},
           NEW tx \in Payments \cup {NoPay}, Record(S, status, tx)
    PROVE  ledger' \in [Invoices -> LedgerRow]
<1>1. ASSUME NEW row \in LedgerRow PROVE Recorded(row, status, tx) \in LedgerRow
  BY SMT DEF Recorded, NoRow, LedgerRow, InvoiceStatus, Owed
<1> QED
  BY <1>1 DEF TypeOK, Record

\* The session slot that ends stays typed.
LEMMA EndTyped ==
    ASSUME TypeOK, NEW s \in Sessions, End(s)
    PROVE  sess' \in [Sessions -> Session]
<1>1. Idle \in Session
  BY SMT DEF Idle, Session, Kind
<1> QED
  BY <1>1 DEF TypeOK, End, Goto

\* Writing statuses other than paid, on existing rows, with the payments unchanged.
LEMMA UnpaidWrite ==
    ASSUME IInv, pay' = pay, NEW S \in SUBSET Invoices,
           \A i \in S : inv'[i] # "paid" /\ inv[i] # "gone",
           \A i \in Invoices \ S : inv'[i] = inv[i]
    PROVE  /\ PaidIsBacked' /\ NoneRevived
           /\ \A t \in Sessions : sess[t].rows \cap S = {} => Undisturbed(t)
<1>1. \A i : Backers(i)' = Backers(i)
  BY DEF Backers
<1>2. \A t \in Sessions : sess[t].rows \subseteq Invoices
  BY SMT DEF IInv, TypeOK, Session
<1> QED
  BY <1>1, <1>2, SMT DEF IInv, PaidIsBacked, NoneRevived, Undisturbed

LEMMA CancelStep ==
    ASSUME IInv, NEW i \in Invoices, Cancel(i)
    PROVE  IInv' /\ Calm
<1> USE DEF Cancel
<1>1. TypeOK'
  <2>1. ledger' \in [Invoices -> LedgerRow]
    BY RecordTyped, SMT DEF IInv, InvoiceStatus, Owed
  <2>2. inv' \in [Invoices -> InvoiceStatus]
    BY SMT DEF IInv, TypeOK, SetInvoices, InvoiceStatus
  <2> QED
    BY <2>1, <2>2 DEF IInv, TypeOK
<1>2. /\ \A j \in {i} : inv'[j] # "paid" /\ inv[j] # "gone"
      /\ \A j \in Invoices \ {i} : inv'[j] = inv[j]
  BY SMT DEF SetInvoices
<1>3. \A t \in Sessions : sess[t].rows \cap {i} = {}
  BY DEF RowFree
<1> QED
  BY <1>1, <1>2, <1>3, UnpaidWrite, AtomicStep

LEMMA RevertToDraftStep ==
    ASSUME IInv, NEW i \in Invoices, RevertToDraft(i)
    PROVE  IInv' /\ Calm
<1> USE DEF RevertToDraft
<1>1. TypeOK'
  <2>1. ledger' \in [Invoices -> LedgerRow]
    BY RecordTyped, SMT DEF IInv, InvoiceStatus, Owed
  <2>2. inv' \in [Invoices -> InvoiceStatus]
    BY SMT DEF IInv, TypeOK, SetInvoices, InvoiceStatus
  <2> QED
    BY <2>1, <2>2 DEF IInv, TypeOK
<1>2. /\ \A j \in {i} : inv'[j] # "paid" /\ inv[j] # "gone"
      /\ \A j \in Invoices \ {i} : inv'[j] = inv[j]
  BY SMT DEF SetInvoices
<1>3. \A t \in Sessions : sess[t].rows \cap {i} = {}
  BY DEF RowFree
<1> QED
  BY <1>1, <1>2, <1>3, UnpaidWrite, AtomicStep

LEMMA EditStep ==
    ASSUME IInv, NEW i \in Invoices, Edit(i)
    PROVE  IInv' /\ Calm
<1> USE DEF Edit
<1>1. TypeOK'
  <2>1. ledger' \in [Invoices -> LedgerRow]
    BY RecordTyped, SMT DEF IInv, TypeOK, InvoiceStatus, Owed
  <2> QED
    BY <2>1 DEF IInv, TypeOK
<1>2. PaidIsBacked' /\ NoneRevived /\ \A t \in Sessions : Undisturbed(t)
  BY DEF IInv, PaidIsBacked, NoneRevived, Undisturbed, Backers
<1> QED
  BY <1>1, <1>2, AtomicStep

LEMMA DeferStep ==
    ASSUME IInv, NEW i \in Invoices, Defer(i)
    PROVE  IInv' /\ Calm
<1>1. PICK status \in Owed : /\ SetInvoices({i}, status) /\ Record({i}, status, NoPay)
                             /\ inv[i] \in Owed /\ RowFree(i)
                             /\ UNCHANGED <<sentAt, pay, suspended, sess>>
  BY SMT DEF Defer, Owed
<1>2. TypeOK'
  <2>1. ledger' \in [Invoices -> LedgerRow]
    BY <1>1, RecordTyped, SMT DEF IInv, InvoiceStatus, Owed
  <2>2. inv' \in [Invoices -> InvoiceStatus]
    BY <1>1, SMT DEF IInv, TypeOK, SetInvoices, InvoiceStatus
  <2> QED
    BY <1>1, <2>1, <2>2 DEF IInv, TypeOK
<1>3. /\ \A j \in {i} : inv'[j] # "paid" /\ inv[j] # "gone"
      /\ \A j \in Invoices \ {i} : inv'[j] = inv[j]
  BY <1>1, SMT DEF SetInvoices, Owed
<1>4. \A t \in Sessions : sess[t].rows \cap {i} = {}
  BY <1>1 DEF RowFree
<1> QED
  BY <1>1, <1>2, <1>3, <1>4, UnpaidWrite, AtomicStep

\* Writing a payment nobody has locked, confirmed neither before nor after.
LEMMA UnsettledWrite ==
    ASSUME IInv, NEW p \in Payments, NEW status \in PaymentStatus \ {"confirmed"},
           pay[p].status # "confirmed", PayFree(p), SetPayment(p, status),
           UNCHANGED <<inv, sentAt, ledger, suspended, sess>>
    PROVE  IInv' /\ Calm
<1>1. /\ pay' \in [Payments -> PaymentRow]
      /\ pay'[p].status = status /\ \A q \in Payments \ {p} : pay'[q] = pay[q]
  BY SMT DEF IInv, TypeOK, PaymentRow, SetPayment
<1>2. \A i : Backers(i)' = Backers(i)
  BY <1>1, SMT DEF Backers
<1>3. TypeOK' /\ PaidIsBacked'
  BY <1>1, <1>2, SMT DEF IInv, TypeOK, PaidIsBacked, Backers
<1>4. \A t \in Sessions : sess[t].pays \subseteq Payments \ {p}
  BY SMT DEF IInv, TypeOK, Session, PayFree
<1> QED
  BY <1>1, <1>2, <1>3, <1>4, AtomicStep DEF Undisturbed, NoneRevived

LEMMA PaymentSteps ==
    ASSUME IInv, NEW p \in Payments,
           \/ DiscardProof(p) \/ DeleteUnsettled(p)
           \/ \E status \in {"pending", "rejected"} : VerifyEarly(p, status)
    PROVE  IInv' /\ Calm
<1>1. \A status \in {"pending", "rejected", "deleted"} : status \in PaymentStatus \ {"confirmed"}
  BY DEF PaymentStatus
<1>2. CASE DiscardProof(p)
  BY <1>1, <1>2, UnsettledWrite DEF DiscardProof
<1>3. CASE DeleteUnsettled(p)
  BY <1>1, <1>3, UnsettledWrite DEF DeleteUnsettled
<1>4. ASSUME NEW status \in {"pending", "rejected"}, VerifyEarly(p, status) PROVE IInv' /\ Calm
  BY <1>1, <1>4, UnsettledWrite DEF VerifyEarly
<1> QED
  BY <1>2, <1>3, <1>4

LEMMA MarkPaidStep ==
    ASSUME IInv, NEW i \in Invoices, NEW q \in Payments, MarkPaid(i, q)
    PROVE  IInv' /\ Calm
<1> USE DEF MarkPaid
<1>1. /\ pay' \in [Payments -> PaymentRow] /\ pay'[q].cover = {i}
      /\ pay'[q].status = "confirmed" /\ \A r \in Payments \ {q} : pay'[r] = pay[r]
  BY SMT DEF IInv, TypeOK, PaymentRow, PaymentStatus, Kind
<1>2. /\ inv' \in [Invoices -> InvoiceStatus] /\ \A j \in Invoices \ {i} : inv'[j] = inv[j]
  BY SMT DEF IInv, TypeOK, SetInvoices, InvoiceStatus
<1>3. pay[q].status = "unused" /\ \A j \in Invoices \ {i} : Backers(j)' = Backers(j)
  BY <1>1, SMT DEF Backers, Fresh
<1>4. TypeOK'
  <2>1. ledger' \in [Invoices -> LedgerRow]
    BY RecordTyped, SMT DEF IInv, InvoiceStatus, Owed
  <2> QED
    BY <1>1, <1>2, <2>1 DEF IInv, TypeOK
<1>5. PaidIsBacked'
  <2>1. \A j \in Invoices \ {i} : inv'[j] = "paid" => Backers(j)' # {}
    BY <1>2, <1>3, SMT DEF IInv, PaidIsBacked, Backers
  <2> QED
    BY <1>1, <2>1, SMT DEF PaidIsBacked, Backers
<1>6. \A t \in Sessions : sess[t].rows \subseteq Invoices \ {i}
  BY SMT DEF IInv, TypeOK, Session, RowFree
<1>7. \A t \in Sessions : q \notin sess[t].pays
  BY <1>3, SMT DEF IInv, SessionSound, RowsHeld
<1>8. \A t \in Sessions : Undisturbed(t)
  <2>1. \A t \in Sessions : sess[t].pays \subseteq Payments
    BY SMT DEF IInv, TypeOK, Session
  <2> QED
    BY <1>1, <1>2, <1>3, <1>6, <1>7, <2>1 DEF Undisturbed
<1>9. NoneRevived
  BY <1>2, SMT DEF NoneRevived, Owed
<1> QED
  BY <1>4, <1>5, <1>8, <1>9, AtomicStep

-----------------------------------------------------------------------------
(* Commits of the handlers that hold locks.                                *)

LEMMA SubmitCommitStep ==
    ASSUME IInv, NEW s \in Sessions, SubmitCommit(s)
    PROVE  IInv' /\ Calm
<1> DEFINE p == sess[s].p
<1>1. /\ p \in Payments /\ \A q \in sess[s].pays : q = p /\ pay[q].status = "rejected"
      /\ sess[s].cover \subseteq Invoices /\ sess[s].kind \in Kind
  BY SMT DEF IInv, SessionSound, SubmissionHeld, TypeOK, Session, SubmitCommit, Deciding
<1>2. /\ pay' \in [Payments -> PaymentRow]
      /\ \A q \in Payments : pay'[q] # pay[q]
           => q = p /\ pay[q].status \in {"unused", "rejected"} /\ pay'[q].status = "pending"
      /\ p \notin sess[s].pays /\ pay[p].status # "unused" => pay' = pay
  <2>1. CASE pay[p].status = "unused" \/ p \in sess[s].pays
    BY <1>1, <2>1, SMT DEF SubmitCommit, IInv, TypeOK, PaymentRow, PaymentStatus
  <2>2. CASE ~(pay[p].status = "unused" \/ p \in sess[s].pays)
    BY <2>2 DEF SubmitCommit, IInv, TypeOK
  <2> QED
    BY <2>1, <2>2
<1>3. \A i : Backers(i)' = Backers(i)
  BY <1>2, SMT DEF Backers
<1>4. TypeOK'
  BY <1>2, EndTyped DEF SubmitCommit, IInv, TypeOK
<1>5. PaidIsBacked' /\ NoneRevived
  BY <1>3, SMT DEF SubmitCommit, IInv, PaidIsBacked, Backers, NoneRevived
<1>6. ASSUME NEW t \in Sessions \ {s}, NEW q \in sess[t].pays PROVE pay'[q] = pay[q]
  <2>1. q \in Payments /\ q \notin sess[s].pays /\ pay[q].status # "unused"
    BY SMT DEF IInv, TypeOK, Session, LocksExclusive, SessionSound, RowsHeld
  <2> QED
    BY <1>1, <1>2, <2>1
<1>7. \A t \in Sessions \ {s} : Undisturbed(t)
  BY <1>3, <1>6 DEF Undisturbed, SubmitCommit
<1> QED
  BY <1>4, <1>5, <1>7, CommitStep DEF SubmitCommit

\* A session that holds payment p and all of its set disturbs no other session when
\* it writes p and invoices it has locked.
LEMMA HolderWrite ==
    ASSUME IInv, NEW s \in Sessions, NEW p \in sess[s].pays, pay'[p].cover = pay[p].cover,
           \A i \in pay[p].cover : i \in sess[s].rows \/ inv[i] = "gone",
           \A q \in Payments \ {p} : pay'[q] = pay[q],
           \A i \in Invoices : i \notin sess[s].rows => inv'[i] = inv[i]
    PROVE  NoneRevived /\ \A t \in Sessions \ {s} : Undisturbed(t)
<1>1. /\ p \in Payments
      /\ \A t \in Sessions : sess[t].rows \subseteq Invoices /\ sess[t].pays \subseteq Payments
  BY SMT DEF IInv, TypeOK, Session
<1>2. NoneRevived
  BY SMT DEF IInv, SessionSound, RowsHeld, NoneRevived
<1>3. ASSUME NEW t \in Sessions \ {s}, NEW i \in sess[t].rows
      PROVE  inv'[i] = inv[i] /\ Backers(i)' = Backers(i)
  <2>1. i \notin sess[s].rows /\ inv[i] # "gone"
    BY SMT DEF IInv, LocksExclusive, SessionSound, RowsHeld
  <2>2. i \notin pay[p].cover
    BY <2>1
  <2>3. Backers(i)' = Backers(i)
    BY <2>2, <1>1, SMT DEF Backers
  <2> QED
    BY <1>1, <2>1, <2>3
<1>4. \A t \in Sessions \ {s} : \A q \in sess[t].pays : pay'[q] = pay[q]
  BY <1>1, SMT DEF IInv, LocksExclusive
<1> QED
  BY <1>2, <1>3, <1>4 DEF Undisturbed

LEMMA ConfirmCommitStep ==
    ASSUME IInv, NEW s \in Sessions, ConfirmCommit(s)
    PROVE  IInv' /\ Calm
<1> DEFINE p == sess[s].p
           mem == sess[s].mem
<1>1. /\ p \in Payments /\ p \in sess[s].pays /\ mem \subseteq pay[p].cover
      /\ mem \subseteq sess[s].rows /\ mem \subseteq Invoices
      /\ sess[s].seen \in {"confirmed", "pending", "rejected"}
      /\ mem # {} \/ pay[p].status = "confirmed" => sess[s].seen = "confirmed"
      /\ \A i \in pay[p].cover : i \in sess[s].rows \/ inv[i] = "gone"
  BY SMT DEF ConfirmCommit, Deciding, IInv, SessionSound, PaymentHeld, SettlementDecided,
         Settling, TypeOK, Session
<1>2. /\ pay' \in [Payments -> PaymentRow]
      /\ pay'[p].status = sess[s].seen /\ pay'[p].cover = pay[p].cover
      /\ \A q \in Payments \ {p} : pay'[q] = pay[q]
  BY <1>1, SMT DEF ConfirmCommit, SetPayment, IInv, TypeOK, PaymentRow, PaymentStatus
<1>3. /\ inv' \in [Invoices -> InvoiceStatus]
      /\ \A i \in mem : inv'[i] = "paid"
      /\ \A i \in Invoices \ mem : inv'[i] = inv[i]
  BY <1>1, SMT DEF ConfirmCommit, SetInvoices, IInv, TypeOK, InvoiceStatus
<1>4. TypeOK'
  <2>1. ledger' \in [Invoices -> LedgerRow]
    BY <1>1, RecordTyped, SMT DEF ConfirmCommit, IInv, InvoiceStatus, Owed, TxOf
  <2> QED
    BY <1>2, <1>3, <2>1, EndTyped DEF ConfirmCommit, IInv, TypeOK
<1>5. PaidIsBacked'
  <2>1. \A i \in mem : pay'[p].status = "confirmed" /\ i \in pay'[p].cover
    BY <1>1, <1>2
  <2>2. ASSUME NEW i \in Invoices \ mem, inv'[i] = "paid"
        PROVE  \E q \in Payments : pay'[q].status = "confirmed" /\ i \in pay'[q].cover
    <3>1. PICK q \in Payments : pay[q].status = "confirmed" /\ i \in pay[q].cover
      BY <1>3, <2>2 DEF IInv, PaidIsBacked
    <3> QED
      BY <1>1, <1>2, <3>1
  <2> QED
    BY <1>1, <2>1, <2>2 DEF PaidIsBacked
<1>6. NoneRevived /\ \A t \in Sessions \ {s} : Undisturbed(t)
  BY <1>1, <1>2, <1>3, HolderWrite
<1> QED
  BY <1>4, <1>5, <1>6, CommitStep DEF ConfirmCommit

LEMMA RevertCommitStep ==
    ASSUME IInv, NEW s \in Sessions, RevertCommit(s)
    PROVE  IInv' /\ Calm
<1> DEFINE p == sess[s].p
           mem == sess[s].mem
<1>1. /\ p \in Payments /\ p \in sess[s].pays
      /\ mem \subseteq sess[s].rows /\ mem \subseteq Invoices
      /\ sess[s].seen \in {"rejected", "deleted"}
      /\ \A i \in pay[p].cover : i \in sess[s].rows \/ inv[i] = "gone"
      /\ \A i \in pay[p].cover \ mem : inv[i] = "paid" => Backers(i) # {p}
  BY SMT DEF RevertCommit, Deciding, IInv, SessionSound, PaymentHeld, ReversalDecided,
         Reversing, TypeOK, Session
<1>2. /\ pay' \in [Payments -> PaymentRow]
      /\ pay'[p].status = sess[s].seen /\ pay'[p].cover = pay[p].cover
      /\ \A q \in Payments \ {p} : pay'[q] = pay[q]
  BY <1>1, SMT DEF RevertCommit, SetPayment, IInv, TypeOK, PaymentRow, PaymentStatus
<1>3. /\ inv' \in [Invoices -> InvoiceStatus]
      /\ \A i \in mem : inv'[i] = "sent"
      /\ \A i \in Invoices \ mem : inv'[i] = inv[i]
  BY <1>1, SMT DEF RevertCommit, SetInvoices, IInv, TypeOK, InvoiceStatus, Owed
<1>4. TypeOK'
  <2>1. ledger' \in [Invoices -> LedgerRow]
    BY <1>1, RecordTyped, SMT DEF RevertCommit, IInv, InvoiceStatus, Owed
  <2> QED
    BY <1>2, <1>3, <2>1, EndTyped DEF RevertCommit, IInv, TypeOK
<1>5. PaidIsBacked'
  <2> SUFFICES ASSUME NEW i \in Invoices, inv'[i] = "paid"
               PROVE  \E q \in Payments : pay'[q].status = "confirmed" /\ i \in pay'[q].cover
    BY DEF PaidIsBacked
  <2>1. i \notin mem /\ inv[i] = "paid"
    BY <1>3
  <2>2. PICK q \in Payments : q # p /\ pay[q].status = "confirmed" /\ i \in pay[q].cover
    <3>1. CASE i \in pay[p].cover
      <4>1. Backers(i) # {p} /\ Backers(i) # {}
        BY <1>1, <2>1, <3>1, SMT DEF IInv, PaidIsBacked, Backers
      <4> QED
        BY <4>1, SMT DEF Backers
    <3>2. CASE i \notin pay[p].cover
      BY <2>1, <3>2 DEF IInv, PaidIsBacked
    <3> QED
      BY <3>1, <3>2
  <2> QED
    BY <1>2, <2>2
<1>6. NoneRevived /\ \A t \in Sessions \ {s} : Undisturbed(t)
  BY <1>1, <1>2, <1>3, HolderWrite
<1> QED
  BY <1>4, <1>5, <1>6, CommitStep DEF RevertCommit

LEMMA UnmarkCommitStep ==
    ASSUME IInv, NEW s \in Sessions, UnmarkCommit(s)
    PROVE  IInv' /\ Calm
<1>1. PICK i \in Invoices : /\ sess[s].cover = {i} /\ sess[s].mem = {i} /\ i \in sess[s].rows
                            /\ \A q \in sess[s].pays : pay[q].cover = {i}
  BY SMT DEF UnmarkCommit, Deciding, IInv, SessionSound, UnmarkHeld
<1>2. PICK status \in {"sent", "draft"} :
         SetInvoices({i}, status) /\ Record({i}, status, NoPay)
  BY <1>1, SMT DEF UnmarkCommit
<1>3. /\ inv' \in [Invoices -> InvoiceStatus] /\ inv'[i] # "paid"
      /\ \A j \in Invoices \ {i} : inv'[j] = inv[j]
  BY <1>2, SMT DEF SetInvoices, IInv, TypeOK, InvoiceStatus, Owed
<1>4. /\ pay' \in [Payments -> PaymentRow]
      /\ \A q \in Payments \ sess[s].pays : pay'[q] = pay[q]
      /\ \A q \in sess[s].pays : pay'[q].cover = {i}
  <2>1. sess[s].pays \subseteq Payments /\ pay \in [Payments -> PaymentRow]
    BY SMT DEF IInv, TypeOK, Session
  <2>2. \A q \in Payments : [pay[q] EXCEPT !.status = "rejected"] \in PaymentRow
                                 /\ [pay[q] EXCEPT !.status = "rejected"].cover = pay[q].cover
    BY <2>1, SMT DEF PaymentRow, PaymentStatus
  <2> QED
    BY <1>1, <2>1, <2>2 DEF UnmarkCommit
<1>5. \A j \in Invoices \ {i} : Backers(j)' = Backers(j)
  BY <1>1, <1>4, SMT DEF Backers
<1>6. TypeOK'
  <2>1. ledger' \in [Invoices -> LedgerRow]
    <3>1. status \in InvoiceStatus \ {"gone"}
      BY DEF InvoiceStatus, Owed
    <3> QED
      BY <1>2, <3>1, RecordTyped DEF IInv
  <2> QED
    BY <1>3, <1>4, <2>1, EndTyped DEF UnmarkCommit, IInv, TypeOK
<1>7. PaidIsBacked'
  BY <1>3, <1>5, SMT DEF IInv, PaidIsBacked, Backers
<1>8. NoneRevived
  BY <1>1, <1>3, SMT DEF NoneRevived, IInv, SessionSound, RowsHeld
<1>9. ASSUME NEW t \in Sessions \ {s} PROVE Undisturbed(t)
  <2>1. sess[t].rows \subseteq Invoices \ {i} /\ sess[t].pays \subseteq Payments \ sess[s].pays
    BY <1>1, SMT DEF IInv, TypeOK, Session, LocksExclusive
  <2> QED
    BY <2>1, <1>3, <1>4, <1>5 DEF Undisturbed
<1> QED
  BY <1>6, <1>7, <1>8, <1>9, CommitStep DEF UnmarkCommit

-----------------------------------------------------------------------------
(* Writers that read without a lock.                                       *)

LEMMA SendCommitStep ==
    ASSUME IInv, NEW s \in Sessions, SendCommit(s)
    PROVE  IInv' /\ Calm
<1>1. PICK i \in sess[s].mem :
         IF Exists(i) THEN /\ RowFree(i) /\ SetInvoices({i}, sess[s].seen)
                           /\ Record({i}, sess[s].seen, NoPay)
                           /\ sentAt' = [sentAt EXCEPT ![i] = TRUE]
         ELSE UNCHANGED <<inv, ledger, sentAt>>
  BY DEF SendCommit
<1>2. i \in Invoices /\ sess[s].seen \in {"sent", "enforced"}
  BY SMT DEF SendCommit, IInv, TypeOK, Session, SessionSound, StatusRemembered
<1>3. CASE Exists(i)
  <2>1. ledger' \in [Invoices -> LedgerRow]
    BY <1>1, <1>2, <1>3, RecordTyped, SMT DEF IInv, InvoiceStatus, Owed
  <2>2. /\ inv' \in [Invoices -> InvoiceStatus] /\ inv'[i] # "paid"
        /\ \A j \in Invoices \ {i} : inv'[j] = inv[j]
    BY <1>1, <1>2, <1>3, SMT DEF IInv, TypeOK, SetInvoices, InvoiceStatus, Owed
  <2>6. sentAt' \in [Invoices -> BOOLEAN]
    BY <1>1, <1>3 DEF IInv, TypeOK
  <2>3. TypeOK'
    BY <2>1, <2>2, <2>6, EndTyped DEF SendCommit, IInv, TypeOK
  <2>4. \A t \in Sessions : sess[t].rows \cap {i} = {}
    BY <1>1, <1>3 DEF RowFree
  <2>5. \A j \in {i} : inv'[j] # "paid" /\ inv[j] # "gone"
    BY <1>3, <2>2 DEF Exists
  <2> QED
    BY <1>2, <2>2, <2>3, <2>4, <2>5, UnpaidWrite, CommitStep DEF SendCommit
<1>4. CASE ~Exists(i)
  <2>1. DBUnchanged
    BY <1>1, <1>4 DEF SendCommit, DBUnchanged
  <2> QED
    BY <2>1, EndStep, NoPayAssumption DEF SendCommit
<1> QED
  BY <1>3, <1>4

LEMMA DeferTailStep ==
    ASSUME IInv, NEW s \in Sessions, DeferTail(s)
    PROVE  IInv' /\ Calm
<1>1. PICK i \in sess[s].mem, S \in SUBSET Invoices :
         /\ S = {} => inv' = inv
         /\ S # {} => S = {i} /\ inv[i] # "gone" /\ RowFree(i) /\ SetInvoices(S, "sent")
         /\ ledger' \in [Invoices -> LedgerRow]
  <2>1. PICK i \in sess[s].mem :
           IF sess[s].seen = "sent"
           THEN UNCHANGED inv /\ Record({i}, "sent", NoPay)
           ELSE /\ Exists(i) => RowFree(i)
                /\ SetInvoices({i} \cap {j \in Invoices : Exists(j)}, "sent")
                /\ Record({i} \cap {j \in Invoices : Exists(j)}, "sent", NoPay)
    BY DEF DeferTail
  <2> DEFINE Goal(S) == /\ S = {} => inv' = inv
                        /\ S # {} => S = {i} /\ inv[i] # "gone" /\ RowFree(i)
                                     /\ SetInvoices(S, "sent")
                        /\ ledger' \in [Invoices -> LedgerRow]
  <2>5. ledger' \in [Invoices -> LedgerRow]
    BY <2>1, RecordTyped, SMT DEF IInv, InvoiceStatus, Owed
  <2>6. i \in Invoices
    BY SMT DEF IInv, TypeOK, Session
  <2>2. CASE sess[s].seen = "sent"
    <3>1. Goal({})
      BY <2>1, <2>2, <2>5
    <3> QED
      BY <3>1
  <2>3. CASE sess[s].seen # "sent" /\ ~Exists(i)
    <3>1. inv' = inv
      BY <2>1, <2>3, SMT DEF SetInvoices, IInv, TypeOK, Exists
    <3>2. Goal({})
      BY <2>5, <3>1
    <3> QED
      BY <3>2
  <2>4. CASE sess[s].seen # "sent" /\ Exists(i)
    <3>1. {i} \cap {j \in Invoices : Exists(j)} = {i}
      BY <2>4, <2>6
    <3>2. Goal({i})
      BY <2>1, <2>4, <2>5, <3>1 DEF Exists
    <3> QED
      BY <2>6, <3>2
  <2> QED
    BY <2>2, <2>3, <2>4
<1>2. /\ inv' \in [Invoices -> InvoiceStatus]
      /\ \A j \in S : inv'[j] # "paid" /\ inv[j] # "gone"
      /\ \A j \in Invoices \ S : inv'[j] = inv[j]
  BY <1>1, SMT DEF IInv, TypeOK, SetInvoices, InvoiceStatus, Owed
<1>3. TypeOK'
  BY <1>1, <1>2, EndTyped DEF DeferTail, IInv, TypeOK
<1>4. \A t \in Sessions : sess[t].rows \cap S = {}
  BY <1>1 DEF RowFree
<1> QED
  BY <1>2, <1>3, <1>4, UnpaidWrite, CommitStep DEF DeferTail

LEMMA RecomputeCommitStep ==
    ASSUME IInv, NEW s \in Sessions, RecomputeCommit(s)
    PROVE  IInv' /\ Calm
<1>1. ledger' \in [Invoices -> LedgerRow]
  <2>1. sess[s].seen \in InvoiceStatus \ {"gone"}
    BY DEF RecomputeCommit, IInv, SessionSound, StatusRemembered
  <2>2. PICK T : Record(T, sess[s].seen, NoPay)
    BY DEF RecomputeCommit
  <2> QED
    BY <2>1, <2>2, RecordTyped DEF IInv
<1>2. TypeOK'
  BY <1>1, EndTyped DEF RecomputeCommit, IInv, TypeOK
<1>3. PaidIsBacked' /\ NoneRevived /\ \A t \in Sessions : Undisturbed(t)
  BY DEF RecomputeCommit, IInv, PaidIsBacked, NoneRevived, Undisturbed, Backers
<1> QED
  BY <1>2, <1>3, CommitStep DEF RecomputeCommit

\* A step that writes and moves the session that writes on, with no new locks.
LEMMA MoveStep ==
    ASSUME IInv, NEW s \in Sessions, TypeOK', PaidIsBacked', NoneRevived,
           \A t \in Sessions \ {s} : sess'[t] = sess[t], \A t \in Sessions : Undisturbed(t),
           sess'[s].rows \subseteq sess[s].rows, sess'[s].pays \subseteq sess[s].pays,
           SessionSound(s)'
    PROVE  IInv' /\ Calm
<1>1. \A t \in Sessions : SessionSound(t)'
  BY Frame DEF Undisturbed, NoneRevived
<1>2. LocksExclusive'
  BY SMT DEF IInv, LocksExclusive
<1> QED
  BY <1>1, <1>2 DEF IInv, Calm

\* A session without locks that waits before it writes.
LEMMA WaitingSound ==
    ASSUME NEW s \in Sessions, sess'[s].rows = {}, sess'[s].pays = {},
           \/ sess'[s].op \in {"dunning", "defer"}
           \/ sess'[s].op = "send" /\ sess'[s].seen \in {"sent", "enforced"}
           \/ sess'[s].op = "recompute" /\ sess'[s].seen \in InvoiceStatus \ {"paid", "gone"}
    PROVE  SessionSound(s)'
  BY SMT DEF SessionSound, RowsHeld, PaymentHeld, SettlementDecided, ReversalDecided,
         SubmissionHeld, UnmarkHeld, StatusRemembered, Settling, Reversing

LEMMA DeferCommitStep ==
    ASSUME IInv, NEW s \in Sessions, NEW i \in Invoices, DeferCommit(s, i)
    PROVE  IInv' /\ Calm
<1> DEFINE status == IF inv[i] = "overdue" THEN "sent" ELSE inv[i]
<1>1. /\ status \in Owed /\ SetInvoices({i}, status)
      /\ Goto(s, Waiting("defer", NoPay, {}, {i}, status))
      /\ inv[i] \in Owed /\ RowFree(i) /\ UNCHANGED <<sentAt, pay, ledger, suspended>>
  BY DEF DeferCommit, Owed
<1> HIDE DEF status
<1>2. /\ inv' \in [Invoices -> InvoiceStatus] /\ inv'[i] # "paid" /\ inv[i] # "gone"
      /\ \A j \in Invoices \ {i} : inv'[j] = inv[j]
  BY <1>1, SMT DEF IInv, TypeOK, SetInvoices, InvoiceStatus, Owed
<1>3. Waiting("defer", NoPay, {}, {i}, status) \in Session
  <2>1. status \in InvoiceStatus /\ {i} \in SUBSET Invoices
    BY <1>1 DEF InvoiceStatus
  <2> QED
    BY <2>1, SMT DEF Waiting, Session, Kind, UnlockedWriters
<1>4. /\ sess' \in [Sessions -> Session] /\ sess'[s].op = "defer"
      /\ sess'[s].rows = {} /\ sess'[s].pays = {}
      /\ \A t \in Sessions \ {s} : sess'[t] = sess[t]
  BY <1>1, <1>3, SMT DEF Goto, IInv, TypeOK, Waiting
<1>5. TypeOK'
  BY <1>1, <1>2, <1>4 DEF IInv, TypeOK
<1>6. PaidIsBacked' /\ NoneRevived /\ \A t \in Sessions : Undisturbed(t)
  <2>1. \A t \in Sessions : sess[t].rows \cap {i} = {}
    BY <1>1 DEF RowFree
  <2>2. \A j \in {i} : inv'[j] # "paid" /\ inv[j] # "gone"
    BY <1>2
  <2> QED
    BY <1>1, <1>2, <2>1, <2>2, UnpaidWrite
<1>7. SessionSound(s)'
  BY <1>4, WaitingSound
<1> QED
  BY <1>4, <1>5, <1>6, <1>7, MoveStep

LEMMA DunningFlipStep ==
    ASSUME IInv, NEW s \in Sessions, NEW i \in Invoices, DunningFlip(s, i)
    PROVE  IInv' /\ Calm
<1> USE DEF DunningFlip
<1>1. /\ inv' \in [Invoices -> InvoiceStatus] /\ inv'[i] # "paid" /\ inv[i] # "gone"
      /\ \A j \in Invoices \ {i} : inv'[j] = inv[j]
  BY SMT DEF IInv, TypeOK, SetInvoices, InvoiceStatus, Owed, Exists
<1>2. /\ sess' \in [Sessions -> Session] /\ sess'[s].op = "dunning"
      /\ sess'[s].rows = sess[s].rows /\ sess'[s].pays = sess[s].pays
      /\ \A t \in Sessions \ {s} : sess'[t] = sess[t]
  <2>1. sess[s] \in Session /\ sess \in [Sessions -> Session]
    BY DEF IInv, TypeOK
  <2>2. [sess[s] EXCEPT !.mem = @ \ {i}] \in Session
    BY <2>1, SMT DEF Session
  <2> QED
    BY <2>1, <2>2, SMT DEF Goto, Session
<1>3. TypeOK'
  <2>1. ledger' \in [Invoices -> LedgerRow]
    BY RecordTyped, SMT DEF IInv, InvoiceStatus, Owed
  <2> QED
    BY <1>1, <1>2, <2>1 DEF IInv, TypeOK
<1>4. PaidIsBacked' /\ NoneRevived /\ \A t \in Sessions : Undisturbed(t)
  <2>1. \A t \in Sessions : sess[t].rows \cap {i} = {}
    BY DEF RowFree
  <2>2. \A j \in {i} : inv'[j] # "paid" /\ inv[j] # "gone"
    BY <1>1
  <2> QED
    BY <1>1, <2>1, <2>2, UnpaidWrite
<1>5. SessionSound(s)'
  <2>1. RowsHeld(s)'
    BY <1>2, <1>4, SMT DEF IInv, SessionSound, RowsHeld, Undisturbed
  <2> QED
    BY <1>2, <2>1, SMT DEF SessionSound, PaymentHeld, SettlementDecided, ReversalDecided,
           SubmissionHeld, UnmarkHeld, StatusRemembered, Settling, Reversing
<1> QED
  BY <1>2, <1>3, <1>4, <1>5, MoveStep

LEMMA StampCommitStep ==
    ASSUME IInv, NEW s \in Sessions, StampCommit(s)
    PROVE  IInv' /\ Calm
<1> USE DEF StampCommit
<1> DEFINE S == sess[s].mem
<1>1. S \subseteq Invoices /\ S \subseteq sess[s].rows /\ \A j \in S : inv[j] # "gone"
  BY SMT DEF Locked, IInv, TypeOK, Session, SessionSound, RowsHeld
<1>2. /\ inv' \in [Invoices -> InvoiceStatus] /\ \A j \in S : inv'[j] # "paid"
      /\ \A j \in Invoices \ S : inv'[j] = inv[j]
  BY <1>1, SMT DEF IInv, TypeOK, SetInvoices, InvoiceStatus, Owed
<1>3. TypeOK'
  <2>1. ledger' \in [Invoices -> LedgerRow]
    BY RecordTyped, SMT DEF IInv, InvoiceStatus, Owed
  <2>2. suspended' \in [Resellers -> BOOLEAN]
    BY DEF SetSuspended, IInv, TypeOK
  <2> QED
    BY <1>2, <2>1, <2>2, EndTyped DEF IInv, TypeOK
<1>4. \A t \in Sessions \ {s} : sess[t].rows \cap S = {}
  BY <1>1, SMT DEF IInv, LocksExclusive
<1> QED
  BY <1>1, <1>2, <1>3, <1>4, UnpaidWrite, CommitStep

LEMMA UnstampCommitStep ==
    ASSUME IInv, NEW s \in Sessions, UnstampCommit(s)
    PROVE  IInv' /\ Calm
<1> USE DEF UnstampCommit
<1> DEFINE S == sess[s].mem
<1>1. S \subseteq Invoices /\ S \subseteq sess[s].rows /\ \A j \in S : inv[j] # "gone"
  BY SMT DEF Locked, IInv, TypeOK, Session, SessionSound, RowsHeld
<1>2. PICK late \in SUBSET S :
         LET status(i) == IF i \in late THEN "overdue" ELSE "sent"
         IN  /\ inv' = [i \in Invoices |-> IF i \in S THEN status(i) ELSE inv[i]]
             /\ ledger' = [i \in Invoices |->
                             IF i \in S THEN Recorded(ledger[i], status(i), NoPay)
                             ELSE ledger[i]]
  OBVIOUS
<1>3. /\ inv' \in [Invoices -> InvoiceStatus] /\ \A j \in S : inv'[j] # "paid"
      /\ \A j \in Invoices \ S : inv'[j] = inv[j]
  BY <1>1, <1>2, SMT DEF IInv, TypeOK, InvoiceStatus, Owed
<1>4. TypeOK'
  <2>1. \A row \in LedgerRow : \A status \in {"sent", "overdue"} :
           Recorded(row, status, NoPay) \in LedgerRow
    BY SMT DEF Recorded, NoRow, LedgerRow, InvoiceStatus, Owed
  <2>2. ledger' \in [Invoices -> LedgerRow]
    BY <1>2, <2>1 DEF IInv, TypeOK
  <2>3. suspended' \in [Resellers -> BOOLEAN]
    BY DEF SetSuspended, IInv, TypeOK
  <2> QED
    BY <1>3, <2>2, <2>3, EndTyped DEF IInv, TypeOK
<1>5. \A t \in Sessions \ {s} : sess[t].rows \cap S = {}
  BY <1>1, SMT DEF IInv, LocksExclusive
<1> QED
  BY <1>1, <1>3, <1>4, <1>5, UnpaidWrite, CommitStep

LEMMA DiscardCommitStep ==
    ASSUME IInv, NEW s \in Sessions, DiscardCommit(s)
    PROVE  IInv' /\ Calm
<1> USE DEF DiscardCommit
<1> DEFINE S == {i \in sess[s].mem : inv[i] # "gone"}
<1>1. S \in SUBSET Invoices /\ S \subseteq sess[s].rows /\ \A j \in S : inv[j] # "gone"
  BY SMT DEF Locked, IInv, TypeOK, Session, SessionSound, RowsHeld
<1>2. /\ inv' \in [Invoices -> InvoiceStatus] /\ \A j \in S : inv'[j] # "paid"
      /\ \A j \in Invoices \ S : inv'[j] = inv[j]
  BY <1>1, SMT DEF IInv, TypeOK, SetInvoices, InvoiceStatus, Owed
<1>3. TypeOK'
  <2>1. NoRow \in LedgerRow
    BY SMT DEF NoRow, LedgerRow
  <2>2. ledger' \in [Invoices -> LedgerRow]
    BY <2>1 DEF IInv, TypeOK
  <2> QED
    BY <1>2, <2>2, EndTyped DEF IInv, TypeOK
<1>4. \A t \in Sessions \ {s} : sess[t].rows \cap S = {}
  BY <1>1, SMT DEF IInv, LocksExclusive
<1> QED
  BY <1>1, <1>2, <1>3, <1>4, UnpaidWrite, CommitStep

-----------------------------------------------------------------------------
(* Handlers that start, and handlers that take locks.                      *)

\* A session goes where it holds at most payments nobody else has locked.
LEMMA StartStep ==
    ASSUME IInv, DBUnchanged, NEW s \in Sessions, NEW r \in Session, Goto(s, r),
           r.rows = {}, \A q \in r.pays : PayFree(q), SessionSound(s)'
    PROVE  IInv' /\ Calm
<1>1. /\ sess' \in [Sessions -> Session] /\ sess'[s] = r
      /\ \A t \in Sessions \ {s} : sess'[t] = sess[t]
  BY GotoTyped DEF IInv
<1>2. \A t \in Sessions \ {s} : /\ sess'[s].rows \cap sess[t].rows = {}
                                /\ sess'[s].pays \cap sess[t].pays = {}
  BY <1>1, SMT DEF PayFree
<1> QED
  BY <1>1, <1>2, LocalStep

LEMMA SubmitStep ==
    ASSUME IInv, NEW s \in Sessions, NEW p \in Payments, NEW C \in SUBSET Invoices,
           SubmitTxid(s, p, C) \/ SubmitScreenshot(s, p, C)
    PROVE  IInv' /\ Calm
<1>1. PICK kind \in Kind, pays \in SUBSET {p} :
         /\ Goto(s, Locking("submit", p, kind, pays, C, C, {}))
         /\ \A q \in pays : PayFree(q) /\ pay[q].status = "rejected"
  <2>1. CASE SubmitScreenshot(s, p, C)
    BY <2>1 DEF SubmitScreenshot, Kind
  <2>2. CASE SubmitTxid(s, p, C)
    <3>1. CASE Goto(s, Locking("submit", p, "txid", {}, C, C, {}))
      BY <3>1 DEF Kind
    <3>2. CASE /\ pay[p].status = "rejected" /\ PayFree(p)
               /\ Goto(s, Locking("submit", p, "txid", {p}, C, C, {}))
      BY <3>2 DEF Kind
    <3> QED
      BY <2>2, <3>1, <3>2 DEF SubmitTxid
  <2> QED
    BY <2>1, <2>2
<1> DEFINE r == Locking("submit", p, kind, pays, C, C, {})
<1>2. /\ r \in Session /\ r.op = "submit" /\ r.p = p /\ r.pays = pays /\ r.rows = {}
  BY SMT DEF Locking, Session, LockedHandlers
<1> HIDE DEF r
<1>3. DBUnchanged /\ sess'[s] = r
  BY <1>1, <1>2, GotoTyped DEF IInv, SubmitTxid, SubmitScreenshot, r
<1>4. SessionSound(s)'
  BY <1>1, <1>2, <1>3, SMT DEF SessionSound, RowsHeld, PaymentHeld, SettlementDecided,
         ReversalDecided, SubmissionHeld, UnmarkHeld, StatusRemembered, Settling,
         Reversing, DBUnchanged
<1> QED
  BY <1>1, <1>2, <1>3, <1>4, StartStep DEF r

LEMMA OpenStep ==
    ASSUME IInv, DBUnchanged, NEW s \in Sessions, NEW p \in Payments,
           NEW op \in {"confirm", "verify", "reject", "delete"},
           pay[p].status # "unused", PayFree(p), op = "verify" => pay[p].status # "confirmed",
           Open(s, op, p)
    PROVE  IInv' /\ Calm
<1> DEFINE r == Locking(op, p, pay[p].kind, {p}, {}, pay[p].cover, {})
<1>1. pay[p].kind \in Kind /\ pay[p].cover \in SUBSET Invoices
  BY SMT DEF IInv, TypeOK, PaymentRow
<1>2. /\ r \in Session /\ r.op = op /\ r.p = p /\ r.pays = {p} /\ r.rows = {}
      /\ r.phase = "lock" /\ r.todo = pay[p].cover
  BY <1>1, SMT DEF Locking, Session, LockedHandlers
<1>3. Goto(s, r)
  BY DEF Open
<1> HIDE DEF r
<1>4. sess'[s] = r
  BY <1>2, <1>3, GotoTyped DEF IInv
<1>5. SessionSound(s)'
  BY <1>2, <1>4, SMT DEF SessionSound, RowsHeld, PaymentHeld, SettlementDecided,
         ReversalDecided, SubmissionHeld, UnmarkHeld, StatusRemembered, Settling,
         Reversing, DBUnchanged
<1> QED
  BY <1>2, <1>3, <1>5, StartStep

LEMMA WaitStep ==
    ASSUME IInv, DBUnchanged, NEW s \in Sessions, NEW p \in Payments \cup {NoPay},
           NEW cover \in SUBSET Invoices, NEW mem \in SUBSET Invoices,
           NEW seen \in InvoiceStatus \cup {"none"},
           NEW op \in {"auto", "unmark", "send", "dunning", "recompute"},
           op = "auto" => p \in Payments,
           op = "unmark" => \E i \in Invoices : cover = {i},
           op = "send" => seen \in {"sent", "enforced"},
           op = "recompute" => seen \in InvoiceStatus \ {"paid", "gone"},
           Goto(s, Waiting(op, p, cover, mem, seen))
    PROVE  IInv' /\ Calm
<1> DEFINE r == Waiting(op, p, cover, mem, seen)
<1>1. op \in LockedHandlers \cup UnlockedWriters
  BY SMT DEF LockedHandlers, UnlockedWriters
<1>2. /\ r \in Session /\ r.op = op /\ r.p = p /\ r.pays = {} /\ r.rows = {}
      /\ r.phase = "wait" /\ r.cover = cover /\ r.seen = seen
  BY <1>1, SMT DEF Waiting, Session, Kind
<1> HIDE DEF r
<1>3. Goto(s, r) /\ sess'[s] = r
  BY <1>2, GotoTyped DEF IInv, r
<1>4. SessionSound(s)'
  BY <1>2, <1>3, SMT DEF SessionSound, RowsHeld, PaymentHeld, SettlementDecided,
         ReversalDecided, SubmissionHeld, UnmarkHeld, StatusRemembered, Settling,
         Reversing, DBUnchanged
<1> QED
  BY <1>2, <1>3, <1>4, StartStep

LEMMA RowsStep ==
    ASSUME IInv, DBUnchanged, NEW s \in Sessions,
           NEW cover \in SUBSET Invoices, NEW S \in SUBSET Invoices,
           NEW op \in {"stamp", "unstamp", "discard"},
           Goto(s, Locking(op, NoPay, "txid", {}, cover, S, S))
    PROVE  IInv' /\ Calm
<1> DEFINE r == Locking(op, NoPay, "txid", {}, cover, S, S)
<1>1. op \in UnlockedWriters
  BY SMT DEF UnlockedWriters
<1>2. /\ r \in Session /\ r.op = op /\ r.pays = {} /\ r.rows = {}
      /\ r.phase = "lock" /\ r.todo = S /\ r.mem = S
  BY <1>1, SMT DEF Locking, Session, Kind
<1> HIDE DEF r
<1>3. Goto(s, r) /\ sess'[s] = r
  BY <1>2, GotoTyped DEF IInv, r
<1>4. SessionSound(s)'
  BY <1>2, <1>3, SMT DEF SessionSound, RowsHeld, PaymentHeld, SettlementDecided,
         ReversalDecided, SubmissionHeld, UnmarkHeld, StatusRemembered, Settling,
         Reversing, DBUnchanged
<1> QED
  BY <1>2, <1>3, <1>4, StartStep

\* Every request that only starts a handler.
LEMMA ReadSteps ==
    ASSUME IInv, NEW s \in Sessions,
           \/ \E p \in Payments :
                 \/ Confirm(s, p) \/ Reject(s, p) \/ AutoRead(s, p) \/ Verify(s, p)
                 \/ Delete(s, p)
           \/ \E i \in Invoices : UnmarkRead(s, i) \/ SendRead(s, i) \/ RecomputeRead(s, i)
           \/ \E r \in Resellers : StampRead(s, r)
           \/ DunningRead(s) \/ DiscardRead(s)
    PROVE  IInv' /\ Calm
<1>1. ASSUME NEW p \in Payments, Confirm(s, p) PROVE IInv' /\ Calm
  BY <1>1, OpenStep DEF Confirm
<1>2. ASSUME NEW p \in Payments, Reject(s, p) PROVE IInv' /\ Calm
  BY <1>2, OpenStep DEF Reject
<1>3. ASSUME NEW p \in Payments, Verify(s, p) PROVE IInv' /\ Calm
  BY <1>3, OpenStep DEF Verify
<1>4. ASSUME NEW p \in Payments, Delete(s, p) PROVE IInv' /\ Calm
  BY <1>4, OpenStep DEF Delete
<1>5. ASSUME NEW p \in Payments, AutoRead(s, p) PROVE IInv' /\ Calm
  <2>1. pay[p].cover \in SUBSET Invoices
    BY SMT DEF IInv, TypeOK, PaymentRow
  <2> QED
    BY <1>5, <2>1, WaitStep DEF AutoRead
<1>6. ASSUME NEW i \in Invoices, UnmarkRead(s, i) PROVE IInv' /\ Calm
  <2>1. {i} \in SUBSET Invoices
    OBVIOUS
  <2> QED
    BY <1>6, <2>1, WaitStep DEF UnmarkRead
<1>7. ASSUME NEW i \in Invoices, SendRead(s, i) PROVE IInv' /\ Calm
  <2> DEFINE seen == IF suspended[OwnerOf[i]] THEN "enforced" ELSE "sent"
  <2>1. {i} \in SUBSET Invoices /\ seen \in {"sent", "enforced"} /\ seen \in InvoiceStatus
    BY DEF InvoiceStatus, Owed
  <2>2. Goto(s, Waiting("send", NoPay, {}, {i}, seen)) /\ DBUnchanged
    BY <1>7 DEF SendRead
  <2> HIDE DEF seen
  <2> QED
    BY <2>1, <2>2, WaitStep
<1>8. ASSUME NEW i \in Invoices, RecomputeRead(s, i) PROVE IInv' /\ Calm
  <2>1. {i} \in SUBSET Invoices /\ inv[i] \in InvoiceStatus \ {"paid", "gone"}
    BY <1>8, SMT DEF RecomputeRead, IInv, TypeOK
  <2> QED
    BY <1>8, <2>1, WaitStep DEF RecomputeRead
<1>9. CASE DunningRead(s)
  <2>1. PICK S \in SUBSET Invoices : Goto(s, Waiting("dunning", NoPay, {}, S, "none"))
    BY <1>9 DEF DunningRead
  <2> QED
    BY <1>9, <2>1, WaitStep DEF DunningRead
<1>10. ASSUME NEW r \in Resellers, StampRead(s, r) PROVE IInv' /\ Calm
  <2>1. PICK op \in {"stamp", "unstamp"}, S \in SUBSET Invoices :
           Goto(s, Locking(op, NoPay, "txid", {}, InvoicesOf(r), S, S))
    BY <1>10 DEF StampRead, InvoicesOf
  <2>2. InvoicesOf(r) \in SUBSET Invoices
    BY DEF InvoicesOf
  <2> QED
    BY <1>10, <2>1, <2>2, RowsStep DEF StampRead
<1>11. CASE DiscardRead(s)
  <2>1. PICK S \in SUBSET Invoices : Goto(s, Locking("discard", NoPay, "txid", {}, {}, S, S))
    BY <1>11 DEF DiscardRead
  <2> QED
    BY <1>11, <2>1, RowsStep DEF DiscardRead
<1> QED
  BY <1>1, <1>2, <1>3, <1>4, <1>5, <1>6, <1>7, <1>8, <1>9, <1>10, <1>11

\* A session that locks its next row, or skips one that is gone.
LEMMA RowStep ==
    ASSUME IInv, DBUnchanged, NEW s \in Sessions, NEW i \in Invoices, sess[s].phase = "lock",
           \/ TakeRow(s, i) /\ Exists(i) /\ RowFree(i)
           \/ SkipRow(s, i) /\ ~Exists(i) /\ sess[s].op \notin {"stamp", "unstamp"}
    PROVE  IInv' /\ Calm
<1> USE DEF DBUnchanged
<1>1. /\ sess' \in [Sessions -> Session] /\ \A t \in Sessions \ {s} : sess'[t] = sess[t]
      /\ sess'[s].phase = "lock" /\ sess'[s].pays = sess[s].pays
      /\ sess'[s].todo = sess[s].todo \ {i} /\ sess'[s].mem = sess[s].mem
      /\ sess'[s].op = sess[s].op /\ sess'[s].p = sess[s].p /\ sess'[s].seen = sess[s].seen
      /\ sess'[s].cover = sess[s].cover
      /\ \/ sess'[s].rows = sess[s].rows \cup {i} /\ Exists(i) /\ RowFree(i)
         \/ /\ sess'[s].rows = sess[s].rows /\ ~Exists(i)
            /\ sess[s].op \notin {"stamp", "unstamp"}
  BY TakeTyped DEF IInv
<1>2. \A t \in Sessions \ {s} : /\ sess'[s].rows \cap sess[t].rows = {}
                                /\ sess'[s].pays \cap sess[t].pays = {}
  BY <1>1, SMT DEF RowFree, IInv, LocksExclusive
<1>3. SessionSound(s)'
  <2> USE DEF IInv, SessionSound
  <2>1. RowsHeld(s)'
    BY <1>1, SMT DEF RowsHeld, Exists
  <2>2. PaymentHeld(s)'
    BY <1>1, SMT DEF PaymentHeld, Exists
  <2>3. UnmarkHeld(s)'
    <3>1. UnmarkHeld(s)
      OBVIOUS
    <3> QED
      BY <1>1, <3>1 DEF UnmarkHeld, Exists
  <2>4. SubmissionHeld(s)' /\ StatusRemembered(s)'
    BY <1>1 DEF SubmissionHeld, StatusRemembered
  <2>5. SettlementDecided(s)' /\ ReversalDecided(s)'
    BY <1>1, SMT DEF SettlementDecided, ReversalDecided
  <2> QED
    BY <2>1, <2>2, <2>3, <2>4, <2>5
<1> QED
  BY <1>1, <1>2, <1>3, LocalStep

LEMMA LockInvoiceStep ==
    ASSUME IInv, NEW s \in Sessions, LockInvoice(s)
    PROVE  IInv' /\ Calm
<1>1. PICK i \in Invoices :
         \/ Exists(i) /\ RowFree(i) /\ TakeRow(s, i)
         \/ ~Exists(i) /\ sess[s].op \notin {"stamp", "unstamp"} /\ SkipRow(s, i)
         \/ End(s)
  BY DEF LockInvoice
<1>2. CASE End(s)
  BY <1>2, EndStep, NoPayAssumption DEF LockInvoice
<1>3. CASE ~End(s)
  BY <1>1, <1>3, RowStep DEF LockInvoice
<1> QED
  BY <1>2, <1>3

LEMMA SubmitLockStep ==
    ASSUME IInv, NEW s \in Sessions, SubmitLock(s)
    PROVE  IInv' /\ Calm
<1>1. PICK i \in Invoices : (inv[i] \in Owed /\ RowFree(i) /\ TakeRow(s, i)) \/ End(s)
  BY DEF SubmitLock
<1>2. CASE End(s)
  BY <1>2, EndStep, NoPayAssumption DEF SubmitLock
<1>3. CASE ~End(s)
  <2>1. Exists(i)
    BY <1>1, <1>3, SMT DEF Exists, Owed
  <2> QED
    BY <1>1, <1>3, <2>1, RowStep DEF SubmitLock
<1> QED
  BY <1>2, <1>3

\* A session that waited locks the payments it works on.
LEMMA AutoLockStep ==
    ASSUME IInv, NEW s \in Sessions, AutoLock(s)
    PROVE  IInv' /\ Calm
<1> DEFINE p == sess[s].p
<1>1. CASE pay[p].status # "pending"
  BY <1>1, EndStep, NoPayAssumption DEF AutoLock
<1>2. CASE pay[p].status = "pending"
  <2>1. p \in Payments /\ pay[p].cover \in SUBSET Invoices
    BY SMT DEF AutoLock, IInv, SessionSound, PaymentHeld, Settling, TypeOK, PaymentRow
  <2>2. /\ sess' \in [Sessions -> Session] /\ \A t \in Sessions \ {s} : sess'[t] = sess[t]
        /\ sess'[s].phase = "lock" /\ sess'[s].pays = {p} /\ sess'[s].todo = pay[p].cover
        /\ sess'[s].op = "auto" /\ sess'[s].p = p /\ sess'[s].rows = sess[s].rows
    BY <1>2, <2>1, HoldTyped DEF AutoLock, IInv
  <2>3. \A t \in Sessions \ {s} : /\ sess'[s].rows \cap sess[t].rows = {}
                                  /\ sess'[s].pays \cap sess[t].pays = {}
    BY <2>2, SMT DEF AutoLock, PayFree, IInv, LocksExclusive
  <2>4. SessionSound(s)'
    BY <1>2, <2>1, <2>2, SMT DEF AutoLock, DBUnchanged, IInv, SessionSound, RowsHeld,
           PaymentHeld, SettlementDecided, ReversalDecided, SubmissionHeld, UnmarkHeld,
           StatusRemembered, Settling, Reversing
  <2> QED
    BY <2>2, <2>3, <2>4, LocalStep DEF AutoLock
<1> QED
  BY <1>1, <1>2

LEMMA UnmarkRetireStep ==
    ASSUME IInv, NEW s \in Sessions, UnmarkRetire(s)
    PROVE  IInv' /\ Calm
<1>1. PICK i \in Invoices : /\ sess[s].cover = {i} /\ HoldPayments(s, Manual(i), {i})
                            /\ \A q \in Manual(i) : PayFree(q)
  BY DEF UnmarkRetire, IInv, SessionSound, UnmarkHeld
<1>2. /\ Manual(i) \in SUBSET Payments /\ {i} \in SUBSET Invoices
      /\ \A q \in Manual(i) : pay[q].status = "confirmed" /\ pay[q].cover = {i}
  BY DEF Manual
<1>3. /\ sess' \in [Sessions -> Session] /\ \A t \in Sessions \ {s} : sess'[t] = sess[t]
      /\ sess'[s].phase = "lock" /\ sess'[s].pays = Manual(i) /\ sess'[s].todo = {i}
      /\ sess'[s].op = "unmark" /\ sess'[s].cover = {i} /\ sess'[s].rows = sess[s].rows
  <2>1. TypeOK /\ sess[s].op = "unmark"
    BY DEF UnmarkRetire, IInv
  <2> QED
    BY <1>1, <1>2, <2>1, HoldTyped
<1>4. \A t \in Sessions \ {s} : /\ sess'[s].rows \cap sess[t].rows = {}
                                /\ sess'[s].pays \cap sess[t].pays = {}
  BY <1>1, <1>3, SMT DEF PayFree, IInv, LocksExclusive
<1>5. SessionSound(s)'
  BY <1>2, <1>3, SMT DEF UnmarkRetire, DBUnchanged, IInv, SessionSound, RowsHeld,
         PaymentHeld, SettlementDecided, ReversalDecided, SubmissionHeld, UnmarkHeld,
         StatusRemembered, Settling, Reversing
<1> QED
  BY <1>3, <1>4, <1>5, LocalStep DEF UnmarkRetire

-----------------------------------------------------------------------------
(* Decisions under the locks.                                              *)

\* A session that decides keeps its locks; what it decided has to be sound.
LEMMA DecideStep ==
    ASSUME IInv, DBUnchanged, NEW s \in Sessions, NEW mem \in SUBSET Invoices,
           NEW seen \in InvoiceStatus \cup PaymentStatus, Decided(s, mem, seen),
           sess[s].todo = {}, sess[s].op \in {"submit", "unmark"} \cup Settling \cup Reversing,
           sess[s].phase = "lock",
           SettlementDecided(s)', ReversalDecided(s)',
           sess[s].op = "unmark" => mem = sess[s].cover /\ \A i \in mem : inv[i] # "gone"
    PROVE  IInv' /\ Calm
<1> USE DEF DBUnchanged
<1>1. /\ sess' \in [Sessions -> Session] /\ \A t \in Sessions \ {s} : sess'[t] = sess[t]
      /\ sess'[s].phase = "commit" /\ sess'[s].mem = mem /\ sess'[s].seen = seen
      /\ sess'[s].op = sess[s].op /\ sess'[s].p = sess[s].p
      /\ sess'[s].cover = sess[s].cover /\ sess'[s].pays = sess[s].pays
      /\ sess'[s].todo = {} /\ sess'[s].rows = sess[s].rows
  BY DecidedTyped DEF IInv
<1>2. \A t \in Sessions \ {s} : /\ sess'[s].rows \cap sess[t].rows = {}
                                /\ sess'[s].pays \cap sess[t].pays = {}
  BY <1>1, SMT DEF IInv, LocksExclusive
<1>3. SessionSound(s)'
  <2> USE DEF IInv, SessionSound
  <2>1. RowsHeld(s)'
    BY <1>1, SMT DEF RowsHeld, Settling, Reversing
  <2>2. PaymentHeld(s)'
    BY <1>1, SMT DEF PaymentHeld
  <2>3. UnmarkHeld(s)'
    <3>1. UnmarkHeld(s) /\ RowsHeld(s)
      OBVIOUS
    <3> QED
      BY <1>1, <3>1 DEF UnmarkHeld, RowsHeld, Settling, Reversing
  <2>4. SubmissionHeld(s)' /\ StatusRemembered(s)'
    BY <1>1, SMT DEF SubmissionHeld, StatusRemembered, Settling, Reversing
  <2> QED
    BY <2>1, <2>2, <2>3, <2>4
<1> QED
  BY <1>1, <1>2, <1>3, LocalStep

LEMMA SubmitDecideStep ==
    ASSUME IInv, NEW s \in Sessions, SubmitDecide(s)
    PROVE  IInv' /\ Calm
<1>1. CASE End(s)
  BY <1>1, EndStep, NoPayAssumption DEF SubmitDecide
<1>2. CASE Decided(s, {}, "pending")
  <2>1. "pending" \in PaymentStatus
    BY DEF PaymentStatus
  <2>2. sess'[s].op = "submit"
    BY <1>2, <2>1, DecidedTyped DEF IInv, SubmitDecide, Locked
  <2>3. SettlementDecided(s)' /\ ReversalDecided(s)'
    BY <2>2, SMT DEF SettlementDecided, ReversalDecided, Settling, Reversing
  <2> QED
    BY <1>2, <2>1, <2>3, DecideStep DEF SubmitDecide, Locked
<1> QED
  BY <1>1, <1>2 DEF SubmitDecide

\* A settlement decides on owed members of its payment's set.
LEMMA SettleDecideStep ==
    ASSUME IInv, DBUnchanged, NEW s \in Sessions, Locked(s, Settling),
           NEW mem \in SUBSET OwedMembers(s),
           NEW seen \in {"confirmed", "pending", "rejected"}, Decided(s, mem, seen),
           mem # {} \/ sess[s].op # "verify" => seen = "confirmed"
    PROVE  IInv' /\ Calm
<1>1. /\ sess[s].p \in Payments /\ pay[sess[s].p].cover \subseteq Invoices
      /\ \A i \in pay[sess[s].p].cover : i \in sess[s].rows \/ inv[i] = "gone"
  BY SMT DEF IInv, SessionSound, PaymentHeld, Locked, TypeOK, PaymentRow
<1>2. mem \in SUBSET Invoices /\ mem \subseteq pay[sess[s].p].cover /\ mem \subseteq sess[s].rows
  BY <1>1, SMT DEF OwedMembers, Cover, Owed
<1>3. seen \in PaymentStatus
  BY DEF PaymentStatus
<1>4. /\ sess'[s].mem = mem /\ sess'[s].seen = seen /\ sess'[s].op = sess[s].op
      /\ sess'[s].p = sess[s].p /\ sess'[s].rows = sess[s].rows
  BY <1>2, <1>3, DecidedTyped DEF IInv
<1>5. SettlementDecided(s)' /\ ReversalDecided(s)'
  BY <1>2, <1>4, SMT DEF SettlementDecided, ReversalDecided, Settling, Reversing, Locked,
         DBUnchanged
<1>6. sess[s].todo = {} /\ sess[s].op \in Settling /\ sess[s].phase = "lock"
  BY DEF Locked
<1>7. sess[s].op # "unmark"
  BY <1>6 DEF Settling
<1> QED
  BY <1>2, <1>3, <1>5, <1>6, <1>7, DecideStep

LEMMA ConfirmDecideStep ==
    ASSUME IInv, NEW s \in Sessions, ConfirmDecide(s)
    PROVE  IInv' /\ Calm
<1>1. CASE End(s)
  BY <1>1, EndStep, NoPayAssumption DEF ConfirmDecide
<1>2. CASE Decided(s, OwedMembers(s), "confirmed")
  <2>1. Locked(s, Settling) /\ DBUnchanged
    BY DEF ConfirmDecide, Locked, Settling
  <2> QED
    BY <1>2, <2>1, SettleDecideStep
<1> QED
  BY <1>1, <1>2 DEF ConfirmDecide

LEMMA VerifyDecideStep ==
    ASSUME IInv, NEW s \in Sessions, VerifyDecide(s)
    PROVE  IInv' /\ Calm
<1>1. Locked(s, Settling) /\ DBUnchanged /\ sess[s].op = "verify"
  BY DEF VerifyDecide, Locked, Settling
<1>2. CASE Decided(s, OwedMembers(s), "confirmed")
  BY <1>1, <1>2, SettleDecideStep
<1>3. ASSUME NEW verdict \in {"confirmed", "pending", "rejected"}, Decided(s, {}, verdict)
      PROVE  IInv' /\ Calm
  BY <1>1, <1>3, SettleDecideStep
<1> QED
  BY <1>2, <1>3 DEF VerifyDecide

LEMMA RevertDecideStep ==
    ASSUME IInv, NEW s \in Sessions, RevertDecide(s)
    PROVE  IInv' /\ Calm
<1> DEFINE p == sess[s].p
           settled == {i \in Cover(s) : inv[i] = "paid" /\ ~SettledByOther(i, p)}
           mem == IF pay[p].status = "confirmed" THEN settled ELSE {}
           seen == IF sess[s].op = "reject" THEN "rejected" ELSE "deleted"
<1>1. /\ sess[s].op \in Reversing /\ sess[s].phase = "lock" /\ sess[s].todo = {} /\ DBUnchanged
      /\ Decided(s, mem, seen)
  BY DEF RevertDecide, Locked, Reversing
<1>2. /\ p \in Payments /\ pay[p].cover \subseteq Invoices
      /\ \A i \in pay[p].cover : i \in sess[s].rows \/ inv[i] = "gone"
  BY <1>1, SMT DEF IInv, SessionSound, PaymentHeld, TypeOK, PaymentRow
<1>3. /\ mem \in SUBSET Invoices /\ mem \subseteq sess[s].rows
      /\ seen \in {"rejected", "deleted"} /\ seen \in PaymentStatus
  BY <1>2, SMT DEF Cover, PaymentStatus
<1>4. \A i \in pay[p].cover \ mem : inv[i] = "paid" => Backers(i) # {p}
  BY <1>2, SMT DEF Cover, SettledByOther, Backers
<1>5. \A i \in mem : Backers(i) \subseteq {p}
  BY <1>2, SMT DEF Cover, SettledByOther, Backers
<1> HIDE DEF mem, seen
<1>6. /\ sess'[s].mem = mem /\ sess'[s].seen = seen /\ sess'[s].op = sess[s].op
      /\ sess'[s].p = p /\ sess'[s].rows = sess[s].rows
  BY <1>1, <1>3, DecidedTyped DEF IInv
<1>7. inv' = inv /\ pay' = pay /\ \A i : Backers(i)' = Backers(i)
  BY <1>1 DEF Backers, DBUnchanged
<1>8. ReversalDecided(s)'
  BY <1>3, <1>4, <1>5, <1>6, <1>7, SMT DEF ReversalDecided
<1>9. SettlementDecided(s)'
  BY <1>1, <1>6, SMT DEF SettlementDecided, Settling, Reversing
<1>10. sess[s].op # "unmark"
  BY <1>1 DEF Reversing
<1> QED
  BY <1>1, <1>3, <1>8, <1>9, <1>10, DecideStep

LEMMA UnmarkDecideStep ==
    ASSUME IInv, NEW s \in Sessions, UnmarkDecide(s)
    PROVE  IInv' /\ Calm
<1>1. CASE End(s)
  BY <1>1, EndStep, NoPayAssumption DEF UnmarkDecide
<1>2. CASE ~End(s)
  <2>1. /\ Decided(s, sess[s].cover, "sent") /\ \A i \in sess[s].cover : inv[i] = "paid"
        /\ sess[s].op = "unmark" /\ sess[s].phase = "lock" /\ sess[s].todo = {} /\ DBUnchanged
    BY <1>2 DEF UnmarkDecide, Locked
  <2>2. sess[s].cover \in SUBSET Invoices /\ "sent" \in InvoiceStatus
    BY SMT DEF IInv, TypeOK, Session, InvoiceStatus, Owed
  <2>3. sess'[s].op = "unmark"
    BY <2>1, <2>2, DecidedTyped DEF IInv
  <2>4. SettlementDecided(s)' /\ ReversalDecided(s)'
    BY <2>3, SMT DEF SettlementDecided, ReversalDecided, Settling, Reversing
  <2>5. \A i \in sess[s].cover : inv[i] # "gone"
    BY <2>1
  <2> QED
    BY <2>1, <2>2, <2>4, <2>5, DecideStep
<1> QED
  BY <1>1, <1>2

-----------------------------------------------------------------------------
(* The theorems.                                                           *)

LEMMA InitInv == Init => IInv
<1> SUFFICES ASSUME Init PROVE IInv
  OBVIOUS
<1> USE DEF Init
<1>1. TypeOK
  <2>1. Idle \in Session
    BY SMT DEF Idle, Session, Kind
  <2>2. inv \in [Invoices -> InvoiceStatus] /\ sentAt \in [Invoices -> BOOLEAN]
    BY DEF InvoiceStatus, Owed
  <2>3. pay \in [Payments -> PaymentRow]
    BY SMT DEF PaymentRow, PaymentStatus, Kind
  <2>4. ledger \in [Invoices -> LedgerRow]
    <3>1. NoRow \in LedgerRow /\ [status |-> "sent", tx |-> NoPay] \in LedgerRow
      BY SMT DEF NoRow, LedgerRow, InvoiceStatus, Owed
    <3> QED
      BY <3>1
  <2> QED
    BY <2>1, <2>2, <2>3, <2>4 DEF TypeOK
<1>2. \A s \in Sessions : sess[s].op = "idle" /\ sess[s].rows = {} /\ sess[s].pays = {}
  BY DEF Idle
<1>3. LocksExclusive /\ PaidIsBacked
  BY <1>2, SMT DEF LocksExclusive, PaidIsBacked
<1>4. \A s \in Sessions : SessionSound(s)
  BY <1>2, SMT DEF SessionSound, RowsHeld, PaymentHeld, SettlementDecided, ReversalDecided,
         SubmissionHeld, UnmarkHeld, StatusRemembered, Settling, Reversing
<1> QED
  BY <1>1, <1>3, <1>4 DEF IInv

LEMMA NextInv ==
    ASSUME IInv, [Next]_vars
    PROVE  IInv' /\ Calm
<1>1. CASE UNCHANGED vars
  <2>1. sess' = sess /\ \A t \in Sessions : Undisturbed(t)
    BY <1>1 DEF vars, Undisturbed, Backers
  <2>2. TypeOK' /\ PaidIsBacked' /\ NoneRevived
    BY <1>1 DEF vars, IInv, TypeOK, PaidIsBacked, NoneRevived
  <2> QED
    BY <2>1, <2>2, AtomicStep
<1>2. CASE Atomic
  BY <1>2, PaymentSteps, MarkPaidStep, CancelStep, RevertToDraftStep, EditStep, DeferStep
     DEF Atomic
<1>3. ASSUME NEW s \in Sessions, Request(s) PROVE IInv' /\ Calm
  <2>1. ASSUME NEW p \in Payments, NEW C \in SUBSET Invoices \ {{}},
               SubmitTxid(s, p, C) \/ SubmitScreenshot(s, p, C)
        PROVE  IInv' /\ Calm
    BY <2>1, SubmitStep
  <2>2. ASSUME NEW i \in Invoices, DeferCommit(s, i) \/ DunningFlip(s, i) PROVE IInv' /\ Calm
    BY <2>2, DeferCommitStep, DunningFlipStep
  <2> QED
    BY <1>3, <2>1, <2>2, ReadSteps DEF Request
<1>4. ASSUME NEW s \in Sessions, Acquire(s) PROVE IInv' /\ Calm
  BY <1>4, LockInvoiceStep, SubmitLockStep, AutoLockStep, UnmarkRetireStep, SendCommitStep,
     DeferTailStep, RecomputeCommitStep, DiscardCommitStep DEF Acquire
<1>5. ASSUME NEW s \in Sessions, Proceed(s) PROVE IInv' /\ Calm
  <2>1. CASE SubmitDecide(s) \/ ConfirmDecide(s) \/ VerifyDecide(s) \/ RevertDecide(s)
             \/ UnmarkDecide(s)
    BY <2>1, SubmitDecideStep, ConfirmDecideStep, VerifyDecideStep, RevertDecideStep,
       UnmarkDecideStep
  <2>2. CASE SubmitCommit(s) \/ ConfirmCommit(s) \/ RevertCommit(s) \/ UnmarkCommit(s)
             \/ StampCommit(s) \/ UnstampCommit(s)
    BY <2>2, SubmitCommitStep, ConfirmCommitStep, RevertCommitStep, UnmarkCommitStep,
       StampCommitStep, UnstampCommitStep
  <2>3. CASE SendFail(s) \/ DunningEnd(s) \/ RecomputeFail(s) \/ DeadlockVictim(s)
    BY <2>3, EndStep, NoPayAssumption DEF SendFail, DunningEnd, RecomputeFail, DeadlockVictim
  <2> QED
    BY <1>5, <2>1, <2>2, <2>3 DEF Proceed
<1> QED
  BY <1>1, <1>2, <1>3, <1>4, <1>5 DEF Next

\* What every session relies on holds in every state any set of handlers reaches.
THEOREM Inductive == Spec => []IInv
<1>1. IInv /\ [Next]_vars => IInv'
  BY NextInv
<1> QED
  BY InitInv, <1>1, PTL DEF Spec

\* Rows, ledger and sessions keep their types, for all handlers together.
THEOREM TypeCorrect == Spec => []TypeOK
<1>1. IInv => TypeOK
  BY DEF IInv
<1> QED
  BY Inductive, <1>1, PTL

\* A paid invoice has a confirmed payment behind it in every reachable state, with the
\* handlers that write from stale reads included (payments.py, delete_payment).
THEOREM PaidBacked == Spec => []PaidIsBacked
<1>1. IInv => PaidIsBacked
  BY DEF IInv
<1> QED
  BY Inductive, <1>1, PTL

\* No two handlers ever hold the same row lock.
THEOREM ExclusiveLocks == Spec => []LocksExclusive
<1>1. IInv => LocksExclusive
  BY DEF IInv
<1> QED
  BY Inductive, <1>1, PTL

\* A session that reverses a payment ends by its commit, or writes no invoice.
LEMMA ReversalEnds ==
    ASSUME TypeOK, NEW s \in Sessions, sess[s].op \in {"reject", "delete"}, IsIdle(s)', [Next]_vars
    PROVE  RevertCommit(s) \/ inv' = inv
<1>1. sess'[s] # sess[s]
  BY DEF IsIdle
<1>2. CASE UNCHANGED vars
  BY <1>2 DEF vars
<1>3. CASE Atomic
  BY <1>1, <1>3 DEF Atomic, DiscardProof, DeleteUnsettled, VerifyEarly, MarkPaid, Cancel,
     RevertToDraft, Edit, Defer
<1>4. ASSUME NEW t \in Sessions, Request(t) \/ Acquire(t) \/ Proceed(t)
      PROVE  t = s
  <2>1. PICK r : sess' = [sess EXCEPT ![t] = r]
    BY <1>4 DEF Request, Acquire, Proceed, Goto, End, Decided, HoldPayments, TakeRow, SkipRow,
       Open, SubmitTxid, SubmitScreenshot, Confirm, Reject, AutoRead, Verify, Delete,
       UnmarkRead, SendRead, DeferCommit, RecomputeRead, DunningFlip, StampRead,
       DunningRead, DiscardRead, LockInvoice, SubmitLock, AutoLock, UnmarkRetire,
       SendCommit, DeferTail, RecomputeCommit, DiscardCommit, SubmitDecide, SubmitCommit,
       ConfirmDecide, VerifyDecide, RevertDecide, UnmarkDecide, ConfirmCommit, RevertCommit,
       UnmarkCommit, StampCommit, UnstampCommit, SendFail, DunningEnd, RecomputeFail,
       DeadlockVictim
  <2> QED
    BY <1>1, <2>1 DEF TypeOK
<1>5. CASE Request(s)
  BY <1>5 DEF Request, IsIdle, SubmitTxid, SubmitScreenshot, Confirm, Reject, AutoRead,
     Verify, Delete, UnmarkRead, SendRead, DeferCommit, RecomputeRead, DunningFlip,
     StampRead, DunningRead, DiscardRead, DBUnchanged
<1>6. CASE Acquire(s)
  BY <1>6 DEF Acquire, LockInvoice, SubmitLock, AutoLock, UnmarkRetire, SendCommit,
     DeferTail, RecomputeCommit, DiscardCommit, Locked, DBUnchanged
<1>7. CASE Proceed(s)
  BY <1>7 DEF Proceed, SubmitDecide, SubmitCommit, ConfirmDecide, VerifyDecide,
     RevertDecide, UnmarkDecide, ConfirmCommit, UnmarkCommit, StampCommit, UnstampCommit,
     SendFail, DunningEnd, RecomputeFail, DeadlockVictim, Locked, Deciding, DBUnchanged
<1> QED
  BY <1>2, <1>3, <1>4, <1>5, <1>6, <1>7 DEF Next

\* Rejecting or deleting a payment un-pays only invoices no other confirmed payment
\* settles when the reversal commits (_settled_by_other_confirmed).
THEOREM ReversalSafe == Spec => ReversalSparesOthers
<1> DEFINE Spares == \A s \in Sessions : \A i \in Invoices :
              /\ sess[s].op \in {"reject", "delete"} /\ IsIdle(s)'
              /\ inv[i] = "paid" /\ inv'[i] # "paid"
              => \A q \in Payments : ~(pay'[q].status = "confirmed" /\ i \in pay'[q].cover)
<1>1. ASSUME IInv, [Next]_vars PROVE Spares
  <2> SUFFICES ASSUME NEW s \in Sessions, NEW i \in Invoices,
                      sess[s].op \in {"reject", "delete"}, IsIdle(s)',
                      inv[i] = "paid", inv'[i] # "paid",
                      NEW q \in Payments, pay'[q].status = "confirmed", i \in pay'[q].cover
               PROVE  FALSE
    OBVIOUS
  <2>1. RevertCommit(s)
    BY <1>1, ReversalEnds DEF IInv
  <2>2. /\ sess[s].p \in Payments /\ sess[s].seen \in {"rejected", "deleted"}
        /\ \A j \in sess[s].mem : Backers(j) \subseteq {sess[s].p}
    BY <1>1, <2>1, SMT DEF RevertCommit, Deciding, IInv, SessionSound, PaymentHeld,
           ReversalDecided, Reversing
  <2>3. i \in sess[s].mem
    BY <2>1, SMT DEF RevertCommit, SetInvoices
  <2>4. pay'[sess[s].p].status = sess[s].seen /\ \A r \in Payments \ {sess[s].p} : pay'[r] = pay[r]
    BY <1>1, <2>1, <2>2, SMT DEF RevertCommit, SetPayment, IInv, TypeOK, PaymentRow
  <2>5. q \in Backers(i) /\ q # sess[s].p
    BY <2>2, <2>4, SMT DEF Backers
  <2> QED
    BY <2>2, <2>3, <2>5
<1>2. IInv /\ [Next]_vars => [Spares]_vars
  BY <1>1
<1> QED
  BY Inductive, <1>2, PTL DEF Spec, ReversalSparesOthers

-----------------------------------------------------------------------------
(* What a step does to the session that takes it.                          *)

\* A request starts or waits: it has no row, and waiting it has no payment either.
Starts(s) ==
    /\ sess'[s].op \in Ops \cup {sess[s].op} /\ sess'[s].phase \in {"wait", "lock"}
    /\ sess'[s].rows = {}
    /\ sess'[s].phase = "wait" => sess'[s].pays = {} /\ sess'[s].op # "submit"
    /\ sess'[s].op = "submit" => sess'[s].cover = sess'[s].todo

\* The next row is locked, or left out because it is gone.
Takes(s) ==
    /\ sess[s].phase = "lock" /\ sess'[s].phase = "lock" /\ sess'[s].op = sess[s].op
    /\ sess'[s].cover = sess[s].cover
    /\ \E i \in Invoices :
          /\ NextLock(s, i)
          /\ sess'[s].todo = sess[s].todo \ {i}
          /\ sess'[s].rows \subseteq sess[s].rows \cup {i}
          /\ sess[s].op = "submit" => sess'[s].rows = sess[s].rows \cup {i}

\* A decision keeps the locks and is one the session may commit.
Decides(s) ==
    /\ sess[s].phase = "lock" /\ sess'[s].phase = "commit" /\ sess'[s].op = sess[s].op
    /\ sess[s].todo = {} /\ sess'[s].todo = {} /\ sess'[s].rows = sess[s].rows
    /\ ConfirmReady(s)' /\ ReversalReady(s)' /\ UnmarkReady(s)'
    /\ sess[s].op = "submit" => /\ sess'[s].cover = sess[s].cover
                                /\ ~HeldByPending(sess[s].cover) /\ pay' = pay

\* The dunning run forgets a debt it has flipped.
Forgets(s) ==
    /\ sess[s].op = "dunning" /\ sess'[s].op = "dunning" /\ sess'[s].phase = sess[s].phase
    /\ sess'[s].rows = sess[s].rows /\ sess'[s].pays = sess[s].pays
    /\ sess'[s].todo = sess[s].todo

Moves(s) == sess'[s] = Idle \/ Starts(s) \/ Takes(s) \/ Decides(s) \/ Forgets(s)

LEMMA IdleFields ==
    /\ Idle.op = "idle" /\ Idle.phase = "none" /\ Idle.rows = {} /\ Idle.pays = {}
    /\ Idle.todo = {}
  BY DEF Idle

LEMMA EndMoves ==
    ASSUME TypeOK, NEW s \in Sessions, End(s)
    PROVE  Moves(s)
  BY DEF TypeOK, End, Goto, Moves

\* Only the session that takes a step changes.
LEMMA OneSession ==
    ASSUME TypeOK, NEW s \in Sessions, Request(s) \/ Acquire(s) \/ Proceed(s)
    PROVE  \A t \in Sessions \ {s} : sess'[t] = sess[t]
<1>1. PICK r : sess' = [sess EXCEPT ![s] = r]
  BY DEF Request, Acquire, Proceed, Goto, End, Decided, HoldPayments, TakeRow, SkipRow,
     Open, SubmitTxid, SubmitScreenshot, Confirm, Reject, AutoRead, Verify, Delete,
     UnmarkRead, SendRead, DeferCommit, RecomputeRead, DunningFlip, StampRead,
     DunningRead, DiscardRead, LockInvoice, SubmitLock, AutoLock, UnmarkRetire,
     SendCommit, DeferTail, RecomputeCommit, DiscardCommit, SubmitDecide, SubmitCommit,
     ConfirmDecide, VerifyDecide, RevertDecide, UnmarkDecide, ConfirmCommit, RevertCommit,
     UnmarkCommit, StampCommit, UnstampCommit, SendFail, DunningEnd, RecomputeFail,
     DeadlockVictim
<1> QED
  BY <1>1 DEF TypeOK

LEMMA OpenMoves ==
    ASSUME TypeOK, NEW s \in Sessions, NEW p \in Payments, NEW op \in Ops, op # "submit",
           Open(s, op, p)
    PROVE  Moves(s)
<1>1. sess'[s] = Locking(op, p, pay[p].kind, {p}, {}, pay[p].cover, {})
  BY DEF Open, Goto, TypeOK
<1> QED
  BY <1>1, SMT DEF Moves, Starts, Locking

LEMMA WaitMoves ==
    ASSUME TypeOK, NEW s \in Sessions, NEW op \in Ops, op # "submit", NEW p, NEW cover,
           NEW mem, NEW seen, Goto(s, Waiting(op, p, cover, mem, seen))
    PROVE  Moves(s)
<1>1. sess'[s] = Waiting(op, p, cover, mem, seen)
  BY DEF Goto, TypeOK
<1> QED
  BY <1>1, SMT DEF Moves, Starts, Waiting

LEMMA RowsMoves ==
    ASSUME TypeOK, NEW s \in Sessions, NEW op \in Ops, NEW p, NEW kind, NEW pays, NEW cover,
           NEW todo, NEW mem, op = "submit" => cover = todo,
           Goto(s, Locking(op, p, kind, pays, cover, todo, mem))
    PROVE  Moves(s)
<1>1. sess'[s] = Locking(op, p, kind, pays, cover, todo, mem)
  BY DEF Goto, TypeOK
<1> QED
  BY <1>1, SMT DEF Moves, Starts, Locking

LEMMA RequestMoves ==
    ASSUME IInv, NEW s \in Sessions, Request(s)
    PROVE  Moves(s)
<1> USE DEF IInv
<1>1. ASSUME NEW p \in Payments, NEW C \in SUBSET Invoices,
             SubmitTxid(s, p, C) \/ SubmitScreenshot(s, p, C)
      PROVE  Moves(s)
  BY <1>1, RowsMoves DEF SubmitTxid, SubmitScreenshot
<1>2. ASSUME NEW p \in Payments,
             Confirm(s, p) \/ Reject(s, p) \/ Verify(s, p) \/ Delete(s, p)
      PROVE  Moves(s)
  BY <1>2, OpenMoves DEF Confirm, Reject, Verify, Delete
<1>3. ASSUME NEW p \in Payments, AutoRead(s, p) PROVE Moves(s)
  BY <1>3, WaitMoves DEF AutoRead
<1>4. ASSUME NEW i \in Invoices,
             UnmarkRead(s, i) \/ SendRead(s, i) \/ DeferCommit(s, i) \/ RecomputeRead(s, i)
      PROVE  Moves(s)
  BY <1>4, WaitMoves DEF UnmarkRead, SendRead, DeferCommit, RecomputeRead
<1>5. ASSUME NEW i \in Invoices, DunningFlip(s, i) PROVE Moves(s)
  <2>1. sess'[s] = [sess[s] EXCEPT !.mem = @ \ {i}] /\ sess[s] \in Session
    BY <1>5 DEF DunningFlip, Goto, TypeOK
  <2>2. Forgets(s)
    BY <1>5, <2>1, SMT DEF DunningFlip, Forgets, Session
  <2> QED
    BY <2>2 DEF Moves
<1>6. ASSUME NEW r \in Resellers, StampRead(s, r) PROVE Moves(s)
  BY <1>6, RowsMoves DEF StampRead
<1>7. CASE DunningRead(s)
  BY <1>7, WaitMoves DEF DunningRead
<1>8. CASE DiscardRead(s)
  BY <1>8, RowsMoves DEF DiscardRead
<1> QED
  BY <1>1, <1>2, <1>3, <1>4, <1>5, <1>6, <1>7, <1>8 DEF Request

\* A session that takes or skips the next row.
LEMMA RowMoves ==
    ASSUME TypeOK, NEW s \in Sessions, NEW i \in Invoices, sess[s].phase = "lock",
           NextLock(s, i), TakeRow(s, i) \/ (SkipRow(s, i) /\ sess[s].op # "submit")
    PROVE  Moves(s)
<1>1. /\ sess'[s].phase = sess[s].phase /\ sess'[s].todo = sess[s].todo \ {i}
      /\ sess'[s].op = sess[s].op /\ sess'[s].cover = sess[s].cover
      /\ TakeRow(s, i) => sess'[s].rows = sess[s].rows \cup {i}
      /\ SkipRow(s, i) => sess'[s].rows = sess[s].rows
  BY TakeTyped
<1>2. Takes(s)
  BY <1>1 DEF Takes
<1> QED
  BY <1>2 DEF Moves

\* A session that waited without a row locks payments.
LEMMA HoldMoves ==
    ASSUME TypeOK, NEW s \in Sessions, NEW pays \in SUBSET Payments,
           NEW todo \in SUBSET Invoices, sess[s].phase = "wait", sess[s].op # "submit",
           LockOrder(s), HoldPayments(s, pays, todo)
    PROVE  Moves(s)
<1>1. /\ sess'[s].phase = "lock" /\ sess'[s].op = sess[s].op /\ sess'[s].rows = sess[s].rows
  BY HoldTyped
<1>2. sess[s].rows = {}
  BY DEF LockOrder
<1> QED
  BY <1>1, <1>2 DEF Moves, Starts

LEMMA AcquireMoves ==
    ASSUME IInv, NEW s \in Sessions, Acquire(s), LockOrder(s)
    PROVE  Moves(s)
<1> USE DEF IInv
<1>1. CASE LockInvoice(s)
  <2>1. PICK i \in Invoices :
           NextLock(s, i) /\ (TakeRow(s, i) \/ SkipRow(s, i) \/ End(s))
    BY <1>1 DEF LockInvoice
  <2> QED
    BY <1>1, <2>1, RowMoves, EndMoves DEF LockInvoice
<1>2. CASE SubmitLock(s)
  <2>1. PICK i \in Invoices : NextLock(s, i) /\ (TakeRow(s, i) \/ End(s))
    BY <1>2 DEF SubmitLock
  <2>2. TypeOK /\ sess[s].phase = "lock"
    BY <1>2 DEF SubmitLock
  <2> HIDE DEF IInv
  <2>3. CASE TakeRow(s, i)
    BY <2>1, <2>2, <2>3, RowMoves
  <2>4. CASE End(s)
    BY <2>2, <2>4, EndMoves
  <2> QED
    BY <2>1, <2>3, <2>4
<1>3. CASE AutoLock(s)
  <2>1. CASE End(s)
    BY <2>1, EndMoves
  <2>2. CASE ~End(s)
    <3>1. sess[s].p \in Payments
      BY <1>3 DEF AutoLock, SessionSound, PaymentHeld, Settling
    <3>2. pay[sess[s].p].cover \in SUBSET Invoices
      BY <3>1, SMT DEF TypeOK, PaymentRow
    <3> QED
      BY <1>3, <2>2, <3>1, <3>2, HoldMoves DEF AutoLock
  <2> QED
    BY <2>1, <2>2
<1>4. CASE UnmarkRetire(s)
  <2>1. PICK i \in sess[s].cover : HoldPayments(s, Manual(i), {i})
    BY <1>4 DEF UnmarkRetire
  <2>2. {i} \in SUBSET Invoices /\ Manual(i) \in SUBSET Payments
    BY <1>4 DEF UnmarkRetire, SessionSound, UnmarkHeld, Manual
  <2> QED
    BY <1>4, <2>1, <2>2, HoldMoves DEF UnmarkRetire
<1>5. CASE SendCommit(s) \/ DeferTail(s) \/ RecomputeCommit(s) \/ DiscardCommit(s)
  BY <1>5, EndMoves DEF SendCommit, DeferTail, RecomputeCommit, DiscardCommit
<1> QED
  BY <1>1, <1>2, <1>3, <1>4, <1>5 DEF Acquire

\* A decision that leaves the database alone and is sound may be committed.
LEMMA DecidedMoves ==
    ASSUME TypeOK, DBUnchanged, NEW s \in Sessions, NEW mem \in SUBSET Invoices,
           NEW seen \in InvoiceStatus \cup PaymentStatus, Decided(s, mem, seen),
           sess[s].phase = "lock", sess[s].todo = {},
           sess[s].op = "submit" => ~HeldByPending(sess[s].cover),
           sess[s].op \in {"confirm", "auto"} =>
              \A i \in Cover(s) : /\ i \in sess[s].rows
                                  /\ IF i \in mem THEN inv[i] \in Owed ELSE inv[i] = "paid",
           sess[s].op \in Reversing =>
              \A i \in mem : /\ inv[i] = "paid" /\ i \in Cover(s)
                             /\ pay[sess[s].p].status = "confirmed",
           sess[s].op = "unmark" => \A i \in mem : inv[i] = "paid"
    PROVE  Moves(s)
<1>1. /\ sess'[s].phase = "commit" /\ sess'[s].mem = mem /\ sess'[s].op = sess[s].op
      /\ sess'[s].p = sess[s].p /\ sess'[s].cover = sess[s].cover
      /\ sess'[s].todo = sess[s].todo /\ sess'[s].rows = sess[s].rows
  BY DecidedTyped
<1>2. inv' = inv /\ pay' = pay
  BY DEF DBUnchanged
<1>3. Cover(s)' = Cover(s)
  BY <1>1, <1>2 DEF Cover
<1>4. ConfirmReady(s)'
  BY <1>1, <1>2, <1>3 DEF ConfirmReady
<1>5. ReversalReady(s)' /\ UnmarkReady(s)'
  BY <1>1, <1>2, <1>3 DEF ReversalReady, UnmarkReady
<1>6. Decides(s)
  BY <1>1, <1>2, <1>4, <1>5 DEF Decides
<1> QED
  BY <1>6 DEF Moves

\* An invoice no settlement refuses is owed or paid.
LEMMA OwedOrPaid ==
    ASSUME TypeOK, NEW i \in Invoices, inv[i] \notin {"draft", "canceled", "gone"}
    PROVE  inv[i] \in Owed \/ inv[i] = "paid"
  BY DEF TypeOK, InvoiceStatus, Owed

LEMMA ProceedMoves ==
    ASSUME IInv, NEW s \in Sessions, Proceed(s)
    PROVE  Moves(s)
<1> USE DEF IInv
<1>1. CASE SubmitDecide(s)
  <2>1. CASE End(s)
    BY <2>1, EndMoves
  <2>2. CASE ~End(s)
    <3>1. {} \in SUBSET Invoices /\ "pending" \in PaymentStatus
      BY DEF PaymentStatus
    <3>2. /\ sess[s].op = "submit" /\ sess[s].phase = "lock" /\ sess[s].todo = {}
          /\ ~HeldByPending(sess[s].cover) /\ Decided(s, {}, "pending") /\ DBUnchanged
      BY <1>1, <2>2 DEF SubmitDecide, Locked
    <3> QED
      BY <3>1, <3>2, DecidedMoves DEF Reversing
  <2> QED
    BY <2>1, <2>2
<1>2. CASE ConfirmDecide(s)
  <2>1. CASE End(s)
    BY <2>1, EndMoves
  <2>2. CASE ~End(s)
    <3>1. /\ sess[s].op \in {"confirm", "auto"} /\ sess[s].phase = "lock" /\ sess[s].todo = {}
          /\ \A i \in Cover(s) : inv[i] \notin {"draft", "canceled", "gone"}
          /\ Decided(s, OwedMembers(s), "confirmed") /\ DBUnchanged
      BY <1>2, <2>2 DEF ConfirmDecide, Locked
    <3>2. /\ sess[s].p \in Payments
          /\ \A i \in Cover(s) : i \in sess[s].rows \/ inv[i] = "gone"
      BY <3>1 DEF SessionSound, PaymentHeld, Settling, Cover
    <3>3. Cover(s) \subseteq Invoices
      BY <3>2, SMT DEF Cover, TypeOK, PaymentRow
    <3>4. OwedMembers(s) \in SUBSET Invoices /\ "confirmed" \in PaymentStatus
      BY <3>3 DEF OwedMembers, PaymentStatus
    <3>5. \A i \in Cover(s) : /\ i \in sess[s].rows
                              /\ IF i \in OwedMembers(s) THEN inv[i] \in Owed ELSE inv[i] = "paid"
      BY <3>1, <3>2, <3>3, OwedOrPaid DEF OwedMembers
    <3>6. sess[s].op \notin Reversing \cup {"submit", "unmark"}
      BY <3>1 DEF Reversing
    <3> HIDE DEF IInv
    <3>7. TypeOK
      BY DEF IInv
    <3> QED
      BY <3>1, <3>4, <3>5, <3>6, <3>7, DecidedMoves
  <2> QED
    BY <2>1, <2>2
<1>3. CASE VerifyDecide(s)
  <2>1. /\ sess[s].op = "verify" /\ sess[s].phase = "lock" /\ sess[s].todo = {} /\ DBUnchanged
        /\ \/ Decided(s, OwedMembers(s), "confirmed")
           \/ \E verdict \in {"pending", "rejected", "confirmed"} : Decided(s, {}, verdict)
    BY <1>3 DEF VerifyDecide, Locked
  <2>2. sess[s].p \in Payments
    BY <2>1 DEF SessionSound, PaymentHeld, Settling
  <2>3. OwedMembers(s) \in SUBSET Invoices
    BY <2>2, SMT DEF OwedMembers, Cover, TypeOK, PaymentRow
  <2>4. {"pending", "rejected", "confirmed"} \subseteq PaymentStatus
    BY DEF PaymentStatus
  <2> QED
    BY <2>1, <2>3, <2>4, DecidedMoves DEF Reversing
<1>4. CASE RevertDecide(s)
  <2> DEFINE settled == {i \in Cover(s) : inv[i] = "paid" /\ ~SettledByOther(i, sess[s].p)}
             mem == IF pay[sess[s].p].status = "confirmed" THEN settled ELSE {}
             seen == IF sess[s].op = "reject" THEN "rejected" ELSE "deleted"
  <2>1. /\ sess[s].op \in Reversing /\ sess[s].phase = "lock" /\ sess[s].todo = {} /\ DBUnchanged
        /\ Decided(s, mem, seen)
    BY <1>4 DEF RevertDecide, Locked, Reversing
  <2>2. sess[s].p \in Payments
    BY <2>1 DEF SessionSound, PaymentHeld, Settling
  <2>3. mem \in SUBSET Invoices /\ seen \in PaymentStatus
    BY <2>2, SMT DEF Cover, TypeOK, PaymentRow, PaymentStatus
  <2>4. \A i \in mem : /\ inv[i] = "paid" /\ i \in Cover(s)
                       /\ pay[sess[s].p].status = "confirmed"
    OBVIOUS
  <2>5. sess[s].op \notin {"submit", "unmark", "confirm", "auto"}
    BY <2>1 DEF Reversing
  <2> HIDE DEF mem, seen
  <2> QED
    BY <2>1, <2>3, <2>4, <2>5, DecidedMoves
<1>5. CASE UnmarkDecide(s)
  <2>1. CASE End(s)
    BY <2>1, EndMoves
  <2>2. CASE ~End(s)
    <3>1. /\ sess[s].op = "unmark" /\ sess[s].phase = "lock" /\ sess[s].todo = {}
          /\ \A i \in sess[s].cover : inv[i] = "paid"
          /\ Decided(s, sess[s].cover, "sent") /\ DBUnchanged
      BY <1>5, <2>2 DEF UnmarkDecide, Locked
    <3>2. sess[s].cover \in SUBSET Invoices /\ "sent" \in InvoiceStatus
      BY SMT DEF TypeOK, Session, InvoiceStatus, Owed
    <3> QED
      BY <3>1, <3>2, DecidedMoves DEF Reversing
  <2> QED
    BY <2>1, <2>2
<1>6. CASE SubmitCommit(s) \/ ConfirmCommit(s) \/ RevertCommit(s) \/ UnmarkCommit(s)
           \/ StampCommit(s) \/ UnstampCommit(s)
  BY <1>6, EndMoves DEF SubmitCommit, ConfirmCommit, RevertCommit, UnmarkCommit, StampCommit,
     UnstampCommit
<1>7. CASE SendFail(s) \/ DunningEnd(s) \/ RecomputeFail(s) \/ DeadlockVictim(s)
  BY <1>7, EndMoves DEF SendFail, DunningEnd, RecomputeFail, DeadlockVictim
<1> QED
  BY <1>1, <1>2, <1>3, <1>4, <1>5, <1>6, <1>7 DEF Proceed

\* Every session moves in one of these ways or stays where it is.
LEMMA EverySession ==
    ASSUME IInv, [Next]_vars, NEW s \in Sessions, LockOrder(s)
    PROVE  sess'[s] = sess[s] \/ Moves(s)
<1>1. CASE UNCHANGED vars
  BY <1>1 DEF vars
<1>2. CASE Atomic
  BY <1>2 DEF Atomic, DiscardProof, DeleteUnsettled, VerifyEarly, MarkPaid, Cancel,
     RevertToDraft, Edit, Defer
<1>3. ASSUME NEW t \in Sessions, Request(t) \/ Acquire(t) \/ Proceed(t)
      PROVE  sess'[s] = sess[s] \/ Moves(s)
  <2>1. CASE t = s
    BY <1>3, <2>1, RequestMoves, AcquireMoves, ProceedMoves
  <2>2. CASE t # s
    BY <1>3, <2>2, OneSession DEF IInv
  <2> QED
    BY <2>1, <2>2
<1> QED
  BY <1>1, <1>2, <1>3 DEF Next

-----------------------------------------------------------------------------
(* No circular waits.                                                      *)

LEMMA CarefulStep ==
    ASSUME IInv, [Next]_vars, NEW s \in Sessions, Careful(s)
    PROVE  Careful(s)'
<1>1. IInv' /\ Calm
  BY NextInv
<1>2. sess[s] \in Session /\ sess'[s] \in Session
  BY <1>1 DEF IInv, TypeOK
<1>3. CASE sess'[s] = sess[s]
  <2>1. LockOrder(s)'
    BY <1>3 DEF Careful, LockOrder
  <2>2. Undisturbed(s)
    BY <1>1, <1>3 DEF Calm
  <2>3. ConfirmReady(s)'
    <3> SUFFICES ASSUME sess[s].op \in {"confirm", "auto"}, sess[s].phase = "commit"
                 PROVE  ConfirmReady(s)'
      BY <1>3 DEF ConfirmReady
    <3>1. sess[s].p \in sess[s].pays
      BY DEF IInv, SessionSound, PaymentHeld, Settling
    <3>2. Cover(s)' = Cover(s)
      BY <1>3, <2>2, <3>1 DEF Cover, Undisturbed
    <3> QED
      BY <1>3, <2>2, <3>2 DEF Careful, ConfirmReady, Undisturbed
  <2>4. ReversalReady(s)'
    <3> SUFFICES ASSUME sess[s].op \in Reversing, sess[s].phase = "commit"
                 PROVE  ReversalReady(s)'
      BY <1>3 DEF ReversalReady
    <3>1. sess[s].p \in sess[s].pays /\ sess[s].mem \subseteq sess[s].rows
      BY DEF IInv, SessionSound, PaymentHeld, ReversalDecided
    <3>2. Cover(s)' = Cover(s)
      BY <1>3, <2>2, <3>1 DEF Cover, Undisturbed
    <3> QED
      BY <1>3, <2>2, <3>1, <3>2 DEF Careful, ReversalReady, Undisturbed
  <2>5. UnmarkReady(s)'
    BY <1>3, <2>2 DEF Careful, UnmarkReady, Undisturbed, IInv, SessionSound, UnmarkHeld
  <2> QED
    BY <2>1, <2>3, <2>4, <2>5 DEF Careful
<1>4. CASE sess'[s] = Idle
  BY <1>4, IdleFields DEF Careful, LockOrder, ConfirmReady, ReversalReady, UnmarkReady
<1>5. CASE Starts(s)
  BY <1>5 DEF Starts, Careful, LockOrder, ConfirmReady, ReversalReady, UnmarkReady
<1>6. CASE Takes(s)
  <2>1. PICK i \in Invoices :
           /\ NextLock(s, i) /\ sess'[s].todo = sess[s].todo \ {i}
           /\ sess'[s].rows \subseteq sess[s].rows \cup {i}
    BY <1>6 DEF Takes
  <2>2. sess[s].todo \subseteq Nat /\ i \in Nat
    <3>1. sess[s].todo \subseteq Invoices
      BY <1>2, SMT DEF Session
    <3> QED
      BY <3>1, InvoicesAssumption
  <2>3. \A j \in sess[s].todo \ {i} : i < j
    BY <2>1, <2>2 DEF NextLock
  <2>4. LockOrder(s)'
    BY <1>6, <2>1, <2>3 DEF Takes, Careful, LockOrder
  <2> QED
    BY <1>6, <2>4 DEF Takes, Careful, ConfirmReady, ReversalReady, UnmarkReady
<1>7. CASE Decides(s)
  BY <1>7 DEF Decides, Careful, LockOrder
<1>8. CASE Forgets(s)
  BY <1>8 DEF Forgets, Careful, LockOrder, ConfirmReady, ReversalReady, UnmarkReady, Reversing
<1> QED
  BY <1>3, <1>4, <1>5, <1>6, <1>7, <1>8, EverySession DEF Careful, Moves

\* A session runs a handler of this instance.
KnownOp(s) == sess[s].op \in Ops \cup {"idle"}

AllCareful == IInv /\ \A s \in Sessions : Careful(s) /\ KnownOp(s)

LEMMA KnownOpStep ==
    ASSUME IInv, [Next]_vars, NEW s \in Sessions, Careful(s), KnownOp(s)
    PROVE  KnownOp(s)'
  BY EverySession, IdleFields DEF Careful, Moves, Starts, Takes, Decides, Forgets, KnownOp

\* Locks are taken in order, and decisions stay right until they are committed.
LEMMA CarefulInv == Spec => []AllCareful
<1>1. Init => AllCareful
  BY InitInv, IdleFields DEF Init, AllCareful, Careful, LockOrder, ConfirmReady, ReversalReady,
     UnmarkReady, Reversing, KnownOp
<1>2. AllCareful /\ [Next]_vars => AllCareful'
  BY NextInv, CarefulStep, KnownOpStep DEF AllCareful
<1> QED
  BY <1>1, <1>2, PTL DEF Spec

\* A finite nonempty set of numbers has a largest one.
LEMMA LargestOf ==
    ASSUME NEW T, IsFiniteSet(T), T # {}, T \subseteq Nat
    PROVE  \E m \in T : \A k \in T : k <= m
<1> DEFINE Above(i) == {k \in T : i <= k}
           Tails == {Above(i) : i \in T}
<1>1. Tails \subseteq SUBSET T /\ Tails # {}
  OBVIOUS
<1>2. IsWellFoundedOn(StrictSubsetOrdering(T), SUBSET T)
  BY FS_StrictSubsetOrderingWellFounded, FS_FiniteSubsetsOfFinite
<1>3. PICK U \in Tails : \A V \in Tails : <<V, U>> \notin StrictSubsetOrdering(T)
  <2> HIDE DEF Tails
  <2> QED
    BY <1>1, <1>2, WFMin
<1>4. PICK m \in T : U = Above(m)
  OBVIOUS
<1>5. ASSUME NEW k \in T, ~(k <= m) PROVE FALSE
  <2>1. k \in Nat /\ m \in Nat
    OBVIOUS
  <2>2. Above(k) \subseteq Above(m)
    <3> SUFFICES ASSUME NEW j \in T, k <= j PROVE m <= j
      OBVIOUS
    <3>1. j \in Nat
      OBVIOUS
    <3> QED
      BY <1>5, <2>1, <3>1
  <2>3. m \in Above(m) /\ m \notin Above(k)
    BY <1>5, <2>1
  <2>4. Above(k) \in SUBSET T /\ Above(m) \in SUBSET T /\ Above(k) \in Tails
    OBVIOUS
  <2>5. <<Above(k), Above(m)>> \in StrictSubsetOrdering(T)
    <3> HIDE DEF Above
    <3> QED
      BY <2>2, <2>3, <2>4 DEF StrictSubsetOrdering
  <2> QED
    BY <1>3, <1>4, <2>4, <2>5
<1> QED
  BY <1>5

\* A session that somebody waits for, and that waits itself, has locked a row less than
\* the next one it wants.
LEMMA HolderWants ==
    ASSUME AllCareful, "discard" \notin Ops, NEW s \in Sessions, NEW t \in Sessions,
           NEW u \in Sessions, WaitsFor(s, t), WaitsFor(t, u)
    PROVE  /\ sess[t].phase = "lock" /\ \E i \in Invoices : NextLock(t, i)
           /\ \A i \in sess[t].rows, j \in Invoices : NextLock(t, j) => i < j
<1>1. LockOrder(t) /\ sess[s].op # "discard" /\ sess[t].op # "discard"
  BY DEF AllCareful, Careful, KnownOp
<1>2. sess[t].rows # {} \/ sess[t].pays # {}
  BY <1>1 DEF WaitsFor, Locked
<1>3. sess[t].phase \in {"lock", "commit"}
  BY <1>1, <1>2 DEF LockOrder
<1>4. sess[t].phase = "lock" /\ \E i \in sess[u].rows : NextLock(t, i)
  BY <1>1, <1>3 DEF WaitsFor, Locked
<1>5. sess[u].rows \subseteq Invoices
  BY SMT DEF AllCareful, IInv, TypeOK, Session
<1> QED
  BY <1>1, <1>4, <1>5 DEF LockOrder, NextLock

LEMMA NoDeadlockHolds ==
    ASSUME AllCareful, "discard" \notin Ops, IsFiniteSet(Invoices)
    PROVE  NoDeadlock
<1> SUFFICES ASSUME NEW D \in SUBSET Sessions, Deadlocked(D)
             PROVE  FALSE
  BY DEF NoDeadlock
<1> DEFINE Awaited == {i \in Invoices : \E t \in D : sess[t].phase = "lock" /\ NextLock(t, i)}
<1>1. ASSUME NEW t \in D PROVE \E u \in D : WaitsFor(t, u)
  BY DEF Deadlocked
<1>2. Awaited # {}
  <2>1. PICK s \in D, t \in D, u \in D : WaitsFor(s, t) /\ WaitsFor(t, u)
    BY <1>1 DEF Deadlocked
  <2> QED
    BY <2>1, HolderWants
<1>3. IsFiniteSet(Awaited) /\ Awaited \subseteq Nat
  BY FS_Subset, InvoicesAssumption
<1>4. PICK m \in Awaited : \A k \in Awaited : k <= m
  <2> HIDE DEF Awaited
  <2> QED
    BY <1>2, <1>3, LargestOf
<1>5. PICK s \in D : sess[s].phase = "lock" /\ NextLock(s, m)
  OBVIOUS
<1>6. PICK t \in D : WaitsFor(s, t)
  BY <1>1
<1>7. m \in sess[t].rows
  <2>1. sess[s].op \notin {"discard"} /\ sess[s].phase # "wait"
    BY <1>5 DEF AllCareful, KnownOp
  <2>2. PICK i \in sess[t].rows : NextLock(s, i)
    BY <1>6, <2>1 DEF WaitsFor, Locked
  <2>3. sess[t].rows \subseteq Invoices
    BY SMT DEF AllCareful, IInv, TypeOK, Session
  <2>4. i <= m /\ m <= i /\ i \in Nat /\ m \in Nat
    BY <1>3, <1>5, <2>2, <2>3, InvoicesAssumption DEF NextLock
  <2> QED
    BY <2>2, <2>4
<1>8. PICK u \in D : WaitsFor(t, u)
  BY <1>1
<1>9. PICK j \in Invoices : sess[t].phase = "lock" /\ NextLock(t, j) /\ m < j
  BY <1>6, <1>7, <1>8, HolderWants
<1>10. j \in Awaited
  BY <1>9
<1> QED
  BY <1>3, <1>4, <1>9, <1>10

\* No sessions wait for each other in a circle, as long as drafts are not discarded:
\* the other handlers lock payments first and then invoices in ascending order
\* (payments.py, _lock_invoices).  DiscardRead's DELETE locks invoices first.
THEOREM NoCircularWaits ==
    ASSUME "discard" \notin Ops, IsFiniteSet(Invoices)
    PROVE  Spec => []NoDeadlock
<1>1. AllCareful => NoDeadlock
  BY NoDeadlockHolds
<1> QED
  BY CarefulInv, <1>1, PTL

-----------------------------------------------------------------------------
(* What writes the database.                                               *)

\* The steps of a session that write.
Writes(s) ==
    \/ SubmitCommit(s) \/ ConfirmCommit(s) \/ RevertCommit(s) \/ UnmarkCommit(s)
    \/ StampCommit(s) \/ UnstampCommit(s)
    \/ SendCommit(s) \/ DeferTail(s) \/ RecomputeCommit(s) \/ DiscardCommit(s)
    \/ \E i \in Invoices : DeferCommit(s, i) \/ DunningFlip(s, i)

LEMMA Writers ==
    ASSUME [Next]_vars
    PROVE  DBUnchanged \/ Atomic \/ \E s \in Sessions : Writes(s)
<1>1. CASE UNCHANGED vars
  BY <1>1 DEF vars, DBUnchanged
<1>2. ASSUME NEW s \in Sessions, Request(s) PROVE DBUnchanged \/ Writes(s)
  BY <1>2 DEF Request, Writes, SubmitTxid, SubmitScreenshot, Confirm, Reject, AutoRead, Verify,
     Delete, UnmarkRead, SendRead, RecomputeRead, StampRead, DunningRead, DiscardRead
<1>3. ASSUME NEW s \in Sessions, Acquire(s) PROVE DBUnchanged \/ Writes(s)
  BY <1>3 DEF Acquire, Writes, LockInvoice, SubmitLock, AutoLock, UnmarkRetire
<1>4. ASSUME NEW s \in Sessions, Proceed(s) PROVE DBUnchanged \/ Writes(s)
  BY <1>4 DEF Proceed, Writes, SubmitDecide, ConfirmDecide, VerifyDecide, RevertDecide,
     UnmarkDecide, SendFail, DunningEnd, RecomputeFail, DeadlockVictim
<1> QED
  BY <1>1, <1>2, <1>3, <1>4 DEF Next

\* A new payment status, written to a row that is already there.
LEMMA SetPaymentRow ==
    ASSUME TypeOK, NEW p \in Payments, NEW st, SetPayment(p, st)
    PROVE  /\ pay'[p].status = st /\ pay'[p].cover = pay[p].cover
           /\ \A q \in Payments \ {p} : pay'[q] = pay[q]
<1>1. pay \in [Payments -> PaymentRow] /\ pay[p] \in PaymentRow
  BY DEF TypeOK
<1>2. pay' = [pay EXCEPT ![p] = [pay[p] EXCEPT !.status = st]]
  BY SMT DEF SetPayment
<1>3. [pay[p] EXCEPT !.status = st].status = st /\ [pay[p] EXCEPT !.status = st].cover = pay[p].cover
  BY <1>1, SMT DEF PaymentRow
<1> QED
  BY <1>1, <1>2, <1>3

\* What a commit of a session that works on a payment relies on.
LEMMA SettlingCommit ==
    ASSUME AllCareful, NEW s \in Sessions, "verify" \notin Ops, ConfirmCommit(s)
    PROVE  /\ sess[s].op \in {"confirm", "auto"} /\ sess[s].p \in Payments
           /\ sess[s].seen = "confirmed" /\ sess[s].mem \subseteq pay[sess[s].p].cover
           /\ \A i \in pay[sess[s].p].cover :
                 IF i \in sess[s].mem THEN inv[i] \in Owed ELSE inv[i] = "paid"
<1>1. sess[s].op \in {"confirm", "auto"} /\ sess[s].phase = "commit"
  BY DEF ConfirmCommit, Deciding, AllCareful, KnownOp
<1>2. /\ sess[s].p \in Payments /\ sess[s].seen = "confirmed"
      /\ sess[s].mem \subseteq pay[sess[s].p].cover
  BY <1>1, SMT DEF AllCareful, IInv, SessionSound, PaymentHeld, SettlementDecided, Settling
<1> QED
  BY <1>1, <1>2 DEF AllCareful, Careful, ConfirmReady, Cover

LEMMA ReversingCommit ==
    ASSUME AllCareful, NEW s \in Sessions, RevertCommit(s)
    PROVE  /\ sess[s].p \in Payments /\ sess[s].seen \in {"rejected", "deleted"}
           /\ \A i \in pay[sess[s].p].cover \ sess[s].mem :
                 inv[i] = "paid" => Backers(i) # {sess[s].p}
           /\ \A i \in sess[s].mem :
                 /\ Backers(i) \subseteq {sess[s].p}
                 /\ inv[i] = "paid" /\ i \in pay[sess[s].p].cover
                 /\ pay[sess[s].p].status = "confirmed"
<1>1. sess[s].op \in Reversing /\ sess[s].phase = "commit"
  BY DEF RevertCommit, Deciding, Reversing
<1>2. /\ PaymentHeld(s) /\ ReversalDecided(s) /\ ReversalReady(s)
  BY DEF AllCareful, IInv, SessionSound, Careful
<1>3. sess[s].p \in Payments
  BY <1>1, <1>2 DEF PaymentHeld
<1> QED
  BY <1>1, <1>2, <1>3 DEF ReversalDecided, ReversalReady, Cover

\* A submission overwrites a row nobody has used, or the rejected one it has locked.
LEMMA SubmittingCommit ==
    ASSUME AllCareful, NEW s \in Sessions, SubmitCommit(s)
    PROVE  /\ sess[s].p \in Payments /\ sess[s].op = "submit" /\ sess[s].phase = "commit"
           /\ \/ UNCHANGED pay
              \/ /\ pay[sess[s].p].status \in {"unused", "rejected"}
                 /\ pay'[sess[s].p].status = "pending"
                 /\ pay'[sess[s].p].cover = sess[s].cover
                 /\ \A q \in Payments \ {sess[s].p} : pay'[q] = pay[q]
<1>1. sess[s].op = "submit" /\ sess[s].phase = "commit"
  BY DEF SubmitCommit, Deciding
<1>2. SubmissionHeld(s) /\ pay \in [Payments -> PaymentRow]
  BY DEF AllCareful, IInv, SessionSound, TypeOK
<1>3. sess[s].p \in Payments /\ \A q \in sess[s].pays : pay[q].status = "rejected"
  BY <1>1, <1>2 DEF SubmissionHeld
<1> DEFINE row == [status |-> "pending", kind |-> sess[s].kind, cover |-> sess[s].cover]
<1>4. CASE ~UNCHANGED pay
  <2>1. pay' = [pay EXCEPT ![sess[s].p] = row] /\ pay[sess[s].p].status \in {"unused", "rejected"}
    BY <1>3, <1>4 DEF SubmitCommit
  <2>2. pay'[sess[s].p] = row /\ \A q \in Payments \ {sess[s].p} : pay'[q] = pay[q]
    BY <1>2, <1>3, <2>1
  <2>3. row.status = "pending" /\ row.cover = sess[s].cover
    OBVIOUS
  <2> QED
    BY <1>1, <1>3, <2>1, <2>2, <2>3
<1> QED
  BY <1>1, <1>3, <1>4

\* Unmarking rejects the confirmed payments of its invoice alone.
LEMMA UnmarkingCommit ==
    ASSUME AllCareful, NEW s \in Sessions, UnmarkCommit(s)
    PROVE  /\ \A q \in sess[s].pays \cap Payments : pay'[q].status = "rejected"
           /\ \A q \in Payments \ sess[s].pays : pay'[q] = pay[q]
           /\ sess[s].pays \subseteq Payments
           /\ \E i \in Invoices :
                 /\ inv[i] = "paid"
                 /\ \A q \in sess[s].pays : pay[q].status = "confirmed" /\ pay[q].cover = {i}
                 /\ \E st \in {"sent", "draft"} : SetInvoices({i}, st) /\ Record({i}, st, NoPay)
<1>1. sess[s].op = "unmark" /\ sess[s].phase = "commit"
  BY DEF UnmarkCommit, Deciding
<1>2. UnmarkHeld(s) /\ UnmarkReady(s) /\ pay \in [Payments -> PaymentRow] /\ sess[s] \in Session
  BY DEF AllCareful, IInv, SessionSound, TypeOK, Careful
<1>3. sess[s].pays \subseteq Payments
  BY <1>2, SMT DEF Session
<1>4. PICK i \in Invoices : sess[s].cover = {i}
  BY <1>1, <1>2 DEF UnmarkHeld
<1>5. sess[s].mem = {i} /\ \A q \in sess[s].pays : pay[q].status = "confirmed" /\ pay[q].cover = {i}
  BY <1>1, <1>2, <1>4 DEF UnmarkHeld
<1>6. inv[i] = "paid"
  BY <1>1, <1>2, <1>5 DEF UnmarkReady
<1>7. \E st \in {"sent", "draft"} : SetInvoices({i}, st) /\ Record({i}, st, NoPay)
  BY <1>5 DEF UnmarkCommit
<1>8. \A q \in Payments : pay'[q] = IF q \in sess[s].pays
                                    THEN [pay[q] EXCEPT !.status = "rejected"] ELSE pay[q]
  BY DEF UnmarkCommit
<1>9. \A q \in Payments : [pay[q] EXCEPT !.status = "rejected"].status = "rejected"
  BY <1>2, SMT DEF PaymentRow
<1> QED
  BY <1>3, <1>4, <1>5, <1>6, <1>7, <1>8, <1>9

-----------------------------------------------------------------------------
(* Whole settlements, and one pending payment per invoice.                 *)

\* Without verify_payment, who changes a payment row.
LEMMA PaymentChanges ==
    ASSUME AllCareful, "verify" \notin Ops, [Next]_vars, NEW p \in Payments, pay'[p] # pay[p]
    PROVE  \/ pay'[p].status \in {"rejected", "deleted"}
           \/ \E s \in Sessions : SubmitCommit(s) /\ p = sess[s].p
           \/ \E s \in Sessions : ConfirmCommit(s) /\ p = sess[s].p
           \/ \E i \in Invoices : MarkPaid(i, p)
<1>1. TypeOK /\ pay \in [Payments -> PaymentRow]
  BY DEF AllCareful, IInv, TypeOK
<1>2. ~DBUnchanged
  BY DEF DBUnchanged
<1>3. CASE Atomic
  <2>1. CASE \E q \in Payments : DiscardProof(q) \/ DeleteUnsettled(q)
    <3>1. PICK q \in Payments : SetPayment(q, "deleted")
      BY <2>1 DEF DiscardProof, DeleteUnsettled
    <3> QED
      BY <1>1, <3>1, SetPaymentRow
  <2>2. CASE \E i \in Invoices, q \in Payments : MarkPaid(i, q)
    <3>1. PICK i \in Invoices, q \in Payments : MarkPaid(i, q)
      BY <2>2
    <3>2. p = q
      BY <1>1, <3>1 DEF MarkPaid
    <3> QED
      BY <3>1, <3>2
  <2>3. CASE \E i \in Invoices : Cancel(i) \/ RevertToDraft(i) \/ Edit(i) \/ Defer(i)
    BY <2>3 DEF Cancel, RevertToDraft, Edit, Defer
  <2> QED
    BY <1>3, <2>1, <2>2, <2>3 DEF Atomic, VerifyEarly
<1>4. ASSUME NEW s \in Sessions, SubmitCommit(s) PROVE p = sess[s].p
  BY <1>4, SubmittingCommit
<1>5. ASSUME NEW s \in Sessions, ConfirmCommit(s) PROVE p = sess[s].p
  <2>1. SetPayment(sess[s].p, sess[s].seen) /\ sess[s].p \in Payments
    BY <1>5, SettlingCommit DEF ConfirmCommit
  <2> QED
    BY <1>1, <2>1, SetPaymentRow
<1>6. ASSUME NEW s \in Sessions, RevertCommit(s) PROVE pay'[p].status \in {"rejected", "deleted"}
  <2>1. /\ SetPayment(sess[s].p, sess[s].seen) /\ sess[s].p \in Payments
        /\ sess[s].seen \in {"rejected", "deleted"}
    BY <1>6, ReversingCommit DEF RevertCommit
  <2> QED
    BY <1>1, <2>1, SetPaymentRow
<1>7. ASSUME NEW s \in Sessions, UnmarkCommit(s) PROVE pay'[p].status = "rejected"
  BY <1>7, UnmarkingCommit
<1>8. ASSUME NEW s \in Sessions, Writes(s)
      PROVE  SubmitCommit(s) \/ ConfirmCommit(s) \/ RevertCommit(s) \/ UnmarkCommit(s)
  BY <1>8 DEF Writes, StampCommit, UnstampCommit, SendCommit, DeferTail, RecomputeCommit,
     DiscardCommit, DeferCommit, DunningFlip
<1> QED
  BY <1>2, <1>3, <1>4, <1>5, <1>6, <1>7, <1>8, Writers

\* A payment that becomes confirmed leaves its whole set paid, although the set was chosen
\* and its invoices were checked in earlier steps: confirmations hold the rows from the
\* check to the commit (_confirm_payment).  verify_payment settles what is still owed of a
\* set only.
THEOREM SettlesWholeSets ==
    ASSUME "verify" \notin Ops
    PROVE  Spec => ConfirmSettlesAll
<1> DEFINE Whole == \A p \in Payments :
                       pay[p].status # "confirmed" /\ pay'[p].status = "confirmed"
                         => \A i \in pay'[p].cover : inv'[i] = "paid"
<1>1. ASSUME AllCareful, [Next]_vars PROVE Whole
  <2> SUFFICES ASSUME NEW p \in Payments, pay[p].status # "confirmed",
                      pay'[p].status = "confirmed"
               PROVE  \A i \in pay'[p].cover : inv'[i] = "paid"
    OBVIOUS
  <2>0. TypeOK /\ pay \in [Payments -> PaymentRow]
    BY <1>1 DEF AllCareful, IInv, TypeOK
  <2>1. ASSUME NEW s \in Sessions, SubmitCommit(s), p = sess[s].p PROVE FALSE
    BY <1>1, <2>1, SubmittingCommit
  <2>2. ASSUME NEW s \in Sessions, ConfirmCommit(s), p = sess[s].p
        PROVE  \A i \in pay'[p].cover : inv'[i] = "paid"
    <3>1. pay'[p].cover = pay[p].cover /\ pay[p].cover \subseteq Invoices
      <4>1. SetPayment(p, sess[s].seen)
        BY <2>2 DEF ConfirmCommit
      <4>2. pay[p].cover \subseteq Invoices
        BY <2>0, SMT DEF PaymentRow
      <4> QED
        BY <2>0, <4>1, <4>2, SetPaymentRow
    <3>2. \A i \in Invoices : inv'[i] = IF i \in sess[s].mem THEN "paid" ELSE inv[i]
      BY <2>2 DEF ConfirmCommit, SetInvoices
    <3> QED
      BY <1>1, <2>2, <3>1, <3>2, SettlingCommit
  <2>3. ASSUME NEW i \in Invoices, MarkPaid(i, p)
        PROVE  \A j \in pay'[p].cover : inv'[j] = "paid"
    <3>1. pay'[p] = [status |-> "confirmed", kind |-> "manual", cover |-> {i}]
      BY <2>0, <2>3 DEF MarkPaid
    <3>2. pay'[p].cover = {i}
      BY <3>1
    <3> QED
      BY <2>3, <3>2 DEF MarkPaid, SetInvoices
  <2> QED
    BY <1>1, <2>1, <2>2, <2>3, PaymentChanges
<1>2. AllCareful /\ [Next]_vars => [Whole]_vars
  BY <1>1
<1> QED
  BY CarefulInv, <1>2, PTL DEF Spec, ConfirmSettlesAll

AllSubmitReady == \A s \in Sessions : SubmitReady(s)

\* A payment that is pending after a step was pending before, or a submission commits it.
LEMMA PendingFrom ==
    ASSUME AllCareful, "verify" \notin Ops, [Next]_vars,
           NEW p \in Payments, pay'[p].status = "pending"
    PROVE  pay'[p] = pay[p] \/ \E s \in Sessions : SubmitCommit(s) /\ p = sess[s].p
<1>0. TypeOK /\ pay \in [Payments -> PaymentRow]
  BY DEF AllCareful, IInv, TypeOK
<1>1. ASSUME NEW s \in Sessions, ConfirmCommit(s), p = sess[s].p PROVE FALSE
  <2>1. SetPayment(p, "confirmed")
    BY <1>1, SettlingCommit DEF ConfirmCommit
  <2> QED
    BY <1>0, <2>1, SetPaymentRow
<1>2. ASSUME NEW i \in Invoices, MarkPaid(i, p) PROVE FALSE
  <2>1. pay'[p] = [status |-> "confirmed", kind |-> "manual", cover |-> {i}]
    BY <1>0, <1>2 DEF MarkPaid
  <2> QED
    BY <2>1
<1> QED
  BY <1>1, <1>2, PaymentChanges

\* A submission that is about to commit holds its whole set, and nothing pending touches it.
LEMMA SubmitReadyStep ==
    ASSUME AllCareful, AllSubmitReady, "verify" \notin Ops, [Next]_vars, NEW s \in Sessions
    PROVE  SubmitReady(s)'
<1>0. Careful(s) /\ IInv /\ SubmitReady(s)
  BY DEF AllCareful, AllSubmitReady
<1>1. CASE sess'[s] = sess[s]
  <2> SUFFICES ASSUME sess[s].op = "submit", sess[s].phase = "commit",
                      NEW q \in Payments, pay'[q].status = "pending",
                      pay'[q].cover \cap sess[s].cover # {}
               PROVE  FALSE
    BY <1>0, <1>1 DEF SubmitReady, HeldByPending
  <2>1. sess[s].cover \subseteq sess[s].rows /\ ~HeldByPending(sess[s].cover)
    BY <1>0 DEF SubmitReady
  <2>2. PICK t \in Sessions : SubmitCommit(t) /\ q = sess[t].p /\ pay'[q] # pay[q]
    BY <2>1, PendingFrom DEF HeldByPending
  <2>3. t # s
    <3>1. sess'[t].op = "idle"
      BY <1>0, <2>2, IdleFields DEF SubmitCommit, End, Goto, IInv, TypeOK
    <3> QED
      BY <1>1, <3>1
  <2>4. pay'[q].cover = sess[t].cover /\ sess[t].cover \subseteq sess[t].rows
    BY <2>2, SubmittingCommit DEF AllSubmitReady, SubmitReady
  <2> QED
    BY <1>0, <2>1, <2>3, <2>4 DEF IInv, LocksExclusive
<1>2. CASE sess'[s] = Idle
  BY <1>2, IdleFields DEF SubmitReady
<1>3. CASE Starts(s)
  BY <1>3 DEF Starts, SubmitReady
<1>4. CASE Takes(s)
  <2> SUFFICES ASSUME sess[s].op = "submit" PROVE SubmitReady(s)'
    BY <1>4 DEF Takes, SubmitReady
  <2>1. PICK i \in Invoices : /\ sess'[s].todo = sess[s].todo \ {i}
                              /\ sess'[s].rows = sess[s].rows \cup {i}
    BY <1>4 DEF Takes
  <2> QED
    BY <1>0, <1>4, <2>1 DEF Takes, SubmitReady
<1>5. CASE Decides(s)
  BY <1>0, <1>5 DEF Decides, SubmitReady, HeldByPending
<1>6. CASE Forgets(s)
  BY <1>6 DEF Forgets, SubmitReady
<1> QED
  BY <1>0, <1>1, <1>2, <1>3, <1>4, <1>5, <1>6, EverySession DEF Careful, Moves

LEMMA OnePendingStep ==
    ASSUME AllCareful, AllSubmitReady, OnePendingPerInvoice, "verify" \notin Ops, [Next]_vars
    PROVE  OnePendingPerInvoice'
<1>1. CASE \A p \in Payments : pay'[p].status = "pending" => pay'[p] = pay[p]
  BY <1>1 DEF OnePendingPerInvoice
<1>2. CASE \E s \in Sessions : SubmitCommit(s) /\ ~UNCHANGED pay
  <2>1. PICK s \in Sessions : SubmitCommit(s) /\ ~UNCHANGED pay
    BY <1>2
  <2>2. /\ pay'[sess[s].p].cover = sess[s].cover
        /\ \A q \in Payments \ {sess[s].p} : pay'[q] = pay[q]
        /\ ~HeldByPending(sess[s].cover)
    BY <2>1, SubmittingCommit DEF AllSubmitReady, SubmitReady
  <2> QED
    BY <2>2 DEF OnePendingPerInvoice, HeldByPending
<1> QED
  BY <1>1, <1>2, PendingFrom

\* Two pending payments never share an invoice: a submission looks for other pending
\* payments while it holds every row it asks for (_pending_invoice_ids_in_sets).
\* verify_payment makes a rejected payment pending again without looking.
THEOREM OnePending ==
    ASSUME "verify" \notin Ops
    PROVE  Spec => []OnePendingPerInvoice
<1> DEFINE J == AllSubmitReady /\ OnePendingPerInvoice
<1>1. Init => J
  <2>1. Init => \A p \in Payments : pay[p].status # "pending"
    BY DEF Init
  <2> QED
    BY <2>1, IdleFields DEF Init, AllSubmitReady, SubmitReady, OnePendingPerInvoice
<1>2. AllCareful /\ J /\ [Next]_vars => J'
  BY SubmitReadyStep, OnePendingStep DEF AllSubmitReady
<1> QED
  BY CarefulInv, <1>1, <1>2, PTL DEF Spec

-----------------------------------------------------------------------------
(* The ledger shows the invoices.                                          *)

\* A status written with its ledger row, and a hash only with "paid".
LEMMA MirrorWrite ==
    ASSUME TypeOK, LedgerMirrors, NEW S, NEW st, NEW tx, SetInvoices(S, st), Record(S, st, tx),
           st # "gone", tx # NoPay => st = "paid"
    PROVE  LedgerMirrors'
<1> SUFFICES ASSUME NEW i \in Invoices
             PROVE  /\ ledger'[i].status = IF inv'[i] \in {"draft", "gone"} THEN "none" ELSE inv'[i]
                    /\ ledger'[i].tx # NoPay => inv'[i] = "paid"
  BY DEF LedgerMirrors
<1>1. CASE i \in S
  <2>1. inv'[i] = st /\ ledger'[i] = Recorded(ledger[i], st, tx)
    BY <1>1 DEF SetInvoices, Record
  <2>2. CASE st = "draft"
    BY <2>1, <2>2 DEF Recorded, NoRow
  <2>3. CASE st # "draft"
    BY <2>1, <2>3 DEF Recorded
  <2> QED
    BY <2>2, <2>3
<1>2. CASE i \notin S
  BY <1>2 DEF SetInvoices, Record, LedgerMirrors
<1> QED
  BY <1>1, <1>2

LEMMA MirrorStep ==
    ASSUME AllCareful, LedgerMirrors, Ops \cap {"defer", "recompute", "discard"} = {}, [Next]_vars
    PROVE  LedgerMirrors'
<1>0. TypeOK
  BY DEF AllCareful, IInv
<1>1. CASE UNCHANGED <<inv, ledger>>
  BY <1>1 DEF LedgerMirrors
<1>2. CASE Atomic
  <2>1. CASE \E p \in Payments : DiscardProof(p) \/ DeleteUnsettled(p)
                                \/ \E st \in {"pending", "rejected"} : VerifyEarly(p, st)
    BY <1>1, <2>1 DEF DiscardProof, DeleteUnsettled, VerifyEarly
  <2>2. ASSUME NEW i \in Invoices, Edit(i) PROVE LedgerMirrors'
    <3>1. SetInvoices({i}, inv[i])
      BY <1>0, <2>2 DEF Edit, SetInvoices, TypeOK
    <3> QED
      BY <1>0, <2>2, <3>1, MirrorWrite DEF Edit
  <2>3. ASSUME NEW i \in Invoices, \/ Cancel(i) \/ RevertToDraft(i)
                                   \/ \E p \in Payments : MarkPaid(i, p)
        PROVE  LedgerMirrors'
    BY <1>0, <2>3, MirrorWrite DEF Cancel, RevertToDraft, MarkPaid
  <2> QED
    BY <1>2, <2>1, <2>2, <2>3 DEF Atomic, Defer
<1>3. ASSUME NEW s \in Sessions, Writes(s) PROVE LedgerMirrors'
  <2>0. KnownOp(s) /\ sess[s].op \notin {"defer", "recompute", "discard"}
    BY DEF AllCareful, KnownOp
  <2>1. CASE SubmitCommit(s)
    BY <1>1, <2>1 DEF SubmitCommit
  <2>2. CASE ConfirmCommit(s) \/ RevertCommit(s) \/ StampCommit(s)
    BY <1>0, <2>2, MirrorWrite DEF ConfirmCommit, RevertCommit, StampCommit
  <2>3. CASE UnmarkCommit(s)
    <3>1. PICK i \in Invoices, st \in {"sent", "draft"} : SetInvoices({i}, st) /\ Record({i}, st, NoPay)
      BY <2>3, UnmarkingCommit
    <3> QED
      BY <1>0, <3>1, MirrorWrite
  <2>4. CASE UnstampCommit(s)
    <3>1. PICK late : \A i \in Invoices :
             IF i \in sess[s].mem
             THEN LET st == IF i \in late THEN "overdue" ELSE "sent"
                  IN  inv'[i] = st /\ ledger'[i] = Recorded(ledger[i], st, NoPay)
             ELSE inv'[i] = inv[i] /\ ledger'[i] = ledger[i]
      BY <2>4 DEF UnstampCommit
    <3>2. ASSUME NEW row, NEW st \in {"sent", "overdue"}
          PROVE  Recorded(row, st, NoPay).status = st /\ Recorded(row, st, NoPay).tx = NoPay
      BY DEF Recorded
    <3> SUFFICES ASSUME NEW i \in Invoices
                 PROVE  /\ ledger'[i].status = IF inv'[i] \in {"draft", "gone"} THEN "none"
                                               ELSE inv'[i]
                        /\ ledger'[i].tx # NoPay => inv'[i] = "paid"
      BY DEF LedgerMirrors
    <3>3. CASE i \in sess[s].mem
      <4>1. PICK st \in {"sent", "overdue"} :
               inv'[i] = st /\ ledger'[i] = Recorded(ledger[i], st, NoPay)
        BY <3>1, <3>3
      <4> QED
        BY <3>2, <4>1
    <3>4. CASE i \notin sess[s].mem
      BY <3>1, <3>4 DEF LedgerMirrors
    <3> QED
      BY <3>3, <3>4
  <2>5. CASE SendCommit(s)
    <3>1. sess[s].seen \in {"sent", "enforced"}
      BY <2>5 DEF SendCommit, AllCareful, IInv, SessionSound, StatusRemembered
    <3> QED
      BY <1>0, <1>1, <2>5, <3>1, MirrorWrite DEF SendCommit
  <2>6. ASSUME NEW i \in Invoices, DunningFlip(s, i) PROVE LedgerMirrors'
    BY <1>0, <2>6, MirrorWrite DEF DunningFlip
  <2> QED
    BY <1>3, <2>0, <2>1, <2>2, <2>3, <2>4, <2>5, <2>6
       DEF Writes, DeferTail, RecomputeCommit, DiscardCommit, DeferCommit, Locked
<1> QED
  BY <1>1, <1>2, <1>3, Writers DEF DBUnchanged

\* The durable ledger shows the status of every delivered invoice and nothing for a draft,
\* and names a transaction only against a paid invoice (financial_archive.record follows
\* every status write).  Deferring commits a status before its ledger row, recomputing
\* records the status it read earlier, and discarding clears the ledger before the rows.
THEOREM LedgerShowsInvoices ==
    ASSUME Ops \cap {"defer", "recompute", "discard"} = {}
    PROVE  Spec => []LedgerMirrors
<1>1. Init => LedgerMirrors
  BY SMT DEF Init, LedgerMirrors, NoRow
<1>2. AllCareful /\ LedgerMirrors /\ [Next]_vars => LedgerMirrors'
  BY MirrorStep
<1> QED
  BY CarefulInv, <1>1, <1>2, PTL DEF Spec

-----------------------------------------------------------------------------
(* The handlers that lock what they write implement the contract.          *)

LockedOnly == Ops \subseteq LockedHandlers \ {"verify"}

NoneGone == \A i \in Invoices : inv[i] # "gone"

\* What the contract calls settles.
Settled == [p \in Payments |-> Settles(p)]

LEMMA SettledSame ==
    ASSUME \A p \in Payments :
              \/ pay'[p] = pay[p]
              \/ pay[p].status # "confirmed" /\ pay'[p].status # "confirmed"
    PROVE  Settled' = Settled
  BY DEF Settled, Settles

LEMMA LockedWriters ==
    ASSUME AllCareful, LockedOnly, NEW s \in Sessions, Writes(s)
    PROVE  SubmitCommit(s) \/ ConfirmCommit(s) \/ RevertCommit(s) \/ UnmarkCommit(s)
<1>1. KnownOp(s) /\ Ops \cap {"stamp", "unstamp", "send", "defer", "recompute", "discard", "dunning"} = {}
  BY DEF AllCareful, LockedOnly, LockedHandlers
<1> QED
  BY <1>1 DEF KnownOp, Writes, StampCommit, UnstampCommit, SendCommit, DeferTail, RecomputeCommit,
     DiscardCommit, DeferCommit, DunningFlip, Locked

\* Confirming looks like one settlement of the payment's whole set.
LEMMA ConfirmSettles ==
    ASSUME AllCareful, LockedOnly, NEW s \in Sessions, ConfirmCommit(s)
    PROVE  Contract!Settle(sess[s].p)
<1> DEFINE p == sess[s].p
           C == pay[p].cover
<1>0. TypeOK /\ pay \in [Payments -> PaymentRow] /\ "verify" \notin Ops
  BY DEF AllCareful, IInv, TypeOK, LockedOnly
<1>1. /\ p \in Payments /\ sess[s].seen = "confirmed" /\ sess[s].mem \subseteq C
      /\ \A i \in C : IF i \in sess[s].mem THEN inv[i] \in Owed ELSE inv[i] = "paid"
  BY <1>0, SettlingCommit
<1>2. C \in SUBSET Invoices
  BY <1>0, <1>1, SMT DEF PaymentRow
<1>3. /\ pay'[p].status = "confirmed" /\ pay'[p].cover = C
      /\ \A q \in Payments \ {p} : pay'[q] = pay[q]
  BY <1>0, <1>1, SetPaymentRow DEF ConfirmCommit
<1>4. Settled[p] \in {{}, C} /\ \A i \in C : inv[i] \in Owed \cup {"paid"}
  BY <1>1 DEF Settled, Settles
<1>5. inv' = [i \in Invoices |-> IF i \in C THEN "paid" ELSE inv[i]]
  <2>1. \A i \in Invoices : (IF i \in sess[s].mem THEN "paid" ELSE inv[i])
                             = (IF i \in C THEN "paid" ELSE inv[i])
    BY <1>1
  <2>2. inv' = [i \in Invoices |-> IF i \in sess[s].mem THEN "paid" ELSE inv[i]]
    BY DEF ConfirmCommit, SetInvoices
  <2> HIDE DEF C
  <2> QED
    BY <2>1, <2>2
<1>6. Settled' = [Settled EXCEPT ![p] = C]
  BY <1>1, <1>3 DEF Settled, Settles
<1> HIDE DEF p, C
<1>7. Contract!Settle(p)
  BY <1>2, <1>4, <1>5, <1>6 DEF Settled, Contract!Settle, Contract!Write, Contract!Owed, Owed
<1> QED
  BY <1>7 DEF p

\* Marking an invoice paid is the settlement of a new payment of that invoice.
LEMMA MarkPaidSettles ==
    ASSUME AllCareful, NEW i \in Invoices, NEW q \in Payments, MarkPaid(i, q)
    PROVE  Contract!Settle(q)
<1>0. TypeOK /\ pay \in [Payments -> PaymentRow]
  BY DEF AllCareful, IInv, TypeOK
<1> DEFINE row == [status |-> "confirmed", kind |-> "manual", cover |-> {i}]
<1>1. pay'[q] = row /\ \A r \in Payments \ {q} : pay'[r] = pay[r]
  BY <1>0 DEF MarkPaid
<1>2. row.status = "confirmed" /\ row.cover = {i}
  OBVIOUS
<1>3. pay[q].status = "unused" /\ inv[i] \in Owed
  BY DEF MarkPaid, Fresh
<1> HIDE DEF row
<1>4. Settled[q] = {} /\ Settled' = [Settled EXCEPT ![q] = {i}]
  BY <1>1, <1>2, <1>3 DEF Settled, Settles
<1>5. inv' = [j \in Invoices |-> IF j \in {i} THEN "paid" ELSE inv[j]]
  BY DEF MarkPaid, SetInvoices
<1>6. {i} \in SUBSET Invoices
  OBVIOUS
<1> QED
  BY <1>3, <1>4, <1>5, <1>6 DEF Settled, Contract!Settle, Contract!Write, Contract!Owed, Owed

\* Rejecting or deleting a payment un-pays exactly what it alone settles.
LEMMA RevertReverses ==
    ASSUME AllCareful, NEW s \in Sessions, RevertCommit(s)
    PROVE  Contract!Reverse(sess[s].p)
<1> DEFINE p == sess[s].p
           Alone == {i \in Invoices : inv[i] = "paid" /\ Contract!SettledOnlyBy(p, i)}
<1>0. TypeOK /\ pay \in [Payments -> PaymentRow] /\ sess[s] \in Session
  BY DEF AllCareful, IInv, TypeOK
<1>1. /\ p \in Payments /\ sess[s].seen \in {"rejected", "deleted"}
      /\ \A i \in pay[p].cover \ sess[s].mem : inv[i] = "paid" => Backers(i) # {p}
      /\ \A i \in sess[s].mem : /\ Backers(i) \subseteq {p}
                                /\ inv[i] = "paid" /\ i \in pay[p].cover
                                /\ pay[p].status = "confirmed"
  BY ReversingCommit
<1>2. pay'[p].status # "confirmed" /\ \A q \in Payments \ {p} : pay'[q] = pay[q]
  BY <1>0, <1>1, SetPaymentRow DEF RevertCommit
<1>3. Settled' = [Settled EXCEPT ![p] = {}]
  BY <1>1, <1>2 DEF Settled, Settles
<1>4. sess[s].mem \subseteq Invoices
  BY <1>0, SMT DEF Session
<1>5. \A i \in Invoices : Contract!SettledOnlyBy(p, i) <=> Backers(i) = {p}
  BY <1>1 DEF Contract!SettledOnlyBy, Settles, Backers
<1>6. \A i \in Invoices : i \in sess[s].mem => Backers(i) = {p}
  BY <1>1 DEF Backers
<1>7. \A i \in Invoices : Backers(i) = {p} => i \in pay[p].cover
  BY DEF Backers
<1>8. sess[s].mem = Alone
  <2>1. ASSUME NEW i \in sess[s].mem PROVE i \in Alone
    BY <1>1, <1>4, <1>5, <1>6
  <2>2. ASSUME NEW i \in Alone PROVE i \in sess[s].mem
    BY <1>1, <1>5, <1>7
  <2> QED
    BY <2>1, <2>2
<1>9. inv' = [i \in Invoices |-> IF i \in Alone THEN "sent" ELSE inv[i]]
  BY <1>8 DEF RevertCommit, SetInvoices
<1> QED
  BY <1>3, <1>9 DEF Settled, Contract!Reverse, Contract!Write

LEMMA UnmarkUnmarks ==
    ASSUME AllCareful, NEW s \in Sessions, UnmarkCommit(s)
    PROVE  \E i \in Invoices : Contract!Unmark(i)
<1>1. PICK i \in Invoices, st \in {"sent", "draft"} :
         /\ inv[i] = "paid" /\ SetInvoices({i}, st)
         /\ \A q \in sess[s].pays : pay[q].status = "confirmed" /\ pay[q].cover = {i}
  BY UnmarkingCommit
<1>2. /\ sess[s].pays \subseteq Payments
      /\ \A q \in sess[s].pays : pay'[q].status = "rejected"
      /\ \A q \in Payments \ sess[s].pays : pay'[q] = pay[q]
  BY UnmarkingCommit
<1>3. sess[s].pays \in SUBSET {q \in Payments : Settled[q] = {i}}
  BY <1>1, <1>2 DEF Settled, Settles
<1>4. Settled' = [q \in Payments |-> IF q \in sess[s].pays THEN {} ELSE Settled[q]]
  BY <1>2 DEF Settled, Settles
<1>5. Contract!Write({i}, st)
  BY <1>1 DEF SetInvoices, Contract!Write
<1>6. Contract!Unmark(i)
  BY <1>1, <1>3, <1>4, <1>5 DEF Settled, Contract!Unmark
<1> QED
  BY <1>6

\* Canceling and going back to draft are transitions of the contract, or change nothing.
LEMMA MoveOrStay ==
    ASSUME AllCareful, NoneGone, NEW i \in Invoices, Cancel(i) \/ RevertToDraft(i)
    PROVE  Contract!Move(i) \/ UNCHANGED <<inv, Settled>>
<1>1. inv \in [Invoices -> InvoiceStatus] /\ inv[i] \notin {"paid", "gone"}
  BY DEF AllCareful, IInv, TypeOK, Cancel, RevertToDraft
<1>2. inv[i] \in {"draft", "sent", "overdue", "enforced", "canceled"}
  BY <1>1 DEF InvoiceStatus, Owed
<1>3. Settled' = Settled
  BY SettledSame DEF Cancel, RevertToDraft
<1>4. PICK st \in {"canceled", "draft"} : SetInvoices({i}, st)
                                          /\ (st = "draft" => RevertToDraft(i))
  BY DEF Cancel, RevertToDraft
<1>5. CASE st = inv[i]
  BY <1>1, <1>3, <1>4, <1>5 DEF SetInvoices
<1>6. CASE st # inv[i]
  <2>1. st \in Contract!Transitions[inv[i]]
    BY <1>2, <1>6 DEF Contract!Transitions
  <2>2. Contract!Write({i}, st)
    BY <1>4 DEF SetInvoices, Contract!Write
  <2> QED
    BY <1>3, <2>1, <2>2 DEF Settled, Contract!Move
<1> QED
  BY <1>5, <1>6

LEMMA ContractStep ==
    ASSUME AllCareful, NoneGone, LockedOnly, [Next]_vars
    PROVE  Contract!Next \/ UNCHANGED <<inv, Settled>>
<1>0. TypeOK /\ pay \in [Payments -> PaymentRow]
  BY DEF AllCareful, IInv, TypeOK
<1>1. CASE DBUnchanged
  BY <1>1, SettledSame DEF DBUnchanged
<1>2. CASE Atomic
  <2>1. ASSUME NEW p \in Payments, DiscardProof(p) \/ DeleteUnsettled(p)
        PROVE  UNCHANGED <<inv, Settled>>
    <3>1. /\ pay'[p].status # "confirmed" /\ pay[p].status # "confirmed"
          /\ \A q \in Payments \ {p} : pay'[q] = pay[q]
      BY <1>0, <2>1, SetPaymentRow DEF DiscardProof, DeleteUnsettled
    <3> QED
      BY <2>1, <3>1, SettledSame DEF DiscardProof, DeleteUnsettled
  <2>2. ASSUME NEW i \in Invoices, Edit(i) PROVE UNCHANGED <<inv, Settled>>
    BY <2>2, SettledSame DEF Edit
  <2>3. ASSUME NEW i \in Invoices, NEW q \in Payments, MarkPaid(i, q) PROVE Contract!Next
    BY <2>3, MarkPaidSettles DEF Contract!Next
  <2>4. ASSUME NEW i \in Invoices, Cancel(i) \/ RevertToDraft(i)
        PROVE  Contract!Next \/ UNCHANGED <<inv, Settled>>
    BY <2>4, MoveOrStay DEF Contract!Next
  <2> QED
    BY <1>2, <2>1, <2>2, <2>3, <2>4 DEF Atomic, VerifyEarly, Defer, LockedOnly, LockedHandlers
<1>3. ASSUME NEW s \in Sessions, Writes(s) PROVE Contract!Next \/ UNCHANGED <<inv, Settled>>
  <2>1. CASE SubmitCommit(s)
    <3>1. \/ UNCHANGED pay
          \/ /\ pay[sess[s].p].status \in {"unused", "rejected"}
             /\ pay'[sess[s].p].status = "pending"
             /\ \A q \in Payments \ {sess[s].p} : pay'[q] = pay[q]
      BY <2>1, SubmittingCommit
    <3> QED
      BY <2>1, <3>1, SettledSame DEF SubmitCommit
  <2>2. CASE ConfirmCommit(s)
    BY <2>2, ConfirmSettles, SettlingCommit DEF Contract!Next, LockedOnly
  <2>3. CASE RevertCommit(s)
    BY <2>3, RevertReverses, ReversingCommit DEF Contract!Next
  <2>4. CASE UnmarkCommit(s)
    BY <2>4, UnmarkUnmarks DEF Contract!Next
  <2> QED
    BY <1>3, <2>1, <2>2, <2>3, <2>4, LockedWriters
<1> QED
  BY <1>1, <1>2, <1>3, Writers

LEMMA NoneGoneStep ==
    ASSUME AllCareful, NoneGone, LockedOnly, [Next]_vars
    PROVE  NoneGone'
<1>1. ASSUME NEW S, NEW st, st # "gone", SetInvoices(S, st) PROVE NoneGone'
  BY <1>1 DEF NoneGone, SetInvoices
<1>2. CASE inv' = inv
  BY <1>2 DEF NoneGone
<1>3. CASE Atomic
  BY <1>1, <1>2, <1>3 DEF Atomic, DiscardProof, DeleteUnsettled, VerifyEarly, MarkPaid, Cancel,
     RevertToDraft, Edit, Defer, LockedOnly, LockedHandlers
<1>4. ASSUME NEW s \in Sessions, Writes(s) PROVE NoneGone'
  <2>1. CASE UnmarkCommit(s)
    BY <1>1, <2>1, UnmarkingCommit
  <2>2. CASE SubmitCommit(s) \/ ConfirmCommit(s) \/ RevertCommit(s)
    BY <1>1, <1>2, <2>2 DEF SubmitCommit, ConfirmCommit, RevertCommit
  <2> QED
    BY <1>4, <2>1, <2>2, LockedWriters
<1> QED
  BY <1>2, <1>3, <1>4, Writers DEF DBUnchanged

\* With the handlers that lock what they write (payments.py and invoices.py, without
\* verify_payment), settling, reversing and un-marking look like single steps of
\* SettlementContract, and everything else moves unpaid invoices along invoice_state's
\* transitions or changes nothing the contract sees.
THEOREM Refinement ==
    ASSUME LockedOnly
    PROVE  Spec => ImplementsContract
<1>1. Init => NoneGone /\ Contract!Init
  BY DEF Init, NoneGone, Contract!Init, Settles
<1>2. AllCareful /\ NoneGone /\ [Next]_vars => NoneGone'
  BY NoneGoneStep
<1>3. AllCareful /\ NoneGone /\ [Next]_vars => [Contract!Next]_(Contract!cvars)
  BY ContractStep DEF Contract!cvars, Settled
<1> QED
  BY CarefulInv, <1>1, <1>2, <1>3, PTL DEF Spec, ImplementsContract, Contract!Spec

-----------------------------------------------------------------------------
(* The contract by itself: no invoice is paid for nothing.                 *)

\* Any statuses and any settled sets, not those of the code's rows.
VARIABLES statuses, settling

ByItself == INSTANCE SettlementContract WITH status <- statuses, settles <- settling

Backed == ByItself!TypeOK /\ ByItself!PaidIsSettled

LEMMA BackedInit == ByItself!Init => Backed
  BY DEF ByItself!Init, Backed, ByItself!TypeOK, ByItself!PaidIsSettled, ByItself!Status, ByItself!Owed

LEMMA TransitionsTarget ==
  ASSUME NEW st \in ByItself!Status, NEW to \in ByItself!Transitions[st]
  PROVE  st # "paid" /\ to # "paid" /\ to \in ByItself!Status
  BY DEF ByItself!Status, ByItself!Owed, ByItself!Transitions

LEMMA BackedSettle ==
  ASSUME Backed, NEW p \in Payments, ByItself!Settle(p)
  PROVE  Backed'
<1>1. PICK C \in SUBSET Invoices :
          /\ settling[p] \in {{}, C}
          /\ ByItself!Write(C, "paid")
          /\ settling' = [settling EXCEPT ![p] = C]
  BY DEF ByItself!Settle
<1>2. ByItself!TypeOK'
  BY <1>1 DEF Backed, ByItself!TypeOK, ByItself!Write, ByItself!Status
<1>3. \A i \in Invoices : statuses'[i] = "paid" => i \in C \/ statuses[i] = "paid"
  BY <1>1 DEF ByItself!Write, Backed, ByItself!TypeOK
<1>4. \A q \in Payments : settling[q] \subseteq settling'[q]
  BY <1>1 DEF Backed, ByItself!TypeOK
<1>5. settling'[p] = C
  BY <1>1 DEF Backed, ByItself!TypeOK
<1>6. ByItself!PaidIsSettled'
  BY <1>3, <1>4, <1>5 DEF ByItself!PaidIsSettled, Backed
<1>. QED  BY <1>2, <1>6 DEF Backed

LEMMA BackedReverse ==
  ASSUME Backed, NEW p \in Payments, ByItself!Reverse(p)
  PROVE  Backed'
<1>1. ByItself!TypeOK'
  BY DEF Backed, ByItself!TypeOK, ByItself!Reverse, ByItself!Write, ByItself!Status, ByItself!Owed
<1>2. ASSUME NEW i \in Invoices, statuses'[i] = "paid"
      PROVE  \E q \in Payments : i \in settling'[q]
  <2>1. statuses[i] = "paid" /\ ~ByItself!SettledOnlyBy(p, i)
    BY <1>2 DEF ByItself!Reverse, ByItself!Write, Backed, ByItself!TypeOK
  <2>2. PICK q \in Payments \ {p} : i \in settling[q]
    BY <2>1 DEF ByItself!SettledOnlyBy, Backed, ByItself!PaidIsSettled
  <2>. QED  BY <2>2 DEF ByItself!Reverse, Backed, ByItself!TypeOK
<1>. QED  BY <1>1, <1>2 DEF Backed, ByItself!PaidIsSettled

LEMMA BackedUnmark ==
  ASSUME Backed, NEW i \in Invoices, ByItself!Unmark(i)
  PROVE  Backed'
<1>1. PICK to \in {"sent", "draft"} : ByItself!Write({i}, to)
  BY DEF ByItself!Unmark
<1>2. PICK Q \in SUBSET {p \in Payments : settling[p] = {i}} :
          settling' = [p \in Payments |-> IF p \in Q THEN {} ELSE settling[p]]
  BY DEF ByItself!Unmark
<1>3. ByItself!TypeOK'
  BY <1>1, <1>2 DEF Backed, ByItself!TypeOK, ByItself!Write, ByItself!Status, ByItself!Owed
<1>4. ASSUME NEW j \in Invoices, statuses'[j] = "paid"
      PROVE  \E q \in Payments : j \in settling'[q]
  <2>1. j # i /\ statuses[j] = "paid"
    BY <1>1, <1>4 DEF ByItself!Write, Backed, ByItself!TypeOK
  <2>2. PICK q \in Payments : j \in settling[q]
    BY <2>1 DEF Backed, ByItself!PaidIsSettled
  <2>3. q \notin Q
    BY <2>1, <2>2
  <2>. QED  BY <1>2, <2>2, <2>3
<1>. QED  BY <1>3, <1>4 DEF Backed, ByItself!PaidIsSettled

LEMMA BackedMove ==
  ASSUME Backed, NEW i \in Invoices, ByItself!Move(i)
  PROVE  Backed'
<1>1. PICK to \in ByItself!Transitions[statuses[i]] : ByItself!Write({i}, to)
  BY DEF ByItself!Move
<1>2. to # "paid" /\ to \in ByItself!Status
  BY <1>1, TransitionsTarget DEF Backed, ByItself!TypeOK
<1>3. settling' = settling
  BY DEF ByItself!Move
<1>. QED  BY <1>1, <1>2, <1>3 DEF Backed, ByItself!TypeOK, ByItself!PaidIsSettled, ByItself!Write

(***************************************************************************)
(* A paid invoice is settled by some payment, in every behaviour the       *)
(* contract allows: what any implementation of it inherits.                *)
(***************************************************************************)
THEOREM ContractBacked == ByItself!Spec => []ByItself!PaidIsSettled
<1>1. Backed /\ [ByItself!Next]_(ByItself!cvars) => Backed'
  <2>. SUFFICES ASSUME Backed, [ByItself!Next]_(ByItself!cvars) PROVE Backed'
    OBVIOUS
  <2>1. CASE UNCHANGED ByItself!cvars
    BY <2>1 DEF ByItself!cvars, Backed, ByItself!TypeOK, ByItself!PaidIsSettled
  <2>2. CASE ByItself!Next
    BY <2>2, BackedSettle, BackedReverse, BackedUnmark, BackedMove DEF ByItself!Next
  <2>. QED  BY <2>1, <2>2
<1>2. Backed => ByItself!PaidIsSettled
  BY DEF Backed
<1>. QED  BY BackedInit, <1>1, <1>2, PTL DEF ByItself!Spec

=============================================================================
