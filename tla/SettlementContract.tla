------------------------ MODULE SettlementContract ------------------------
(***************************************************************************)
(* What settling promises, without sessions, locks or pending payments:    *)
(* invoice statuses, and for every payment the set of invoices it settles  *)
(* (empty unless it is confirmed).  Settling, reversing and unmarking are  *)
(* single steps, and every other step moves unpaid invoices along the      *)
(* transitions invoice_state.py allows.                                    *)
(***************************************************************************)
CONSTANTS Invoices, Payments

VARIABLES status, settles

cvars == <<status, settles>>

Owed == {"sent", "overdue", "enforced"}
Status == Owed \cup {"draft", "paid", "canceled"}

\* invoice_state._TRANSITIONS without the edges into and out of paid
Transitions ==
    [draft    |-> {"sent", "canceled"},
     sent     |-> {"overdue", "enforced", "canceled", "draft"},
     overdue  |-> {"sent", "enforced", "canceled", "draft"},
     enforced |-> {"sent", "overdue", "canceled", "draft"},
     canceled |-> {"draft"},
     paid     |-> {}]

TypeOK ==
    /\ status \in [Invoices -> Status]
    /\ settles \in [Payments -> SUBSET Invoices]

Init ==
    /\ status \in [Invoices -> {"draft", "sent"}]
    /\ settles = [p \in Payments |-> {}]

Write(S, to) == status' = [i \in Invoices |-> IF i \in S THEN to ELSE status[i]]

\* A payment settles its whole set or nothing; settled again, it keeps its set.
Settle(p) ==
    \E C \in SUBSET Invoices :
        /\ settles[p] \in {{}, C}
        /\ \A i \in C : status[i] \in Owed \cup {"paid"}
        /\ Write(C, "paid")
        /\ settles' = [settles EXCEPT ![p] = C]

SettledOnlyBy(p, i) == i \in settles[p] /\ \A q \in Payments \ {p} : i \notin settles[q]

\* Taking a payment back un-pays what no other payment settles.
Reverse(p) ==
    /\ Write({i \in Invoices : status[i] = "paid" /\ SettledOnlyBy(p, i)}, "sent")
    /\ settles' = [settles EXCEPT ![p] = {}]

\* Un-paying one invoice takes back payments that settle nothing else.
Unmark(i) ==
    /\ status[i] = "paid"
    /\ \E to \in {"sent", "draft"} : Write({i}, to)
    /\ \E Q \in SUBSET {p \in Payments : settles[p] = {i}} :
          settles' = [p \in Payments |-> IF p \in Q THEN {} ELSE settles[p]]

Move(i) ==
    /\ \E to \in Transitions[status[i]] : Write({i}, to)
    /\ UNCHANGED settles

Next ==
    \/ \E p \in Payments : Settle(p) \/ Reverse(p)
    \/ \E i \in Invoices : Unmark(i) \/ Move(i)

Spec == Init /\ [][Next]_cvars

\* A paid invoice is settled by some payment: every road into paid is a payment,
\* and a payment taken back un-pays what nothing else settles.
PaidIsSettled ==
    \A i \in Invoices : status[i] = "paid" => \E p \in Payments : i \in settles[p]

=============================================================================
