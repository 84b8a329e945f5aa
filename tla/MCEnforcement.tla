--------------------------- MODULE MCEnforcement ---------------------------
(* Small instances of Enforcement for TLC: a parent reseller p with a sub  *)
(* reseller c, and one panel user each.                                    *)
EXTENDS Enforcement, TLC

CONSTANTS p, c, up, uc

Tree == [a \in Admins |-> IF a = c THEN {p} ELSE {}]
Added == [u \in Users |-> IF u = uc THEN c ELSE p]

Debts == {"dun", "settle", "sync"}

\* Debt, payment, deferral, a debtor at work and the daily sweep, with no failure, with
\* and without the login lockout.
Daily == Debts \cup {"due", "debtor", "reassert", "restore"}
NoFailure ==
    {[ops |-> ops, faults |-> 0, late |-> {}] :
        ops \in {Daily, (Daily \ {"restore"}) \cup {"no lockout"}}}

\* Freezes; sub-admins that come and go while a refused call or a restart between two
\* transactions interrupts the queue; deletion; suspensions by hand.
WithFailure ==
    {[ops |-> Debts \cup {"freeze"}, faults |-> 0, late |-> {}],
     [ops |-> Debts \cup {"prune", "drop", "clean crash"}, faults |-> 1, late |-> {c}],
     [ops |-> Debts \cup {"delete", "clean crash"}, faults |-> 1, late |-> {}],
     [ops |-> {"suspend", "settle", "restore"}, faults |-> 0, late |-> {}],
     [ops |-> {"suspend", "restore"}, faults |-> 1, late |-> {}]}

Both == NoFailure \cup WithFailure

=============================================================================
