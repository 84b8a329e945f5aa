----------------------------- MODULE MCMetering -----------------------------
(* Two users of two admins; two days make a month.  The worlds take the panel's *)
(* operations apart, so that each can happen several times.                     *)
EXTENDS Metering, TLC

CONSTANTS u1, u2, a1, a2
Adders == [u \in Users |-> IF u = u1 THEN a1 ELSE a2]
Common == {"consume"}
Chosen ==
    { Common \cup {"reset", "edit", "meter fails"},
      Common \cup {"renew", "button", "carry"},
      Common \cup {"renew", "delete", "reset", "edit", "shop"},
      Common \cup {"renew", "delete", "overlap"},
      Common \cup {"backup", "others", "trial"} }

=============================================================================
