---------------------------- MODULE MCSettlement ----------------------------
(* Small instances of Settlement for TLC.                                  *)
EXTENDS Settlement, TLC

\* One reseller owns every invoice.
OneOwner == [i \in Invoices |-> CHOOSE r \in Resellers : TRUE]

\* Payments and sessions are interchangeable, invoices are not (lock order).
Symmetry == Permutations(Payments) \cup Permutations(Sessions)

\* Which handlers an instance runs.
ContractOps == {"submit", "confirm", "auto", "reject", "discardProof", "markPaid", "unmark", "revert"}
StaleOps == {"submit", "confirm", "verify", "reject", "delete", "markPaid", "unmark", "send",
             "dunning", "stamp", "unstamp", "defer", "recompute", "discard"}
LiveOps == {"submit", "confirm", "auto", "reject", "unmark", "cancel", "edit", "revert", "discard"}

\* Handlers that do not get along.
DunningOps == {"submit", "confirm", "dunning"}
AutoOps == {"submit", "reject", "auto"}
DiscardSendOps == {"send", "discard"}
DiscardConfirmOps == {"submit", "confirm", "revert", "discard"}

=============================================================================
