CONSTANTS
    Invoices = {1}
    Payments = {p1}
    Resellers = {r1}
    Sessions = {s1, s2}
    OwnerOf <- OneOwner
    NoPay = NoPay
    Ops <- DiscardConfirmOps
SYMMETRY Symmetry
SPECIFICATION Spec
INVARIANT NoDeadlock
