CONSTANTS
    Invoices = {1}
    Payments = {p1, p2}
    Resellers = {r1}
    Sessions = {s1, s2}
    OwnerOf <- OneOwner
    NoPay = NoPay
    Ops <- StaleOps
SYMMETRY Symmetry
SPECIFICATION Spec
INVARIANTS PaidIsBacked
