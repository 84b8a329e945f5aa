CONSTANTS
    Invoices = {1, 2}
    Payments = {p1}
    Resellers = {r1}
    Sessions = {s1, s2}
    OwnerOf <- OneOwner
    NoPay = NoPay
    Ops <- AutoOps
SYMMETRY Symmetry
SPECIFICATION Spec
PROPERTY AutoSettlesCheckedSet
