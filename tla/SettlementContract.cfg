CONSTANTS
    Invoices = {1, 2}
    Payments = {p1, p2}
    Resellers = {r1}
    Sessions = {s1, s2}
    OwnerOf <- OneOwner
    NoPay = NoPay
    Ops <- ContractOps
SYMMETRY Symmetry
SPECIFICATION Spec
INVARIANTS TypeOK LedgerMirrors OnePendingPerInvoice NoDeadlock
PROPERTIES ConfirmSettlesAll ReversalSparesOthers ImplementsContract
