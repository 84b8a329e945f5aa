-------------------------- MODULE StorefrontSales --------------------------
(***************************************************************************)
(* What the storefront promises about a customer's money.  A sale is the   *)
(* purchase of a config or one auto-renewal of it.  Its unit of money      *)
(* leaves the purse once, when it is reserved or paid, and comes back at   *)
(* most once, and never for a sale that was delivered.                     *)
(***************************************************************************)
EXTENDS Naturals

CONSTANTS Sales, Customers, Funds, NoBuyer

VARIABLES sale, buyer, purse

svars == <<sale, buyer, purse>>

SaleState == {"idle", "reserved", "paid", "delivered", "returned"}

TypeOK ==
    /\ sale \in [Sales -> SaleState]
    /\ buyer \in [Sales -> Customers \cup {NoBuyer}]
    /\ purse \in [Customers -> Nat]

Init ==
    /\ sale = [x \in Sales |-> "idle"]
    /\ buyer = [x \in Sales |-> NoBuyer]
    /\ purse = [c \in Customers |-> Funds]

Move(x, from, to) == sale[x] = from /\ sale' = [sale EXCEPT ![x] = to]

\* Reserved when auto-renew is armed, paid when a plan is bought.
Take(x, c) ==
    /\ purse[c] > 0
    /\ Move(x, "idle", "reserved") \/ Move(x, "idle", "paid")
    /\ buyer' = [buyer EXCEPT ![x] = c]
    /\ purse' = [purse EXCEPT ![c] = @ - 1]

Charge(x) == Move(x, "reserved", "paid") /\ UNCHANGED <<buyer, purse>>
Deliver(x) == Move(x, "paid", "delivered") /\ UNCHANGED <<buyer, purse>>

\* The money goes back to the customer who paid.
Return(x) ==
    /\ Move(x, "reserved", "returned") \/ Move(x, "paid", "returned")
    /\ purse' = [purse EXCEPT ![buyer[x]] = @ + 1]
    /\ UNCHANGED buyer

Next ==
    \E x \in Sales :
        \/ \E c \in Customers : Take(x, c)
        \/ Charge(x) \/ Deliver(x) \/ Return(x)

Spec == Init /\ [][Next]_svars

=============================================================================
