------------------------------- MODULE CartSale -------------------------------
(***************************************************************************)
(* What the commerce orders of a cart promise, whichever functions work on *)
(* them: the customer's checkout and the provider callbacks of             *)
(* CommerceCheckout, and the tills and part payments of PosPayment, use    *)
(* one table, commerce_orders, and these are its rules.                    *)
(*                                                                         *)
(* An order is staged for a cart, is live while it may become the cart's   *)
(* invoice, is closed when its hold expires or it is cancelled, and may    *)
(* come back to life when money arrives late.                              *)
(***************************************************************************)
EXTENDS TLAPS

CONSTANTS Order, Cart

VARIABLES
    stage,  \* of each order: "none", "live", "closed" or "invoiced"
    of,     \* the cart of each staged order
    paid,   \* the orders with a settlement (settled_payment_entry_id)
    sold    \* the carts that are checked out, by an order or without one

vars == <<stage, of, paid, sold>>

Init ==
    /\ stage = [o \in Order |-> "none"]
    /\ of \in [Order -> Cart]
    /\ paid = {} /\ sold = {}

LiveOf(c) == {o \in Order : stage[o] = "live" /\ of[o] = c}

\* A row may enter commerce_orders_one_live_cart_uidx.
Alone(o) == LiveOf(of[o]) \subseteq {o}

\* A checkout is prepared: the cart's unpaid order, if it has one, makes way.
Stage(o, c) ==
    /\ stage[o] = "none" /\ c \notin sold /\ LiveOf(c) \cap paid = {}
    /\ stage' = [x \in Order |-> IF x = o THEN "live"
                                 ELSE IF x \in LiveOf(c) THEN "closed" ELSE stage[x]]
    /\ of' = [of EXCEPT ![o] = c]
    /\ UNCHANGED <<paid, sold>>

\* release_commerce_order.
Close(o) ==
    /\ stage[o] = "live" /\ o \notin paid
    /\ stage' = [stage EXCEPT ![o] = "closed"]
    /\ UNCHANGED <<of, paid, sold>>

\* A payment is started, or a part of it taken, for an order that was closed.
Reopen(o) ==
    /\ stage[o] = "closed" /\ Alone(o)
    /\ stage' = [stage EXCEPT ![o] = "live"]
    /\ UNCHANGED <<of, paid, sold>>

\* A payment settles the order, which was invoiced before or waits for repair.
Settle(o) ==
    /\ o \notin paid /\ paid' = paid \cup {o}
    /\ \/ stage[o] \in {"live", "invoiced"} /\ UNCHANGED stage
       \/ stage[o] = "closed" /\ Alone(o) /\ stage' = [stage EXCEPT ![o] = "live"]
    /\ UNCHANGED <<of, sold>>

\* finalize_commerce_order, with or without the settlement in one transaction.
Invoice(o) ==
    /\ stage[o] = "live" \/ (stage[o] = "closed" /\ Alone(o))
    /\ of[o] \notin sold
    /\ stage' = [stage EXCEPT ![o] = "invoiced"]
    /\ sold' = sold \cup {of[o]}
    /\ paid' \in {paid, paid \cup {o}}
    /\ UNCHANGED of

\* The cart is checked out without an order.
SellCart(c) ==
    /\ c \notin sold /\ sold' = sold \cup {c}
    /\ UNCHANGED <<stage, of, paid>>

Next ==
    \/ \E o \in Order : \/ \E c \in Cart : Stage(o, c)
                        \/ Close(o) \/ Reopen(o) \/ Settle(o) \/ Invoice(o)
    \/ \E c \in Cart : SellCart(c)

Spec == Init /\ [][Next]_vars

----------------------------------------------------------------------------
SaleTypeOK ==
    /\ stage \in [Order -> {"none", "live", "closed", "invoiced"}]
    /\ of \in [Order -> Cart] /\ paid \subseteq Order /\ sold \subseteq Cart

(***************************************************************************)
(* A cart never has two orders that may still become its invoice           *)
(* (commerce_orders_one_live_cart_uidx).                                   *)
(***************************************************************************)
OneLiveOrder ==
    \A o, p \in Order : stage[o] = "live" /\ stage[p] = "live" /\ of[o] = of[p] => o = p

(***************************************************************************)
(* A cart is invoiced by at most one of its orders, and is sold then.      *)
(***************************************************************************)
OneInvoice ==
    \A o, p \in Order : stage[o] = "invoiced" =>
        of[o] \in sold /\ (stage[p] = "invoiced" /\ of[o] = of[p] => o = p)

(***************************************************************************)
(* A settled order is live, waiting to be posted or repaired, or invoiced: *)
(* money is never tied to an order that was let go.                        *)
(***************************************************************************)
PaidOrderKept == \A o \in paid : stage[o] \in {"live", "invoiced"}

(***************************************************************************)
(* An invoice and a settlement are final, and an order keeps its cart.     *)
(***************************************************************************)
SaleIsFinal ==
    [][\A o \in Order : /\ stage[o] = "invoiced" => stage'[o] = "invoiced"
                        /\ o \in paid => o \in paid'
                        /\ stage[o] # "none" => of'[o] = of[o] /\ stage'[o] # "none"]_vars

----------------------------------------------------------------------------
SaleInv == SaleTypeOK /\ OneLiveOrder /\ OneInvoice /\ PaidOrderKept

\* The invariant is kept: what the guards of Stage, Reopen and Invoice are for.
LEMMA SaleStep == SaleInv /\ [Next]_vars => SaleInv'
<1> SUFFICES ASSUME SaleInv, [Next]_vars PROVE SaleInv'
  OBVIOUS
<1> USE DEF SaleInv, SaleTypeOK, OneLiveOrder, OneInvoice, PaidOrderKept
<1>1. CASE UNCHANGED vars
  BY <1>1 DEF vars
<1>2. ASSUME NEW o \in Order, NEW c \in Cart, Stage(o, c) PROVE SaleInv'
  BY <1>2 DEF Stage, LiveOf
<1>3. ASSUME NEW o \in Order, Close(o) PROVE SaleInv'
  BY <1>3 DEF Close
<1>4. ASSUME NEW o \in Order, Reopen(o) PROVE SaleInv'
  BY <1>4 DEF Reopen, Alone, LiveOf
<1>5. ASSUME NEW o \in Order, Settle(o) PROVE SaleInv'
  BY <1>5 DEF Settle, Alone, LiveOf
<1>6. ASSUME NEW o \in Order, Invoice(o) PROVE SaleInv'
  BY <1>6 DEF Invoice, Alone, LiveOf
<1>7. ASSUME NEW c \in Cart, SellCart(c) PROVE SaleInv'
  BY <1>7 DEF SellCart
<1> QED BY <1>1, <1>2, <1>3, <1>4, <1>5, <1>6, <1>7 DEF Next

(***************************************************************************)
(* The rules keep what the cart is promised, for any orders and carts.     *)
(***************************************************************************)
THEOREM SaleKept == Spec => []SaleInv
<1>1. Init => SaleInv
  BY DEF Init, SaleInv, SaleTypeOK, OneLiveOrder, OneInvoice, PaidOrderKept
<1> QED BY <1>1, SaleStep, PTL DEF Spec

(***************************************************************************)
(* No step of the rules takes back an invoice, a settlement or a cart.     *)
(***************************************************************************)
THEOREM SaleFinal == Spec => SaleIsFinal
<1>1. ASSUME SaleTypeOK, [Next]_vars
      PROVE  [\A o \in Order : /\ stage[o] = "invoiced" => stage'[o] = "invoiced"
                               /\ o \in paid => o \in paid'
                               /\ stage[o] # "none" => of'[o] = of[o] /\ stage'[o] # "none"]_vars
  <2> USE <1>1 DEF SaleTypeOK
  <2>1. CASE UNCHANGED vars
    BY <2>1
  <2>2. ASSUME NEW o \in Order, NEW c \in Cart, Stage(o, c)
        PROVE  \A x \in Order : /\ stage[x] = "invoiced" => stage'[x] = "invoiced"
                                /\ x \in paid => x \in paid'
                                /\ stage[x] # "none" => of'[x] = of[x] /\ stage'[x] # "none"
    BY <2>2 DEF Stage, LiveOf
  <2>3. ASSUME NEW o \in Order, Close(o) \/ Reopen(o) \/ Settle(o) \/ Invoice(o)
        PROVE  \A x \in Order : /\ stage[x] = "invoiced" => stage'[x] = "invoiced"
                                /\ x \in paid => x \in paid'
                                /\ stage[x] # "none" => of'[x] = of[x] /\ stage'[x] # "none"
    BY <2>3 DEF Close, Reopen, Settle, Invoice
  <2>4. ASSUME NEW c \in Cart, SellCart(c)
        PROVE  stage' = stage /\ of' = of /\ paid' = paid
    BY <2>4 DEF SellCart
  <2> QED BY <2>1, <2>2, <2>3, <2>4 DEF Next
<1>2. SaleInv => SaleTypeOK
  BY DEF SaleInv
<1> QED BY <1>1, <1>2, SaleKept, PTL DEF Spec, SaleIsFinal

=============================================================================
