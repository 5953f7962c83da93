-------------------------- MODULE StockReservation --------------------------
(***************************************************************************)
(* Physical stock of ONE stock item in ONE warehouse (a stock_levels row)  *)
(* and the inventory_reservations that commerce orders hold against it.    *)
(* A reservation is identified with its order: the table is unique in      *)
(* (order, item, warehouse).                                               *)
(*                                                                         *)
(* Every database function is a READ COMMITTED transaction.  What two      *)
(* transactions can do to each other depends on two things, both modelled: *)
(*   - prepare_customer_checkout and _adjust_stock_level hold the          *)
(*     stock_levels row lock when they compare stock with reservations, so *)
(*     comparison and write are one step; prepare_pos_commerce_checkout    *)
(*     and repair_pos_paid_order compare without that lock;                *)
(*   - now() is the start of the transaction: a transaction that started   *)
(*     before a reservation's deadline finalizes it after the deadline,    *)
(*     when others already count its stock as available.                   *)
(* For the reservations in Stale those transactions may take that long and *)
(* are two steps, a check and a commit; for the others they are one step.  *)
(***************************************************************************)
EXTENDS Integers, FiniteSets

CONSTANTS
    Rsv,         \* reservations (one per commerce order)
    Pos,         \* the ones made by prepare_pos_commerce_checkout
    Dispatch,    \* the ones of orders with fulfillment_mode = 'dispatch'
    Stale,       \* the ones whose transactions may act on an old check
    MaxQty,      \* bound: quantity of a reservation or of a stock movement
    MaxPhysical  \* bound: stock receipts stop here

ASSUME ReservationConstants ==
    /\ IsFiniteSet(Rsv)
    /\ Pos \subseteq Rsv /\ Dispatch \subseteq Rsv /\ Stale \subseteq Rsv
    /\ MaxQty \in Nat \ {0}
    /\ MaxPhysical \in Nat

VARIABLES
    physical,  \* stock_levels.quantity
    rstate,    \* inventory_reservations.state; "lapsed" is 'active' past expires_at
    rqty,      \* reserved_qty (= required_qty)
    rcons,     \* consumed_qty
    shipped,   \* sales_invoice_lines.qty_fulfilled of the order's invoice (delivery notes only)
    tx         \* what a transaction in flight on r's order has already checked

vars == <<physical, rstate, rqty, rcons, shipped, tx>>

RState == {"none", "active", "lapsed", "allocated", "consumed", "expired", "released"}
Tx     == {"idle", "checked", "finalizing", "repairing"}
Qty    == 1 .. MaxQty

TypeOK ==
    /\ physical \in Nat
    /\ rstate \in [Rsv -> RState]
    /\ rqty \in [Rsv -> 0 .. MaxQty]
    /\ rcons \in [Rsv -> 0 .. MaxQty] /\ shipped \in [Rsv -> 0 .. MaxQty]
    /\ tx \in [Rsv -> Tx]

----------------------------------------------------------------------------
\* Availability: what a reservation protects, and how much is protected in all.

\* The rows the availability query sums: allocated, or active and unexpired.
Protects(r) == rstate[r] \in {"active", "allocated"}

\* GREATEST(reserved_qty - consumed_qty, 0) of a protecting row.
Held == [r \in Rsv |-> IF Protects(r) THEN rqty[r] - rcons[r] ELSE 0]

\* The sum of h over the reservations in S, counted unit by unit.
Units(h, S) == {u \in S \X Qty : u[2] <= h[u[1]]}
SumOver(h, S) == Cardinality(Units(h, S))

Reserved == SumOver(Held, Rsv)
ReservedByOthers(r) == SumOver(Held, Rsv \ {r})

\* physical - reserved >= q, the test of both prepare functions.
AvailableFor(q) == physical - Reserved >= q

\* Mutation: the check against other orders' reservations is lost.
CanIssueUnprotected(r, q) == physical - q >= 0

\* _adjust_stock_level with a negative delta, run for order r (exempt from
\* the sum): the remaining stock covers what is reserved for everyone else.
CanIssue(r, q) ==
    /\ physical - q >= 0
    /\ physical - q >= ReservedByOthers(r)

----------------------------------------------------------------------------
Init ==
    /\ physical \in 0 .. MaxPhysical
    /\ rstate = [r \in Rsv |-> "none"]
    /\ rqty = [r \in Rsv |-> 0]
    /\ rcons = [r \in Rsv |-> 0] /\ shipped = [r \in Rsv |-> 0]
    /\ tx = [r \in Rsv |-> "idle"]

\* Both prepare functions first expire the order that holds the cart, if its
\* deadline has passed (old), and then reserve q units for order r.
Lapsed == {x \in Rsv : rstate[x] = "lapsed"}
Replaced == {{}} \cup {{x} : x \in Lapsed}

Reserve(r, old) ==
    rstate' = [x \in Rsv |-> CASE x = r -> "active"
                               [] x # r /\ x \in old -> "expired"
                               [] OTHER -> rstate[x]]

\* prepare_customer_checkout: the stock row is locked for the comparison.
ReserveLocked(r, q, old) ==
    /\ r \notin Pos /\ rstate[r] = "none"
    /\ AvailableFor(q)
    /\ Reserve(r, old)
    /\ rqty' = [rqty EXCEPT ![r] = q]
    /\ UNCHANGED <<physical, rcons, shipped, tx>>

\* prepare_pos_commerce_checkout reads the availability ...
PosCheck(r, q) ==
    /\ r \in Pos \cap Stale /\ rstate[r] = "none" /\ tx[r] = "idle"
    /\ AvailableFor(q)
    /\ rqty' = [rqty EXCEPT ![r] = q]
    /\ tx' = [tx EXCEPT ![r] = "checked"]
    /\ UNCHANGED <<physical, rstate, rcons, shipped>>

\* ... and inserts the reservation, having locked nothing in between.
PosInsert(r, old) ==
    /\ tx[r] = "checked"
    /\ Reserve(r, old)
    /\ tx' = [tx EXCEPT ![r] = "idle"]
    /\ UNCHANGED <<physical, rqty, rcons, shipped>>

\* The same function when no other transaction comes between.
PosReserve(r, q, old) ==
    /\ r \in Pos /\ rstate[r] = "none" /\ tx[r] = "idle"
    /\ AvailableFor(q)
    /\ Reserve(r, old)
    /\ rqty' = [rqty EXCEPT ![r] = q]
    /\ UNCHANGED <<physical, rcons, shipped, tx>>

\* expires_at passes: the row stays 'active' but no longer protects.
Lapse(r) ==
    /\ rstate[r] = "active"
    /\ rstate' = [rstate EXCEPT ![r] = "lapsed"]
    /\ UNCHANGED <<physical, rqty, rcons, shipped, tx>>

\* release_commerce_order: 'payment_expired' only past the deadline, a
\* cancellation at any time.  A repairing transaction holds the order's lock.
Release(r, s) ==
    /\ rstate[r] \in {"active", "lapsed"} /\ tx[r] # "repairing"
    /\ s = "expired" => rstate[r] = "lapsed"
    /\ rstate' = [rstate EXCEPT ![r] = s]
    /\ UNCHANGED <<physical, rqty, rcons, shipped, tx>>

\* A settlement whose transaction starts now: its now() is before the deadline.
StartFinalize(r) ==
    /\ r \in Stale /\ rstate[r] = "active" /\ tx[r] = "idle"
    /\ tx' = [tx EXCEPT ![r] = "finalizing"]
    /\ UNCHANGED <<physical, rstate, rqty, rcons, shipped>>

\* finalize_commerce_order's deadline test, as its transaction's now() answers
\* it; that the row is still 'active' is re-read under the order's lock.
InTime(r) ==
    \/ rstate[r] = "active"
    \/ (rstate[r] = "lapsed" /\ tx[r] = "finalizing")

\* Stock leaves for order r: shared by immediate finalization and repair.
IssueAll(r) ==
    /\ CanIssue(r, rqty[r])
    /\ physical' = physical - rqty[r]
    /\ rstate' = [rstate EXCEPT ![r] = "consumed"]
    /\ rcons' = [rcons EXCEPT ![r] = rqty[r]]
    /\ tx' = [tx EXCEPT ![r] = "idle"]
    /\ UNCHANGED <<rqty, shipped>>

\* The reservation becomes a paid-dispatch allocation; no stock moves, so
\* the stock row is neither locked nor compared.
Allocate(r) ==
    /\ rstate' = [rstate EXCEPT ![r] = "allocated"]
    /\ tx' = [tx EXCEPT ![r] = "idle"]
    /\ UNCHANGED <<physical, rqty, rcons, shipped>>

\* finalize_commerce_order, fulfillment_mode = 'immediate'.
FinalizeImmediate(r) ==
    r \notin Dispatch /\ tx[r] \in {"idle", "finalizing"} /\ InTime(r) /\ IssueAll(r)

\* Mutation: the finalizer forgets the deadline.
FinalizeDispatchLate(r) ==
    r \in Dispatch /\ rstate[r] \in {"active", "lapsed"} /\ Allocate(r)

\* finalize_commerce_order, fulfillment_mode = 'dispatch'.
FinalizeDispatch(r) ==
    r \in Dispatch /\ tx[r] \in {"idle", "finalizing"} /\ InTime(r) /\ Allocate(r)

\* repair_pos_paid_order: the paid order could not be finalized and its
\* reservation may be gone; stock must cover it besides everyone else's.
Unfinalized(r) == rstate[r] \in {"active", "lapsed", "expired", "released"}
RepairCovered(r) == physical - ReservedByOthers(r) >= rqty[r]

StartRepair(r) ==
    /\ r \in Stale /\ Unfinalized(r) /\ tx[r] = "idle" /\ RepairCovered(r)
    /\ tx' = [tx EXCEPT ![r] = "repairing"]
    /\ UNCHANGED <<physical, rstate, rqty, rcons, shipped>>

CanRepair(r) ==
    /\ Unfinalized(r)
    /\ \/ tx[r] = "repairing"
       \/ tx[r] = "idle" /\ RepairCovered(r)

RepairImmediate(r) == r \notin Dispatch /\ CanRepair(r) /\ IssueAll(r)
RepairDispatch(r)  == r \in Dispatch /\ CanRepair(r) /\ Allocate(r)

\* A transaction in flight fails: everything it did is rolled back.
Rollback(r) ==
    /\ tx[r] # "idle"
    /\ tx' = [tx EXCEPT ![r] = "idle"]
    /\ rqty' = IF tx[r] = "checked" THEN [rqty EXCEPT ![r] = 0] ELSE rqty
    /\ UNCHANGED <<physical, rstate, rcons, shipped>>

\* Quantities of a dispatch order's delivery notes, submitted or cancelled one
\* at a time.  What a note may ship is limited by the invoice line, what it
\* does to the reservation is the trigger sync_delivery_reservations.
Invoiced(r) == rstate[r] \in {"allocated", "consumed"}
AtMost(a, b) == IF a <= b THEN a ELSE b

\* Mutation: the note is compared with the order, not with what is left of it.
OpenQtyOrdered(r) == rqty[r]

\* qty_base - qty_fulfilled.
OpenQty(r) == rqty[r] - shipped[r]

\* submit_delivery_note: q units leave for order r.
SubmitDelivery(r, q) ==
    /\ r \in Dispatch /\ Invoiced(r) /\ q <= OpenQty(r)
    /\ CanIssue(r, q)
    /\ physical' = physical - q
    /\ shipped' = [shipped EXCEPT ![r] = @ + q]
    /\ rcons' = [rcons EXCEPT ![r] = AtMost(rqty[r], @ + q)]
    /\ rstate' = [rstate EXCEPT ![r] = IF rcons[r] + q >= rqty[r] THEN "consumed" ELSE "allocated"]
    /\ UNCHANGED <<rqty, tx>>

\* Mutation: the trigger does not see the cancellation.
CancelDeliveryUnsynced(r, q) ==
    /\ r \in Dispatch /\ Invoiced(r) /\ q <= shipped[r]
    /\ physical' = physical + q
    /\ shipped' = [shipped EXCEPT ![r] = @ - q]
    /\ UNCHANGED <<rstate, rqty, rcons, tx>>

\* cancel_delivery_note: q of the shipped units come back.
CancelDelivery(r, q) ==
    /\ r \in Dispatch /\ Invoiced(r) /\ q <= shipped[r]
    /\ physical' = physical + q
    /\ shipped' = [shipped EXCEPT ![r] = @ - q]
    /\ rcons' = [rcons EXCEPT ![r] = IF @ >= q THEN @ - q ELSE 0]
    /\ rstate' = [rstate EXCEPT ![r] = "allocated"]
    /\ UNCHANGED <<rqty, tx>>

\* Any other receipt: purchases, returns, transfers in.
Receive(q) ==
    /\ physical + q <= MaxPhysical
    /\ physical' = physical + q
    /\ UNCHANGED <<rstate, rqty, rcons, shipped, tx>>

\* Any other issue: a cart sold without checkout, a transfer out, a write-off.
\* No order is exempt.
Issue(q) ==
    /\ physical - q >= 0 /\ physical - q >= Reserved
    /\ physical' = physical - q
    /\ UNCHANGED <<rstate, rqty, rcons, shipped, tx>>

Next ==
    \/ \E r \in Rsv :
        \/ Lapse(r) \/ StartFinalize(r) \/ StartRepair(r) \/ Rollback(r)
        \/ FinalizeImmediate(r) \/ FinalizeDispatch(r)
        \/ RepairImmediate(r) \/ RepairDispatch(r)
        \/ \E s \in {"expired", "released"} : Release(r, s)
        \/ \E old \in Replaced : PosInsert(r, old)
        \/ \E q \in Qty, old \in Replaced : ReserveLocked(r, q, old) \/ PosReserve(r, q, old)
        \/ \E q \in Qty : PosCheck(r, q) \/ SubmitDelivery(r, q) \/ CancelDelivery(r, q)
    \/ \E q \in Qty : Receive(q) \/ Issue(q)

Spec == Init /\ [][Next]_vars

----------------------------------------------------------------------------
\* The old checks that are harmless: those of customer pick-up orders.
RacesConfined == Stale \cap (Pos \cup Dispatch) = {}

(***************************************************************************)
(* No over-reservation: the stock on the shelf covers everything that is   *)
(* promised to unexpired checkouts and to paid dispatch orders, whatever   *)
(* order customers reserve, pay, let lapse, deliver and return in.  This   *)
(* is the "stock protection" inventory_reservations exists for.  It holds  *)
(* while only customer pick-up orders act on old checks: their stock issue *)
(* compares again under the stock row's lock (_adjust_stock_level).        *)
(***************************************************************************)
NoOverReservation == Reserved <= physical

(***************************************************************************)
(* Containment when the check-then-act races do happen: whatever has been  *)
(* promised twice, an order that receives goods never takes the units      *)
(* that another order's reservation protects (_adjust_stock_level).        *)
(***************************************************************************)
IssueSparesOthers ==
    [][physical' < physical =>
         \A r \in Rsv : (Held'[r] = Held[r] /\ Held[r] > 0) => Held[r] <= physical']_vars

(***************************************************************************)
(* Two records of one delivery agree: what the reservation counts as       *)
(* consumed is what the invoice counts as shipped, and it is complete      *)
(* exactly when the order is.  The trigger clamps its arithmetic (LEAST,   *)
(* GREATEST); were the records to drift apart, the clamps would hide units *)
(* that are shipped twice or stay protected for ever.                      *)
(***************************************************************************)
ReservationFollowsInvoice ==
    \A r \in Rsv :
        /\ rstate[r] = "consumed" <=> rqty[r] > 0 /\ rcons[r] = rqty[r]
        /\ r \in Dispatch => rcons[r] = shipped[r]
        /\ ~Invoiced(r) => rcons[r] = 0
=============================================================================
