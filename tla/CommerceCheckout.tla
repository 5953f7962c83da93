-------------------------- MODULE CommerceCheckout --------------------------
(***************************************************************************)
(* The reserve-first checkout: a cart is staged as a commerce order with a *)
(* stock reservation and a payment deadline, the customer pays through a   *)
(* provider (or staff take cash, store credit or account credit), and the  *)
(* settlement turns the order into a posted invoice.                       *)
(*                                                                         *)
(* One action per database function; each is one transaction and locks the *)
(* order's row first, so it is one step here.  A function that raises      *)
(* changes nothing and is not a step.  Webhooks arrive late, repeatedly    *)
(* and out of order; deadlines pass at any time; a pg_cron job sweeps      *)
(* expired checkouts.  Stock and reservations are those of                 *)
(* StockReservation, whose actions the actions below contain.              *)
(*                                                                         *)
(* Every unit of the one stock item costs one unit of money, so an order's *)
(* total is its reserved quantity.  All carts belong to one customer, who  *)
(* has one store-credit account.                                           *)
(***************************************************************************)
EXTENDS Integers, FiniteSets

CONSTANTS
    Cart, Order, Intent, Manual,   \* carts, checkout requests, provider intents, staff payment requests
    CartOf,                        \* the cart a checkout request is for
    OrderOf,                       \* the order an intent or a staff payment request is for
    Provider, ProviderOf,          \* the payment providers, and the one of an intent
    Variant,                       \* the distinct payloads a provider may send for one outcome
    DispatchCart,                  \* carts with fulfillment_mode = 'dispatch'
    MaxNeed,                       \* bound: quantity in a cart
    MaxStock,                      \* bound: stock receipts stop here
    NoOrder, NoIntent, NoPay       \* NULLs

Payment == Intent \cup Manual
Qty     == 1 .. MaxNeed
Payload == Intent \X {"paid", "failed"} \X Variant

ASSUME CheckoutConstants ==
    /\ IsFiniteSet(Order) /\ IsFiniteSet(Payment) /\ Intent \cap Manual = {}
    /\ CartOf \in [Order -> Cart] /\ OrderOf \in [Payment -> Order]
    /\ ProviderOf \in [Intent -> Provider]
    /\ DispatchCart \subseteq Cart
    /\ MaxNeed \in Nat \ {0} /\ MaxStock \in Nat
    /\ NoOrder \notin Order /\ NoIntent \notin Intent /\ NoPay \notin Payment

VARIABLES
    ostate,     \* commerce_orders.state, "absent" before the order exists
    lapsed,     \* reservation_expires_at <= now()
    settledBy,  \* settled_payment_entry_id: the payment that settled the order
    invoiced,   \* sales_invoice_id and finalized_at are set
    active,     \* active_payment_intent_id (and active_payment_provider)
    cstatus,    \* pos_carts.status; "sold" is 'checked_out' without a commerce order
    lock,       \* checkout_order_id (and checkout_locked_at)
    need,       \* quantity (and price) of the cart's lines
    istatus,    \* status of the payment intents
    charged,    \* intents for which the provider has taken the customer's money
    seen,       \* *_webhook_events: payloads already received
    pay,        \* payment entries and their commerce_payment_exceptions
    credit,     \* store_credit_accounts.balance
    physical, rstate, rqty, rcons, shipped   \* StockReservation

orderVars == <<ostate, lapsed, settledBy, invoiced, active>>
cartVars  == <<cstatus, lock, need>>
payVars   == <<istatus, charged, seen, pay, credit>>
stockVars == <<physical, rstate, rqty, rcons, shipped>>
vars      == <<orderVars, cartVars, payVars, stockVars>>

Stock == INSTANCE StockReservation WITH
            Rsv <- Order, Pos <- {}, Stale <- {},
            Dispatch <- {o \in Order : CartOf[o] \in DispatchCart},
            MaxQty <- MaxNeed, MaxPhysical <- MaxStock,
            tx <- [o \in Order |-> "idle"]

Open     == {"awaiting_payment", "payment_processing", "payment_failed"}
Released == {"payment_expired", "cancelled"}
OState   == {"absent"} \cup Open \cup Released \cup
            {"paid", "account_invoiced", "allocation_pending", "partially_fulfilled",
             "dispatch_ready", "delivered"}
\* "applied": allocated to the invoice.  The others were posted as store credit
\* with an exception row: "duplicate" (DUPLICATE_PROVIDER_SETTLEMENT),
\* "unfinalized" (PAID_ORDER_FINALIZATION_FAILED), "repaired" (that, resolved).
PState   == {"none", "applied", "duplicate", "unfinalized", "repaired"}

TypeOK ==
    /\ ostate \in [Order -> OState]
    /\ lapsed \in [Order -> BOOLEAN] /\ invoiced \in [Order -> BOOLEAN]
    /\ settledBy \in [Order -> Payment \cup {NoPay}]
    /\ active \in [Order -> Intent \cup {NoIntent}]
    /\ cstatus \in [Cart -> {"open", "checked_out", "sold"}]
    /\ lock \in [Cart -> Order \cup {NoOrder}]
    /\ need \in [Cart -> Qty]
    /\ istatus \in [Intent -> {"absent", "pending", "failed", "settled"}]
    /\ charged \subseteq Intent /\ seen \subseteq Payload
    /\ pay \in [Payment -> PState]
    /\ credit \in Nat
    /\ Stock!TypeOK

Init ==
    /\ ostate = [o \in Order |-> "absent"]
    /\ lapsed = [o \in Order |-> FALSE]
    /\ settledBy = [o \in Order |-> NoPay]
    /\ invoiced = [o \in Order |-> FALSE]
    /\ active = [o \in Order |-> NoIntent]
    /\ cstatus = [c \in Cart |-> "open"]
    /\ lock = [c \in Cart |-> NoOrder]
    /\ need = [c \in Cart |-> 1]
    /\ istatus = [i \in Intent |-> "absent"]
    /\ charged = {} /\ seen = {}
    /\ pay = [p \in Payment |-> "none"]
    /\ credit = 0
    /\ Stock!Init

----------------------------------------------------------------------------
\* Rules shared by the functions.

Total(o)       == rqty[o]
ForDispatch(o) == CartOf[o] \in DispatchCart
Exists(o)      == ostate[o] # "absent"
Unsettled(o)   == settledBy[o] = NoPay

\* The rows of commerce_orders_one_live_cart_uidx, and an update of order o
\* that makes it such a row: refused while its cart has another one.
Live(o) == Exists(o) /\ ostate[o] \notin Released /\ ~invoiced[o]
IndexAllows(o) == \A x \in Order \ {o} : CartOf[x] = CartOf[o] => ~Live(x)

\* Mutation: a checkout whose provider payment failed is not expired.
ExpirableUnfailed(o) ==
    ostate[o] \in Open \ {"payment_failed"} /\ lapsed[o] /\ Unsettled(o) /\ ~invoiced[o]

\* A checkout that ran out of time: expired by the sweep or by the next checkout.
Expirable(o) ==
    ostate[o] \in Open /\ lapsed[o] /\ Unsettled(o) /\ ~invoiced[o]

\* Mutation: an invoiced order is released as long as nobody has paid it.
ReleaseOrderInvoiced(o, terminal) ==
    /\ Unsettled(o)
    /\ ostate' = [ostate EXCEPT ![o] = terminal]
    /\ lock' = [c \in Cart |-> IF cstatus[c] = "open" /\ lock[c] = o THEN NoOrder ELSE lock[c]]
    /\ IF rstate[o] \in {"active", "lapsed"}
       THEN Stock!Release(o, IF terminal = "payment_expired" THEN "expired" ELSE "released")
       ELSE UNCHANGED stockVars

\* Mutation: the cart stays locked by the order that let go of it.
ReleaseOrderLocked(o, terminal) ==
    /\ ~invoiced[o] /\ Unsettled(o)
    /\ ostate' = [ostate EXCEPT ![o] = terminal]
    /\ UNCHANGED lock
    /\ IF rstate[o] \in {"active", "lapsed"}
       THEN Stock!Release(o, IF terminal = "payment_expired" THEN "expired" ELSE "released")
       ELSE UNCHANGED stockVars

\* release_commerce_order.
ReleaseOrder(o, terminal) ==
    /\ ~invoiced[o] /\ Unsettled(o)
    /\ ostate' = [ostate EXCEPT ![o] = terminal]
    /\ lock' = [c \in Cart |-> IF cstatus[c] = "open" /\ lock[c] = o THEN NoOrder ELSE lock[c]]
    /\ IF rstate[o] \in {"active", "lapsed"}
       THEN Stock!Release(o, IF terminal = "payment_expired" THEN "expired" ELSE "released")
       ELSE UNCHANGED stockVars

\* Mutation: a cart that is no longer open is checked out again.
CartMatchesClosed(o) == need[CartOf[o]] = Total(o)

\* The cart can be checked out for order o: open, and still what was ordered.
CartMatches(o) == cstatus[CartOf[o]] = "open" /\ need[CartOf[o]] = Total(o)

\* finalize_commerce_order: an existing invoice is returned; otherwise the cart
\* is checked out, which issues the stock of a pick-up order.
Finalize(o) ==
    \/ invoiced[o] /\ UNCHANGED <<invoiced, cstatus, stockVars>>
    \/ /\ ~invoiced[o] /\ ostate[o] \in Open /\ ~lapsed[o]
       /\ CartMatches(o)
       /\ Stock!FinalizeImmediate(o) \/ Stock!FinalizeDispatch(o)
       /\ invoiced' = [invoiced EXCEPT ![o] = TRUE]
       /\ cstatus' = [cstatus EXCEPT ![CartOf[o]] = "checked_out"]

\* The customer's store-credit account (_append_store_credit): a payment that
\* cannot be applied is kept on it (post_unapplied_payment_entry); redeeming
\* more than the balance raises.
KeepAsCredit(q) == credit' = credit + q
Redeem(q)       == q <= credit /\ credit' = credit - q

PaidState(o) == IF ForDispatch(o) THEN "allocation_pending" ELSE "paid"

----------------------------------------------------------------------------
\* The cart and the checkout.

\* Line changes; refused while a checkout locks the cart (_require_cart_mutate).
EditCart(c, n) ==
    /\ cstatus[c] = "open" /\ lock[c] = NoOrder /\ n # need[c]
    /\ need' = [need EXCEPT ![c] = n]
    /\ UNCHANGED <<orderVars, cstatus, lock, payVars, stockVars>>

\* checkout_pos_cart_with_tenders: the cart is sold at the till without a
\* commerce order; a pick-up cart's stock is issued.
SellCart(c) ==
    /\ cstatus[c] = "open" /\ lock[c] = NoOrder
    /\ cstatus' = [cstatus EXCEPT ![c] = "sold"]
    /\ IF c \in DispatchCart THEN UNCHANGED stockVars ELSE Stock!Issue(need[c])
    /\ UNCHANGED <<orderVars, lock, need, payVars>>

\* prepare_customer_checkout, prepare_pos_commerce_checkout: expire the order
\* that still holds the cart, insert the order, reserve, lock the cart.
Prepare(o) ==
    LET c    == CartOf[o]
        held == {x \in Order : lock[c] = x}
    IN /\ ~Exists(o) /\ cstatus[c] = "open"
       /\ \A x \in held : Expirable(x)
       /\ \A x \in Order \ held : CartOf[x] = c => ~Live(x)
       /\ Stock!ReserveLocked(o, need[c], held \cap Stock!Lapsed)
       /\ ostate' = [x \in Order |-> CASE x = o -> "awaiting_payment"
                                       [] x # o /\ x \in held -> "payment_expired"
                                       [] OTHER -> ostate[x]]
       /\ lock' = [lock EXCEPT ![c] = o]
       /\ UNCHANGED <<lapsed, settledBy, invoiced, active, cstatus, need, payVars>>

\* The deadline passes.
Lapse(o) ==
    /\ Exists(o) /\ ~lapsed[o]
    /\ lapsed' = [lapsed EXCEPT ![o] = TRUE]
    /\ IF rstate[o] = "active" THEN Stock!Lapse(o) ELSE UNCHANGED stockVars
    /\ UNCHANGED <<ostate, settledBy, invoiced, active, cartVars, payVars>>

\* expire_commerce_checkouts_internal, run by pg_cron every two minutes.
Sweep(o) ==
    /\ Expirable(o)
    /\ ReleaseOrder(o, "payment_expired")
    /\ UNCHANGED <<lapsed, settledBy, invoiced, active, cstatus, need, payVars>>

\* cancel_pos_commerce_checkout: refused while the active intent is pending.
Cancel(o) ==
    /\ Exists(o) /\ Unsettled(o)
    /\ active[o] # NoIntent => istatus[active[o]] # "pending"
    /\ ReleaseOrder(o, "cancelled")
    /\ UNCHANGED <<lapsed, settledBy, invoiced, active, cstatus, need, payVars>>

----------------------------------------------------------------------------
\* Provider payments.

PendingFor(o) == {i \in Intent : OrderOf[i] = o /\ istatus[i] = "pending"}

OpenIntent(i) ==
    /\ istatus[i] = "absent"
    /\ istatus' = [istatus EXCEPT ![i] = "pending"]
    /\ ostate' = [ostate EXCEPT ![OrderOf[i]] = "payment_processing"]
    /\ active' = [active EXCEPT ![OrderOf[i]] = i]
    /\ UNCHANGED <<lapsed, settledBy, invoiced, cartVars, charged, seen, pay, credit, stockVars>>

\* create_customer_{paynow,ecocash,contipay}_intent: at most one pending intent,
\* whatever the provider (active_commerce_payment_intent).
CreateCustomerIntent(i) ==
    LET o == OrderOf[i] IN
    /\ ostate[o] \in Open /\ Unsettled(o) /\ ~lapsed[o]
    /\ PendingFor(o) = {}
    /\ OpenIntent(i)

\* Mutation: a closed order comes back beside the cart's new one.
CreatePosIntentUnindexed(i) ==
    LET o == OrderOf[i] IN
    /\ Exists(o) /\ Unsettled(o) /\ ~lapsed[o]
    /\ ostate[o] = "payment_processing" => ProviderOf[active[o]] = ProviderOf[i]
    /\ \A j \in PendingFor(o) : ProviderOf[j] # ProviderOf[i]
    /\ OpenIntent(i)

\* create_pos_{paynow,ecocash,contipay}_intent: no condition on the order's
\* state except that another provider is not processing.
CreatePosIntent(i) ==
    LET o == OrderOf[i] IN
    /\ Exists(o) /\ Unsettled(o) /\ ~lapsed[o]
    /\ ostate[o] = "payment_processing" => ProviderOf[active[o]] = ProviderOf[i]
    /\ \A j \in PendingFor(o) : ProviderOf[j] # ProviderOf[i]
    /\ invoiced[o] \/ IndexAllows(o)
    /\ OpenIntent(i)

\* External: the provider takes the customer's money, even after it reported
\* a failure.
Charge(i) ==
    /\ istatus[i] # "absent" /\ i \notin charged
    /\ charged' = charged \cup {i}
    /\ UNCHANGED <<orderVars, cartVars, istatus, seen, pay, credit, stockVars>>

\* settle_commerce_payment, the order being settled already.
SettleDuplicate(p) ==
    /\ ~Unsettled(OrderOf[p])
    /\ pay' = [pay EXCEPT ![p] = "duplicate"]
    /\ KeepAsCredit(Total(OrderOf[p]))
    /\ UNCHANGED <<orderVars, cartVars, stockVars>>

\* settle_commerce_payment, the order being finalized (or invoiced already).
SettleApplied(p) ==
    LET o == OrderOf[p] IN
    /\ Unsettled(o)
    /\ Finalize(o)
    /\ pay' = [pay EXCEPT ![p] = "applied"]
    /\ settledBy' = [settledBy EXCEPT ![o] = p]
    /\ ostate' = [ostate EXCEPT ![o] = PaidState(o)]
    /\ UNCHANGED <<lapsed, active, lock, need>>

\* Mutation: the order's earlier settlement is overwritten.
SettleUnfinalizedAgain(p) ==
    LET o == OrderOf[p] IN
    /\ ~invoiced[o] /\ IndexAllows(o)
    /\ pay' = [pay EXCEPT ![p] = "unfinalized"]
    /\ KeepAsCredit(Total(o))
    /\ settledBy' = [settledBy EXCEPT ![o] = p]
    /\ ostate' = [ostate EXCEPT ![o] = "allocation_pending"]
    /\ UNCHANGED <<lapsed, invoiced, active, cartVars, stockVars>>

\* settle_commerce_payment, finalization having failed (credit hold, closed
\* period, expired reservation, changed cart): the money is kept as store
\* credit and the order waits for repair.
SettleUnfinalized(p) ==
    LET o == OrderOf[p] IN
    /\ Unsettled(o) /\ ~invoiced[o] /\ IndexAllows(o)
    /\ pay' = [pay EXCEPT ![p] = "unfinalized"]
    /\ KeepAsCredit(Total(o))
    /\ settledBy' = [settledBy EXCEPT ![o] = p]
    /\ ostate' = [ostate EXCEPT ![o] = "allocation_pending"]
    /\ UNCHANGED <<lapsed, invoiced, active, cartVars, stockVars>>

\* Mutation: a success reported after a failure is acknowledged and dropped.
PaidWebhookPendingOnly(i, v) ==
    /\ i \in charged /\ <<i, "paid", v>> \notin seen
    /\ seen' = seen \cup {<<i, "paid", v>>}
    /\ \/ /\ istatus[i] # "pending"
          /\ UNCHANGED <<orderVars, cartVars, istatus, pay, credit, stockVars>>
       \/ /\ istatus[i] = "pending"
          /\ istatus' = [istatus EXCEPT ![i] = "settled"]
          /\ \/ SettleDuplicate(i)
             \/ SettleApplied(i) /\ UNCHANGED credit
             \/ SettleUnfinalized(i)
    /\ UNCHANGED charged

\* mark_{paynow,ecocash,contipay}_settled with p_success: a payload seen before
\* and an intent settled before are acknowledged.
PaidWebhook(i, v) ==
    /\ i \in charged /\ <<i, "paid", v>> \notin seen
    /\ seen' = seen \cup {<<i, "paid", v>>}
    /\ \/ /\ istatus[i] = "settled"
          /\ UNCHANGED <<orderVars, cartVars, istatus, pay, credit, stockVars>>
       \/ /\ istatus[i] # "settled"
          /\ istatus' = [istatus EXCEPT ![i] = "settled"]
          /\ \/ SettleDuplicate(i)
             \/ SettleApplied(i) /\ UNCHANGED credit
             \/ SettleUnfinalized(i)
    /\ UNCHANGED charged

\* Mutation: the failure is written whatever the state of the order.
FailedWebhookAlways(i, v) ==
    /\ istatus[i] # "absent" /\ <<i, "failed", v>> \notin seen
    /\ seen' = seen \cup {<<i, "failed", v>>}
    /\ istatus' = [istatus EXCEPT ![i] = IF @ = "settled" THEN @ ELSE "failed"]
    /\ ostate' = [ostate EXCEPT ![OrderOf[i]] = IF istatus[i] # "settled" THEN "payment_failed" ELSE @]
    /\ UNCHANGED <<lapsed, settledBy, invoiced, active, cartVars, charged, pay, credit, stockVars>>

\* Mutation: a failure report is processed every time it is delivered.
FailedWebhookRepeated(i, v) ==
    LET o == OrderOf[i] IN
    /\ istatus[i] # "absent"
    /\ seen' = seen \cup {<<i, "failed", v>>}
    /\ istatus' = [istatus EXCEPT ![i] = IF @ = "settled" THEN @ ELSE "failed"]
    /\ ostate' = [ostate EXCEPT ![o] =
                    IF istatus[i] # "settled" /\ Unsettled(o) /\ @ \in Open THEN "payment_failed" ELSE @]
    /\ UNCHANGED <<lapsed, settledBy, invoiced, active, cartVars, charged, pay, credit, stockVars>>

\* The same with p_success = false: the intent fails and so does its order,
\* unless that is settled, whichever intent the order is waiting for now.
FailedWebhook(i, v) ==
    LET o == OrderOf[i] IN
    /\ istatus[i] # "absent" /\ <<i, "failed", v>> \notin seen
    /\ seen' = seen \cup {<<i, "failed", v>>}
    /\ istatus' = [istatus EXCEPT ![i] = IF @ = "settled" THEN @ ELSE "failed"]
    /\ ostate' = [ostate EXCEPT ![o] =
                    IF istatus[i] # "settled" /\ Unsettled(o) /\ @ \in Open THEN "payment_failed" ELSE @]
    /\ UNCHANGED <<lapsed, settledBy, invoiced, active, cartVars, charged, pay, credit, stockVars>>

----------------------------------------------------------------------------
\* Staff payments, recovery and fulfilment.

AcceptsStaffPayment(o) ==
    Unsettled(o) /\ ~lapsed[o] /\ ostate[o] \in {"awaiting_payment", "payment_failed"}

\* settle_commerce_manual_payment: cash or bank for the whole order.
ManualPayment(m) ==
    /\ pay[m] = "none" /\ AcceptsStaffPayment(OrderOf[m])
    /\ \/ SettleApplied(m) /\ UNCHANGED credit
       \/ SettleUnfinalized(m)
    /\ UNCHANGED <<istatus, charged, seen>>

\* Mutation: the store credit tendered is not compared with the balance.
TenderPaymentOverdrawn(m, k) ==
    /\ pay[m] = "none" /\ AcceptsStaffPayment(OrderOf[m])
    /\ k <= Total(OrderOf[m])
    /\ SettleApplied(m)
    /\ credit' = credit - k
    /\ UNCHANGED <<istatus, charged, seen>>

\* settle_pos_commerce_tenders: k of the total with store credit, the rest in
\* cash or by bank; raises if the order cannot be finalized.
TenderPayment(m, k) ==
    /\ pay[m] = "none" /\ AcceptsStaffPayment(OrderOf[m])
    /\ k <= Total(OrderOf[m])
    /\ SettleApplied(m)
    /\ Redeem(k)
    /\ UNCHANGED <<istatus, charged, seen>>

\* finalize_pos_account_credit_order: invoiced without a payment.
AccountCredit(o) ==
    /\ AcceptsStaffPayment(o)
    /\ Finalize(o)
    /\ ostate' = [ostate EXCEPT ![o] = "account_invoiced"]
    /\ UNCHANGED <<lapsed, settledBy, active, lock, need, payVars>>

\* Mutation: the invoice is posted but the store credit is not redeemed for it.
RepairUnredeemed(o) ==
    /\ ~invoiced[o] /\ ~Unsettled(o) /\ ostate[o] = "allocation_pending"
    /\ pay[settledBy[o]] = "unfinalized" /\ credit >= Total(o)
    /\ CartMatches(o)
    /\ Stock!RepairImmediate(o) \/ Stock!RepairDispatch(o)
    /\ invoiced' = [invoiced EXCEPT ![o] = TRUE]
    /\ cstatus' = [cstatus EXCEPT ![CartOf[o]] = "checked_out"]
    /\ ostate' = [ostate EXCEPT ![o] = PaidState(o)]
    /\ lapsed' = [lapsed EXCEPT ![o] = FALSE]
    /\ pay' = [pay EXCEPT ![settledBy[o]] = "repaired"]
    /\ UNCHANGED <<credit, settledBy, active, lock, need, istatus, charged, seen>>

\* Mutation: the reservation is reinstated without looking at the stock.
RepairUncovered(o) ==
    /\ ~invoiced[o] /\ ~Unsettled(o) /\ ostate[o] = "allocation_pending"
    /\ pay[settledBy[o]] = "unfinalized"
    /\ CartMatches(o) /\ ForDispatch(o)
    /\ rstate' = [rstate EXCEPT ![o] = "allocated"]
    /\ invoiced' = [invoiced EXCEPT ![o] = TRUE]
    /\ cstatus' = [cstatus EXCEPT ![CartOf[o]] = "checked_out"]
    /\ lapsed' = [lapsed EXCEPT ![o] = FALSE]
    /\ pay' = [pay EXCEPT ![settledBy[o]] = "repaired"]
    /\ Redeem(Total(o))
    /\ UNCHANGED <<ostate, settledBy, active, lock, need, istatus, charged, seen,
                   physical, rqty, rcons, shipped>>

\* repair_pos_paid_order: reserve again, finalize, and redeem the store credit
\* that the settlement had been kept as.
Repair(o) ==
    /\ ~invoiced[o] /\ ~Unsettled(o) /\ ostate[o] = "allocation_pending"
    /\ pay[settledBy[o]] = "unfinalized"
    /\ CartMatches(o)
    /\ Stock!RepairImmediate(o) \/ Stock!RepairDispatch(o)
    /\ invoiced' = [invoiced EXCEPT ![o] = TRUE]
    /\ cstatus' = [cstatus EXCEPT ![CartOf[o]] = "checked_out"]
    /\ ostate' = [ostate EXCEPT ![o] = PaidState(o)]
    /\ lapsed' = [lapsed EXCEPT ![o] = FALSE]
    /\ pay' = [pay EXCEPT ![settledBy[o]] = "repaired"]
    /\ Redeem(Total(o))
    /\ UNCHANGED <<settledBy, active, lock, need, istatus, charged, seen>>

\* redeem_store_credit on some other invoice of the customer.
SpendCredit ==
    /\ Redeem(1)
    /\ UNCHANGED <<orderVars, cartVars, istatus, charged, seen, pay, stockVars>>

\* collect_pos_commerce_order: the customer picks the goods up.
Collect(o) ==
    /\ ~ForDispatch(o) /\ invoiced[o]
    /\ ostate[o] \in {"paid", "dispatch_ready", "account_invoiced"}
    /\ ostate' = [ostate EXCEPT ![o] = "delivered"]
    /\ UNCHANGED <<lapsed, settledBy, invoiced, active, cartVars, payVars, stockVars>>

\* submit_delivery_note, cancel_delivery_note and sync_delivery_reservations.
Deliver(o, q) ==
    /\ Stock!SubmitDelivery(o, q)
    /\ ostate' = [ostate EXCEPT ![o] = IF rcons'[o] < rqty[o] THEN "partially_fulfilled"
                                                              ELSE "dispatch_ready"]
    /\ UNCHANGED <<lapsed, settledBy, invoiced, active, cartVars, payVars>>

CancelDelivery(o, q) ==
    /\ Stock!CancelDelivery(o, q)
    /\ ostate' = [ostate EXCEPT ![o] = "allocation_pending"]
    /\ UNCHANGED <<lapsed, settledBy, invoiced, active, cartVars, payVars>>

\* Any other receipt or issue of the item.
MoveStock(q) ==
    /\ Stock!Receive(q) \/ Stock!Issue(q)
    /\ UNCHANGED <<orderVars, cartVars, payVars>>

Next ==
    \/ \E c \in Cart : SellCart(c) \/ \E n \in Qty : EditCart(c, n)
    \/ \E o \in Order :
        \/ Prepare(o) \/ Lapse(o) \/ Sweep(o) \/ Cancel(o)
        \/ AccountCredit(o) \/ Repair(o) \/ Collect(o)
        \/ \E q \in Qty : Deliver(o, q) \/ CancelDelivery(o, q)
    \/ \E i \in Intent :
        \/ CreateCustomerIntent(i) \/ CreatePosIntent(i) \/ Charge(i)
        \/ \E v \in Variant : PaidWebhook(i, v) \/ FailedWebhook(i, v)
    \/ \E m \in Manual : ManualPayment(m) \/ \E k \in 0 .. MaxNeed : TenderPayment(m, k)
    \/ SpendCredit
    \/ \E q \in Qty : MoveStock(q)

Spec == Init /\ [][Next]_vars

\* Deadlines pass, pg_cron runs the sweep, and a provider whose callback was
\* not acknowledged sends it again.
Fairness ==
    /\ \A o \in Order : WF_vars(Lapse(o)) /\ WF_vars(Sweep(o))
    /\ \A i \in Intent : WF_vars(\E v \in Variant : PaidWebhook(i, v))

FairSpec == Spec /\ Fairness

----------------------------------------------------------------------------
(***************************************************************************)
(* A cart is invoiced by at most one of its orders, and by none while it   *)
(* is open or once it was sold at the till, although an expired checkout   *)
(* of it may still be paid, repaired and re-staged in any order            *)
(* (finalize_commerce_order, repair_pos_paid_order, checkout_pos_cart).    *)
(***************************************************************************)
CartInvoicedOnce ==
    \A c \in Cart :
        LET sales == {o \in Order : CartOf[o] = c /\ invoiced[o]}
        IN /\ cstatus[c] = "checked_out" => \E o \in sales : sales = {o}
           /\ cstatus[c] # "checked_out" => sales = {}

(***************************************************************************)
(* Every settlement is accounted for exactly once (settle_commerce_payment *)
(* and repair_pos_paid_order): an order's settling payment is one of its   *)
(* own, it is applied to the invoice or held as credit exactly as the      *)
(* order is or is not invoiced, any further payment is recorded as a       *)
(* duplicate, and no intent is settled without its payment entry.          *)
(***************************************************************************)
SettlementAccounted ==
    /\ \A o \in Order : ~Unsettled(o) =>
          /\ OrderOf[settledBy[o]] = o
          /\ pay[settledBy[o]] \in (IF invoiced[o] THEN {"applied", "repaired"} ELSE {"unfinalized"})
    /\ \A p \in Payment :
          /\ pay[p] \notin {"none", "duplicate"} => settledBy[OrderOf[p]] = p
          /\ pay[p] = "duplicate" => ~Unsettled(OrderOf[p])
    /\ \A i \in Intent : istatus[i] = "settled" <=> pay[i] # "none"

(***************************************************************************)
(* A settled order keeps its settlement and never becomes payable,         *)
(* expired or cancelled again, whatever late failure reports, sweeps and   *)
(* cancellations still arrive for it.                                      *)
(***************************************************************************)
PaidOrderProtected ==
    [][\A o \in Order : ~Unsettled(o) =>
         settledBy'[o] = settledBy[o] /\ ostate'[o] \notin Open \cup Released]_vars

(***************************************************************************)
(* An invoiced order has its goods: its stock was issued or is allocated   *)
(* to it and it is never expired or cancelled; and no stock leaves for an  *)
(* order without an invoice.  Unpaid account sales are the hard case, for  *)
(* release_commerce_order finds no settlement on them.                     *)
(***************************************************************************)
InvoicedIffServed ==
    \A o \in Order :
        /\ invoiced[o] <=> rstate[o] \in {"allocated", "consumed"}
        /\ invoiced[o] => ostate[o] \notin Released

(***************************************************************************)
(* A checkout lock on an open cart is held by a live order of that cart,   *)
(* so that the sweep, a cancellation or the settlement of that order can   *)
(* free the cart (_require_cart_mutate refuses every change until then).   *)
(***************************************************************************)
LockHeldByLiveOrder ==
    \A c \in Cart : cstatus[c] = "open" /\ lock[c] # NoOrder =>
        CartOf[lock[c]] = c /\ Live(lock[c])

\* The units of money held as store credit for the payments in S.
Kept(S) == Cardinality({u \in S \X Qty : u[2] <= Total(OrderOf[u[1]])})

(***************************************************************************)
(* Store credit is never created from nothing: the balance is covered by   *)
(* the payments that are still held as credit (duplicates, and settlements *)
(* whose order was not finalized and not yet repaired).                    *)
(***************************************************************************)
CreditBacked ==
    credit <= Kept({p \in Payment : pay[p] \in {"duplicate", "unfinalized"}})

(***************************************************************************)
(* Staff do not take cash, bank or store credit for an order while one of  *)
(* its provider intents is pending: settle_commerce_manual_payment         *)
(* "Rejects expired, already-settled, or provider-processing orders".      *)
(***************************************************************************)
NoStaffPaymentWhilePending ==
    [][\A m \in Manual : pay[m] = "none" /\ pay'[m] # "none" =>
         PendingFor(OrderOf[m]) = {}]_vars

(***************************************************************************)
(* The checkout implements StockReservation: all that customers, staff,    *)
(* providers and the sweep do to stock and reservations are its steps.     *)
(***************************************************************************)
StockImplemented == Stock!Spec

\* The cart's orders as CartSale sees them.
SaleStage(o) == CASE ~Exists(o) -> "none"
                  [] Exists(o) /\ invoiced[o] -> "invoiced"
                  [] Exists(o) /\ ~invoiced[o] /\ ostate[o] \in Released -> "closed"
                  [] OTHER -> "live"

Sale == INSTANCE CartSale WITH
            stage <- [o \in Order |-> SaleStage(o)], of <- CartOf,
            paid <- {o \in Order : ~Unsettled(o)}, sold <- {c \in Cart : cstatus[c] # "open"}

(***************************************************************************)
(* The checkout implements CartSale: whatever customers, staff, providers  *)
(* and the sweep do, in whatever order, a cart's orders are staged,        *)
(* closed, revived by late money, settled and invoiced by its rules.       *)
(***************************************************************************)
SaleImplemented == Sale!Spec

(***************************************************************************)
(* An abandoned checkout gives its cart back: a cart locked by an order    *)
(* that awaits payment is eventually unlocked, paid for or sold.           *)
(***************************************************************************)
AbandonedCartFreed ==
    \A c \in Cart, o \in Order :
        (lock[c] = o /\ ostate[o] \in Open) ~> (lock[c] # o \/ ~Unsettled(o) \/ invoiced[o])

(***************************************************************************)
(* Money the provider has taken is eventually recorded as a payment, also  *)
(* when it arrives after a failure report or after the checkout expired:   *)
(* "Never silently discard a provider settlement."                         *)
(***************************************************************************)
ChargeRecorded == \A i \in Intent : (i \in charged) ~> (pay[i] # "none")
=============================================================================
