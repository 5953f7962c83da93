----------------------- MODULE CommerceCheckoutProofs -----------------------
(***************************************************************************)
(* Proofs about CommerceCheckout, for any carts, orders, intents and       *)
(* quantities.  First the checkout is shown to implement StockReservation, *)
(* which brings that module's theorems to it; then the invariants about    *)
(* payments, carts and invoices are shown by induction over the actions.   *)
(***************************************************************************)
EXTENDS CommerceCheckout, FiniteSetTheorems, TLAPS

StockFacts == INSTANCE StockReservationProofs WITH
            Rsv <- Order, Pos <- {}, Stale <- {},
            Dispatch <- {o \in Order : CartOf[o] \in DispatchCart},
            MaxQty <- MaxNeed, MaxPhysical <- MaxStock,
            tx <- [o \in Order |-> "idle"]

----------------------------------------------------------------------------
\* The stock's constants satisfy that module's assumption.
LEMMA StockConstants == StockFacts!ReservationConstants
BY CheckoutConstants DEF IsFiniteSet, StockFacts!IsFiniteSet

\* A cart's lines have a positive, bounded quantity.
NeedOK == need \in [Cart -> Qty]

\* Only an edit of the cart changes that quantity.
LEMMA NeedStep == NeedOK /\ [Next]_vars => NeedOK'
<1> SUFFICES ASSUME NeedOK, [Next]_vars PROVE NeedOK'
  OBVIOUS
<1>1. ASSUME NEW c \in Cart, NEW n \in Qty, EditCart(c, n) PROVE NeedOK'
  BY <1>1 DEF EditCart, NeedOK
<1>2. ASSUME need' = need PROVE NeedOK'
  BY <1>2 DEF NeedOK
<1>3. need' = need \/ \E c \in Cart, n \in Qty : EditCart(c, n)
  BY DEF Next, vars, cartVars, SellCart, Prepare, Lapse, Sweep, Cancel, AccountCredit, Repair,
         Collect, Deliver, CancelDelivery, CreateCustomerIntent, CreatePosIntent, OpenIntent, Charge,
         PaidWebhook, FailedWebhook, SettleDuplicate, SettleApplied, SettleUnfinalized,
         ManualPayment, TenderPayment, SpendCredit, MoveStock
<1> QED BY <1>1, <1>2, <1>3

\* Every step of the checkout is a step of the stock or leaves it alone.
LEMMA StockStep ==
    ASSUME NeedOK, [Next]_vars
    PROVE  [Stock!Next]_(Stock!vars)
<1> DEFINE Same == UNCHANGED stockVars
<1>0. Same => UNCHANGED Stock!vars
  BY DEF stockVars, Stock!vars
<1>q. Qty = Stock!Qty
  BY DEF Qty, Stock!Qty
<1>1. CASE UNCHANGED vars
  BY <1>1 DEF vars, stockVars, Stock!vars
<1>2. ASSUME NEW c \in Cart, SellCart(c) PROVE Same \/ Stock!Next
  <2>1. need[c] \in Stock!Qty
    BY <1>q DEF NeedOK
  <2> QED BY <1>2, <2>1 DEF SellCart, Stock!Next
<1>3. ASSUME NEW o \in Order, Prepare(o) PROVE Stock!Next
  <2> DEFINE old == {x \in Order : lock[CartOf[o]] = x} \cap Stock!Lapsed
  <2>1. need[CartOf[o]] \in Stock!Qty
    BY <1>q, CheckoutConstants DEF NeedOK
  <2>2. old \in Stock!Replaced
    BY DEF Stock!Replaced, Stock!Lapsed
  <2>3. Stock!ReserveLocked(o, need[CartOf[o]], old)
    BY <1>3 DEF Prepare
  <2> QED BY <2>1, <2>2, <2>3 DEF Stock!Next
<1>4. ASSUME NEW o \in Order, NEW s \in {"payment_expired", "cancelled"}, ReleaseOrder(o, s)
      PROVE  Same \/ Stock!Next
  BY <1>4 DEF ReleaseOrder, Stock!Next
<1>5. ASSUME NEW o \in Order, Finalize(o) PROVE Same \/ Stock!Next
  BY <1>5 DEF Finalize, stockVars, Stock!Next
<1>6. ASSUME NEW o \in Order,
             Lapse(o) \/ Sweep(o) \/ Cancel(o) \/ AccountCredit(o) \/ Repair(o) \/ Collect(o)
      PROVE  Same \/ Stock!Next
  <2>1. CASE Lapse(o)
    BY <2>1 DEF Lapse, Stock!Next
  <2>2. CASE Sweep(o) \/ Cancel(o)
    BY <2>2, <1>4 DEF Sweep, Cancel
  <2>3. CASE AccountCredit(o)
    BY <2>3, <1>5 DEF AccountCredit
  <2>4. CASE Repair(o)
    BY <2>4 DEF Repair, Stock!Next
  <2>5. CASE Collect(o)
    BY <2>5 DEF Collect
  <2> QED BY <1>6, <2>1, <2>2, <2>3, <2>4, <2>5
<1>7. ASSUME NEW o \in Order, NEW q \in Qty, Deliver(o, q) \/ CancelDelivery(o, q)
      PROVE  Stock!Next
  BY <1>7, <1>q DEF Deliver, CancelDelivery, Stock!Next
<1>8. ASSUME NEW p \in Payment, SettleDuplicate(p) \/ SettleApplied(p) \/ SettleUnfinalized(p)
      PROVE  Same \/ Stock!Next
  <2>1. OrderOf[p] \in Order
    BY CheckoutConstants
  <2> QED BY <1>8, <2>1, <1>5 DEF SettleDuplicate, SettleApplied, SettleUnfinalized
<1>9. ASSUME NEW i \in Intent,
             CreateCustomerIntent(i) \/ CreatePosIntent(i) \/ Charge(i)
      PROVE  Same
  BY <1>9 DEF CreateCustomerIntent, CreatePosIntent, OpenIntent, Charge
<1>10. ASSUME NEW i \in Intent, NEW v \in Variant, PaidWebhook(i, v) \/ FailedWebhook(i, v)
       PROVE  Same \/ Stock!Next
  BY <1>10, <1>8 DEF PaidWebhook, FailedWebhook, Payment
<1>11. ASSUME NEW m \in Manual, ManualPayment(m) \/ \E k \in 0 .. MaxNeed : TenderPayment(m, k)
       PROVE  Same \/ Stock!Next
  BY <1>11, <1>8 DEF ManualPayment, TenderPayment, Payment
<1>12. ASSUME NEW q \in Qty, MoveStock(q) PROVE Stock!Next
  BY <1>12, <1>q DEF MoveStock, Stock!Next
<1>13. ASSUME NEW c \in Cart, NEW n \in Qty, EditCart(c, n) PROVE Same
  BY <1>13 DEF EditCart
<1>14. SpendCredit => Same
  BY DEF SpendCredit
<1>15. UNCHANGED vars \/ Same \/ Stock!Next
  BY <1>2, <1>3, <1>6, <1>7, <1>9, <1>10, <1>11, <1>12, <1>13, <1>14 DEF Next
<1> QED BY <1>0, <1>1, <1>15

(***************************************************************************)
(* The checkout implements the stock reservations: every step of carts,    *)
(* orders, payments, sweeps and deliveries is, seen from stock_levels and  *)
(* inventory_reservations, a step StockReservation allows.                 *)
(***************************************************************************)
THEOREM CheckoutImplementsStock == Spec => StockImplemented
<1>1. Init => NeedOK /\ Stock!Init
  BY CheckoutConstants DEF Init, NeedOK, Qty
<1> QED BY <1>1, NeedStep, StockStep, PTL DEF Spec, StockImplemented, Stock!Spec

\* The two instances of StockReservation, the specification's and the one that
\* carries the theorems, define the same formulas.
LEMMA SameStock ==
    /\ Stock!Init => StockFacts!Init
    /\ [Stock!Next]_(Stock!vars) => [StockFacts!Next]_(StockFacts!vars)
    /\ StockFacts!TypeOK => Stock!TypeOK
    /\ StockFacts!NoOverReservation => Stock!NoOverReservation
    /\ StockFacts!ReservationFollowsInvoice => Stock!ReservationFollowsInvoice
<1>1. Stock!Init => StockFacts!Init
  BY DEF Stock!Init, StockFacts!Init
<1>2. Stock!Next => StockFacts!Next
  BY DEF Stock!Next, StockFacts!Next, Stock!Protects, StockFacts!Protects, Stock!Held,
       StockFacts!Held, Stock!Units, StockFacts!Units, Stock!SumOver,
       StockFacts!SumOver, Stock!Reserved, StockFacts!Reserved,
       Stock!ReservedByOthers, StockFacts!ReservedByOthers, Stock!AvailableFor,
       StockFacts!AvailableFor, Stock!CanIssue, StockFacts!CanIssue, Stock!Lapsed,
       StockFacts!Lapsed, Stock!Replaced, StockFacts!Replaced, Stock!Reserve,
       StockFacts!Reserve, Stock!ReserveLocked, StockFacts!ReserveLocked,
       Stock!PosCheck, StockFacts!PosCheck, Stock!PosInsert, StockFacts!PosInsert,
       Stock!PosReserve, StockFacts!PosReserve, Stock!Lapse, StockFacts!Lapse,
       Stock!Release, StockFacts!Release, Stock!StartFinalize,
       StockFacts!StartFinalize, Stock!InTime, StockFacts!InTime, Stock!IssueAll,
       StockFacts!IssueAll, Stock!Allocate, StockFacts!Allocate,
       Stock!FinalizeImmediate, StockFacts!FinalizeImmediate, Stock!FinalizeDispatch,
       StockFacts!FinalizeDispatch, Stock!Unfinalized, StockFacts!Unfinalized,
       Stock!RepairCovered, StockFacts!RepairCovered, Stock!StartRepair,
       StockFacts!StartRepair, Stock!CanRepair, StockFacts!CanRepair,
       Stock!RepairImmediate, StockFacts!RepairImmediate, Stock!RepairDispatch,
       StockFacts!RepairDispatch, Stock!Rollback, StockFacts!Rollback, Stock!Invoiced,
       StockFacts!Invoiced, Stock!AtMost, StockFacts!AtMost, Stock!OpenQty,
       StockFacts!OpenQty, Stock!SubmitDelivery, StockFacts!SubmitDelivery,
       Stock!CancelDelivery, StockFacts!CancelDelivery, Stock!Receive,
       StockFacts!Receive, Stock!Issue, StockFacts!Issue, Stock!Qty, StockFacts!Qty,
       Stock!Cardinality, StockFacts!Cardinality
<1>3. UNCHANGED Stock!vars => UNCHANGED StockFacts!vars
  BY DEF Stock!vars, StockFacts!vars
<1>4. StockFacts!TypeOK => Stock!TypeOK
  BY DEF Stock!TypeOK, StockFacts!TypeOK, Stock!RState, StockFacts!RState, Stock!Tx, StockFacts!Tx
<1>5. StockFacts!NoOverReservation => Stock!NoOverReservation
  BY DEF Stock!NoOverReservation, StockFacts!NoOverReservation, Stock!Reserved,
       StockFacts!Reserved, Stock!SumOver, StockFacts!SumOver, Stock!Units,
       StockFacts!Units, Stock!Held, StockFacts!Held, Stock!Protects,
       StockFacts!Protects, Stock!Qty, StockFacts!Qty, Stock!Cardinality,
       StockFacts!Cardinality
<1>6. StockFacts!ReservationFollowsInvoice => Stock!ReservationFollowsInvoice
  BY DEF Stock!ReservationFollowsInvoice, StockFacts!ReservationFollowsInvoice,
       Stock!Invoiced, StockFacts!Invoiced
<1> QED BY <1>1, <1>2, <1>3, <1>4, <1>5, <1>6

\* What the checkout needs to know of its stock.
StockOK == Stock!TypeOK /\ Stock!NoOverReservation /\ Stock!ReservationFollowsInvoice

(***************************************************************************)
(* Whatever customers, staff, providers and the sweep do, the checkout     *)
(* never promises the same unit twice, and reservations and invoices agree *)
(* on what was shipped: the theorems of StockReservation, carried over by  *)
(* the implementation.  (prepare_pos_commerce_checkout is covered as far   *)
(* as no other transaction comes between its check and its insert.)        *)
(***************************************************************************)
THEOREM CheckoutStockSafe == Spec => []StockOK
<1> USE StockConstants
<1>1. StockFacts!Spec => [](StockFacts!TypeOK /\ StockFacts!ReservationFollowsInvoice)
  BY StockFacts!ReservationsConsistent
<1>2. StockFacts!RacesConfined
  BY DEF StockFacts!RacesConfined
<1>3. StockFacts!Spec => []StockFacts!NoOverReservation
  BY <1>2, StockFacts!StockNeverOverReserved
<1>4. Stock!Spec => StockFacts!Spec
  BY SameStock, PTL DEF Stock!Spec, StockFacts!Spec
<1>5. Spec => Stock!Spec
  BY CheckoutImplementsStock DEF StockImplemented
<1>6. /\ StockFacts!TypeOK /\ StockFacts!ReservationFollowsInvoice
      /\ StockFacts!NoOverReservation
      => StockOK
  BY SameStock DEF StockOK
<1> QED BY <1>1, <1>3, <1>4, <1>5, <1>6, PTL

----------------------------------------------------------------------------
\* The types of everything but the stock, kept by every step.
LEMMA TypeStep ==
    ASSUME TypeOK, StockOK', [Next]_vars
    PROVE  TypeOK'
<1>s. Stock!TypeOK'
  BY DEF StockOK
<1>r. rqty \in [Order -> Nat]
  BY CheckoutConstants DEF TypeOK, Stock!TypeOK
<1>o. \A p \in Payment : OrderOf[p] \in Order
  BY CheckoutConstants
<1>c. \A o \in Order : CartOf[o] \in Cart
  BY CheckoutConstants
<1> USE <1>s, <1>r, <1>o, <1>c
<1> USE DEF OState, Open, Released
<1>1. CASE UNCHANGED vars
  BY <1>1 DEF vars, orderVars, cartVars, payVars, TypeOK
<1>2. ASSUME NEW c \in Cart, SellCart(c) \/ \E n \in Qty : EditCart(c, n) PROVE TypeOK'
  BY <1>2 DEF EditCart, SellCart, orderVars, payVars, TypeOK
<1>3. ASSUME NEW o \in Order, Prepare(o) PROVE TypeOK'
  BY <1>3 DEF Prepare, payVars, TypeOK
<1>4. ASSUME NEW o \in Order, Sweep(o) \/ Cancel(o) PROVE TypeOK'
  BY <1>4 DEF Sweep, Cancel, ReleaseOrder, payVars, TypeOK
<1>5. ASSUME NEW o \in Order, Lapse(o) \/ Collect(o) PROVE TypeOK'
  BY <1>5 DEF Lapse, Collect, cartVars, payVars, TypeOK
<1>6. ASSUME NEW o \in Order, AccountCredit(o) PROVE TypeOK'
  BY <1>6 DEF AccountCredit, Finalize, payVars, TypeOK
<1>7. ASSUME NEW o \in Order, Repair(o) PROVE TypeOK'
  <2>1. credit' \in Nat
    BY <1>7 DEF Repair, Redeem, Total, TypeOK
  <2>2. pay' \in [Payment -> PState] /\ ostate' \in [Order -> OState]
    BY <1>7 DEF Repair, PaidState, TypeOK, PState
  <2> QED BY <1>7, <2>1, <2>2 DEF Repair, TypeOK
<1>8. ASSUME NEW o \in Order, NEW q \in Qty, Deliver(o, q) \/ CancelDelivery(o, q) PROVE TypeOK'
  BY <1>8 DEF Deliver, CancelDelivery, cartVars, payVars, TypeOK
<1>9. ASSUME NEW i \in Intent, CreateCustomerIntent(i) \/ CreatePosIntent(i) PROVE TypeOK'
  BY <1>9 DEF CreateCustomerIntent, CreatePosIntent, OpenIntent, cartVars, TypeOK, Payment
<1>10. ASSUME NEW i \in Intent, Charge(i) PROVE TypeOK'
  BY <1>10 DEF Charge, orderVars, cartVars, TypeOK
<1>11. ASSUME NEW i \in Intent, NEW v \in Variant, FailedWebhook(i, v) PROVE TypeOK'
  BY <1>11 DEF FailedWebhook, cartVars, TypeOK, Payload, Payment
<1>12. ASSUME NEW p \in Payment, SettleDuplicate(p) \/ SettleUnfinalized(p),
              istatus' \in [Intent -> {"absent", "pending", "failed", "settled"}],
              charged' \subseteq Intent, seen' \subseteq Payload
       PROVE  TypeOK'
  BY <1>12 DEF SettleDuplicate, SettleUnfinalized, KeepAsCredit, Total, orderVars, cartVars, TypeOK, PState
<1>13. ASSUME NEW p \in Payment, SettleApplied(p), credit' \in Nat,
              istatus' \in [Intent -> {"absent", "pending", "failed", "settled"}],
              charged' \subseteq Intent, seen' \subseteq Payload
       PROVE  TypeOK'
  BY <1>13 DEF SettleApplied, Finalize, PaidState, TypeOK, PState
<1>14. ASSUME NEW i \in Intent, NEW v \in Variant, PaidWebhook(i, v) PROVE TypeOK'
  <2>1. /\ istatus' \in [Intent -> {"absent", "pending", "failed", "settled"}]
        /\ charged' \subseteq Intent /\ seen' \subseteq Payload
    BY <1>14 DEF PaidWebhook, TypeOK, Payload
  <2>2. credit \in Nat /\ i \in Payment
    BY DEF TypeOK, Payment
  <2>3. CASE istatus[i] = "settled"
    BY <1>14, <2>1, <2>3 DEF PaidWebhook, orderVars, cartVars, TypeOK
  <2>4. CASE istatus[i] # "settled"
    BY <1>12, <1>13, <1>14, <2>1, <2>2, <2>4 DEF PaidWebhook
  <2> QED BY <2>3, <2>4
<1>15. ASSUME NEW m \in Manual, ManualPayment(m) \/ \E k \in 0 .. MaxNeed : TenderPayment(m, k)
       PROVE  TypeOK'
  <2>1. /\ istatus' \in [Intent -> {"absent", "pending", "failed", "settled"}]
        /\ charged' \subseteq Intent /\ seen' \subseteq Payload
    BY <1>15 DEF ManualPayment, TenderPayment, TypeOK
  <2>2. credit \in Nat /\ m \in Payment
    BY DEF TypeOK, Payment
  <2>3. CASE ManualPayment(m)
    BY <1>12, <1>13, <2>1, <2>2, <2>3 DEF ManualPayment
  <2>4. ASSUME NEW k \in 0 .. MaxNeed, TenderPayment(m, k) PROVE TypeOK'
    <3>1. credit' \in Nat
      BY <2>2, <2>4, CheckoutConstants DEF TenderPayment, Redeem
    <3> QED BY <1>13, <2>1, <2>2, <2>4, <3>1 DEF TenderPayment
  <2> QED BY <1>15, <2>3, <2>4
<1>16. SpendCredit => TypeOK'
  BY DEF SpendCredit, Redeem, orderVars, cartVars, TypeOK
<1>17. ASSUME NEW q \in Qty, MoveStock(q) PROVE TypeOK'
  BY <1>17 DEF MoveStock, orderVars, cartVars, payVars, TypeOK
<1> QED
  BY <1>1, <1>2, <1>3, <1>4, <1>5, <1>6, <1>7, <1>8, <1>9, <1>10, <1>11, <1>14, <1>15, <1>16, <1>17
  DEF Next

(***************************************************************************)
(* Type correctness of the checkout, its orders, carts, intents, payments  *)
(* and reservations, for every value of the constants.                     *)
(***************************************************************************)
THEOREM TypeCorrect == Spec => []TypeOK
<1>1. Init /\ StockOK => TypeOK
  BY CheckoutConstants DEF Init, StockOK, TypeOK, OState, PState, Qty
<1> QED BY <1>1, TypeStep, CheckoutStockSafe, PTL DEF Spec

----------------------------------------------------------------------------
(***************************************************************************)
(* Payments.  SettlementAccounted is inductive once it is known that no    *)
(* order is settled while it is payable, expired, cancelled or absent: the *)
(* guards that protect a settled order test its state as often as its      *)
(* settlement.                                                             *)
(***************************************************************************)
SettledState ==
    \A o \in Order : ~Unsettled(o) => ostate[o] \notin Open \cup Released \cup {"absent"}

Ledger == SettlementAccounted /\ SettledState

\* Each step keeps the ledger, and changes no settlement that was recorded.
LEMMA LedgerStep ==
    ASSUME TypeOK, TypeOK', Ledger, [Next]_vars
    PROVE  /\ Ledger'
           /\ \A o \in Order : ~Unsettled(o) => settledBy'[o] = settledBy[o]
<1> DEFINE Stays(o) == ~Unsettled(o) => settledBy'[o] = settledBy[o]
           Goal == Ledger' /\ \A o \in Order : Stays(o)
<1>o. \A p \in Payment : OrderOf[p] \in Order
  BY CheckoutConstants
<1>i. Intent \subseteq Payment /\ Manual \subseteq Payment /\ NoPay \notin Payment
      /\ Intent \cap Manual = {}
  BY CheckoutConstants DEF Payment
<1> USE <1>o, <1>i
<1> USE DEF Ledger, SettlementAccounted, SettledState, Unsettled, Open, Released
\* The steps that only move orders between states.
<1>1. ASSUME UNCHANGED <<settledBy, invoiced, pay>>,
             \A i \in Intent : istatus'[i] = "settled" <=> istatus[i] = "settled",
             \A o \in Order : ~Unsettled(o) => ostate'[o] = ostate[o] \/ ostate'[o] \notin Open \cup Released \cup {"absent"}
      PROVE  Goal
  BY <1>1
<1>2. CASE UNCHANGED vars
  BY <1>2, <1>1 DEF vars, orderVars, payVars
<1>3. ASSUME NEW c \in Cart, SellCart(c) \/ \E n \in Qty : EditCart(c, n) PROVE Goal
  BY <1>3, <1>1 DEF SellCart, EditCart, orderVars, payVars
<1>4. ASSUME NEW o \in Order, Prepare(o) PROVE Goal
  <2>1. \A x \in Order : ~Unsettled(x) => ostate'[x] = ostate[x]
    BY <1>4 DEF Prepare, Exists, Expirable
  <2> QED BY <1>4, <1>1, <2>1 DEF Prepare, payVars
<1>5. ASSUME NEW o \in Order, Sweep(o) \/ Cancel(o) PROVE Goal
  BY <1>5, <1>1 DEF Sweep, Cancel, ReleaseOrder, payVars, TypeOK
<1>6. ASSUME NEW o \in Order, Lapse(o) \/ Collect(o) PROVE Goal
  BY <1>6, <1>1 DEF Lapse, Collect, cartVars, payVars, TypeOK
<1>7. ASSUME NEW o \in Order, NEW q \in Qty, Deliver(o, q) \/ CancelDelivery(o, q) PROVE Goal
  BY <1>7, <1>1 DEF Deliver, CancelDelivery, payVars, TypeOK
<1>8. ASSUME NEW i \in Intent, CreateCustomerIntent(i) \/ CreatePosIntent(i) PROVE Goal
  BY <1>8, <1>1 DEF CreateCustomerIntent, CreatePosIntent, OpenIntent, TypeOK
<1>9. ASSUME NEW i \in Intent, Charge(i) PROVE Goal
  BY <1>9, <1>1 DEF Charge, orderVars
<1>10. ASSUME NEW i \in Intent, NEW v \in Variant, FailedWebhook(i, v) PROVE Goal
  BY <1>10, <1>1 DEF FailedWebhook, TypeOK
<1>11. ASSUME NEW q \in Qty, MoveStock(q) PROVE Goal
  BY <1>11, <1>1 DEF MoveStock, orderVars, payVars
\* An account sale invoices an order that nobody has paid.
<1>12. ASSUME NEW o \in Order, AccountCredit(o) PROVE Goal
  BY <1>12 DEF AccountCredit, AcceptsStaffPayment, Finalize, payVars, TypeOK
\* A repair turns the settling payment of its order from held to applied.
<1>13. ASSUME NEW o \in Order, Repair(o) PROVE Goal
  BY <1>13 DEF Repair, PaidState, TypeOK
\* A settlement: the payment is new, the order unsettled or the payment a duplicate.
<1>14. ASSUME NEW p \in Payment, pay[p] = "none",
              \A i \in Intent : IF i = p THEN istatus'[i] = "settled"
                                ELSE istatus'[i] = "settled" <=> istatus[i] = "settled",
              SettleDuplicate(p) \/ SettleApplied(p) \/ SettleUnfinalized(p)
       PROVE  Goal
  <2>1. CASE SettleDuplicate(p)
    BY <1>14, <2>1 DEF SettleDuplicate, orderVars, TypeOK
  <2>2. CASE SettleUnfinalized(p)
    BY <1>14, <2>2 DEF SettleUnfinalized, TypeOK
  <2>3. CASE SettleApplied(p)
    BY <1>14, <2>3 DEF SettleApplied, Finalize, PaidState, TypeOK
  <2> QED BY <1>14, <2>1, <2>2, <2>3
<1>15. ASSUME NEW i \in Intent, NEW v \in Variant, PaidWebhook(i, v) PROVE Goal
  <2>1. CASE istatus[i] = "settled"
    BY <1>15, <1>1, <2>1 DEF PaidWebhook, orderVars
  <2>2. CASE istatus[i] # "settled"
    BY <1>15, <1>14, <2>2 DEF PaidWebhook, TypeOK
  <2> QED BY <2>1, <2>2
<1>16. ASSUME NEW m \in Manual, ManualPayment(m) \/ \E k \in 0 .. MaxNeed : TenderPayment(m, k)
       PROVE  Goal
  BY <1>16, <1>14 DEF ManualPayment, TenderPayment
<1>17. SpendCredit => Goal
  BY <1>1 DEF SpendCredit, orderVars
<1> QED
  BY <1>2, <1>3, <1>4, <1>5, <1>6, <1>7, <1>8, <1>9, <1>10, <1>11, <1>12, <1>13, <1>15, <1>16, <1>17
  DEF Next

\* Nothing is settled at first.
LEMMA LedgerInit == Init => Ledger
BY CheckoutConstants DEF Init, Ledger, SettlementAccounted, SettledState, Unsettled, Payment

(***************************************************************************)
(* Every settlement is accounted for exactly once, for every value of the  *)
(* constants: no webhook repetition, late success, staff payment, account  *)
(* sale or repair loses a payment entry or applies it to another order.    *)
(***************************************************************************)
THEOREM SettlementsAccounted == Spec => []SettlementAccounted
<1>1. Ledger => SettlementAccounted
  BY DEF Ledger
<1> QED BY <1>1, LedgerInit, LedgerStep, TypeCorrect, PTL DEF Spec

(***************************************************************************)
(* A settled order keeps its settlement and is never payable, expired or   *)
(* cancelled again, for every value of the constants.                      *)
(***************************************************************************)
THEOREM PaidOrdersProtected == Spec => PaidOrderProtected
<1>1. ASSUME TypeOK, TypeOK', Ledger, [Next]_vars
      PROVE  Ledger' /\ [\A o \in Order : ~Unsettled(o) =>
               settledBy'[o] = settledBy[o] /\ ostate'[o] \notin Open \cup Released]_vars
  BY <1>1, LedgerStep DEF Ledger, SettledState, Unsettled
<1> QED BY <1>1, LedgerInit, TypeCorrect, PTL DEF Spec, PaidOrderProtected

----------------------------------------------------------------------------
(***************************************************************************)
(* Carts, invoices and stock.  The three invariants hold each other up: an *)
(* invoice closes its cart, so an open cart's lock cannot be an invoiced   *)
(* order's, and a reservation is used up exactly when the invoice is made. *)
(***************************************************************************)
Sales == CartInvoicedOnce /\ InvoicedIffServed /\ LockHeldByLiveOrder

\* Each step keeps the carts, the invoices and the reservations in agreement.
LEMMA SalesStep ==
    ASSUME TypeOK, TypeOK', Sales, [Next]_vars
    PROVE  Sales'
<1>o. \A p \in Payment : OrderOf[p] \in Order
  BY CheckoutConstants
<1>i. Intent \subseteq Payment /\ Manual \subseteq Payment
  BY DEF Payment
<1>c. CartOf \in [Order -> Cart] /\ NoOrder \notin Order
  BY CheckoutConstants
<1>t. /\ lock \in [Cart -> Order \cup {NoOrder}] /\ lock' \in [Cart -> Order \cup {NoOrder}]
      /\ cstatus \in [Cart -> {"open", "checked_out", "sold"}]
      /\ invoiced \in [Order -> BOOLEAN] /\ ostate \in [Order -> OState]
      /\ rstate \in [Order -> Stock!RState]
  BY DEF TypeOK, Stock!TypeOK
<1> USE <1>o, <1>i, <1>c, <1>t
<1> USE DEF Sales, Live, Exists, Open, Released
\* A step that makes no invoice, takes no goods and releases no lock's order.
<1> DEFINE Served(o) == rstate[o] \in {"allocated", "consumed"}
           Quiet == /\ invoiced' = invoiced /\ lock' = lock
                    /\ \A c \in Cart : \/ cstatus'[c] = cstatus[c]
                                       \/ cstatus[c] = "open" /\ cstatus'[c] = "sold"
                    /\ \A o \in Order : Served(o)' <=> Served(o)
                    /\ \A o \in Order : \/ ostate'[o] = ostate[o]
                                        \/ ostate'[o] \notin Released \cup {"absent"}
<1>1. ASSUME Quiet PROVE Sales'
  <2>1. CartInvoicedOnce'
    BY <1>1 DEF CartInvoicedOnce
  <2>2. InvoicedIffServed'
    BY <1>1 DEF InvoicedIffServed
  <2>3. LockHeldByLiveOrder'
    BY <1>1 DEF LockHeldByLiveOrder
  <2> QED BY <2>1, <2>2, <2>3
<1>2. CASE UNCHANGED vars
  <2>1. Quiet
    BY <1>2 DEF vars, orderVars, cartVars, stockVars
  <2> QED BY <1>1, <2>1
<1>3. ASSUME NEW c \in Cart, SellCart(c) \/ \E n \in Qty : EditCart(c, n) PROVE Sales'
  <2>1. Quiet
    BY <1>3 DEF SellCart, EditCart, orderVars, stockVars, Stock!Issue
  <2> QED BY <1>1, <2>1
<1>4. ASSUME NEW o \in Order, Prepare(o) PROVE Sales'
  <2> DEFINE held == {x \in Order : lock[CartOf[o]] = x}
  <2>1. /\ \A x \in held : x # o /\ ~invoiced[x]
        /\ UNCHANGED <<invoiced, cstatus>> /\ rstate[o] = "none" /\ cstatus[CartOf[o]] = "open"
        /\ lock' = [lock EXCEPT ![CartOf[o]] = o]
    BY <1>4 DEF Prepare, Expirable, Stock!ReserveLocked
  <2>2. /\ ostate'[o] = "awaiting_payment"
        /\ \A x \in Order \ (held \cup {o}) : ostate'[x] = ostate[x]
    BY <1>4 DEF Prepare
  <2>3. /\ rstate'[o] = "active"
        /\ \A x \in Order \ {o} : \/ rstate'[x] = rstate[x]
                                  \/ rstate[x] = "lapsed" /\ rstate'[x] = "expired"
    <3> DEFINE old == held \cap Stock!Lapsed
    <3>1. rstate' = [x \in Order |-> CASE x = o -> "active"
                                       [] x # o /\ x \in old -> "expired"
                                       [] OTHER -> rstate[x]]
      BY <1>4 DEF Prepare, Stock!ReserveLocked, Stock!Reserve
    <3>2. \A x \in old : rstate[x] = "lapsed"
      BY DEF Stock!Lapsed
    <3> HIDE DEF old
    <3>3. rstate'[o] = "active"
      BY <3>1
    <3>4. \A x \in Order \ {o} : rstate'[x] = IF x \in old THEN "expired" ELSE rstate[x]
      BY <3>1
    <3> QED BY <3>2, <3>3, <3>4
  <2>4. CartInvoicedOnce'
    BY <2>1 DEF CartInvoicedOnce
  <2>5. InvoicedIffServed'
    BY <2>1, <2>2, <2>3 DEF InvoicedIffServed
  <2>6. LockHeldByLiveOrder'
    BY <2>1, <2>2, <2>3 DEF LockHeldByLiveOrder, InvoicedIffServed
  <2> QED BY <2>4, <2>5, <2>6
<1>5. ASSUME NEW o \in Order, Sweep(o) \/ Cancel(o) PROVE Sales'
  <2>1. PICK s \in {"payment_expired", "cancelled"} : ReleaseOrder(o, s)
    BY <1>5 DEF Sweep, Cancel
  <2>2. UNCHANGED <<invoiced, cstatus>>
    BY <1>5 DEF Sweep, Cancel
  <2>3. \A x \in Order : Served(x)' <=> Served(x)
    BY <2>1 DEF ReleaseOrder, stockVars, Stock!Release
  <2>4. CartInvoicedOnce'
    BY <2>2 DEF CartInvoicedOnce
  <2>5. InvoicedIffServed'
    BY <2>1, <2>2, <2>3 DEF InvoicedIffServed, ReleaseOrder
  <2>6. LockHeldByLiveOrder'
    BY <2>1, <2>2 DEF LockHeldByLiveOrder, ReleaseOrder
  <2> QED BY <2>4, <2>5, <2>6
<1>6. ASSUME NEW o \in Order, Lapse(o) \/ Collect(o) PROVE Sales'
  <2>1. Quiet
    BY <1>6 DEF Lapse, Collect, cartVars, stockVars, Stock!Lapse
  <2> QED BY <1>1, <2>1
<1>7. ASSUME NEW o \in Order, NEW q \in Qty, Deliver(o, q) \/ CancelDelivery(o, q) PROVE Sales'
  <2>1. \A x \in Order : Served(x)' <=> Served(x)
    BY <1>7 DEF Deliver, CancelDelivery, Stock!SubmitDelivery, Stock!CancelDelivery, Stock!Invoiced
  <2>2. Quiet
    BY <1>7, <2>1 DEF Deliver, CancelDelivery, cartVars
  <2> QED BY <1>1, <2>2
<1>8. ASSUME NEW i \in Intent, CreateCustomerIntent(i) \/ CreatePosIntent(i) PROVE Sales'
  <2>1. Quiet
    BY <1>8 DEF CreateCustomerIntent, CreatePosIntent, OpenIntent, cartVars, stockVars
  <2> QED BY <1>1, <2>1
<1>9. ASSUME NEW i \in Intent, Charge(i) PROVE Sales'
  <2>1. Quiet
    BY <1>9 DEF Charge, orderVars, cartVars, stockVars
  <2> QED BY <1>1, <2>1
<1>10. ASSUME NEW i \in Intent, NEW v \in Variant, FailedWebhook(i, v) PROVE Sales'
  <2>1. Quiet
    BY <1>10 DEF FailedWebhook, cartVars, stockVars
  <2> QED BY <1>1, <2>1
<1>11. ASSUME NEW q \in Qty, MoveStock(q) PROVE Sales'
  <2>1. Quiet
    BY <1>11 DEF MoveStock, orderVars, cartVars, Stock!Receive, Stock!Issue
  <2> QED BY <1>1, <2>1
\* The steps that make an invoice: it closes the cart and uses up the reservation.
<1>12. ASSUME NEW o \in Order, ~invoiced[o], cstatus[CartOf[o]] = "open", rstate'[o] \in {"allocated", "consumed"},
              \A x \in Order \ {o} : rstate'[x] = rstate[x] /\ ostate'[x] = ostate[x],
              ostate'[o] \notin Released \cup {"absent"},
              invoiced' = [invoiced EXCEPT ![o] = TRUE],
              cstatus' = [cstatus EXCEPT ![CartOf[o]] = "checked_out"], lock' = lock
       PROVE  Sales'
  <2>1. CartInvoicedOnce'
    BY <1>12 DEF CartInvoicedOnce
  <2>2. InvoicedIffServed'
    BY <1>12 DEF InvoicedIffServed
  <2>3. LockHeldByLiveOrder'
    BY <1>12 DEF LockHeldByLiveOrder
  <2> QED BY <2>1, <2>2, <2>3
<1>13. ASSUME NEW o \in Order, Repair(o) PROVE Sales'
  BY <1>13, <1>12 DEF Repair, CartMatches, PaidState, Stock!RepairImmediate, Stock!RepairDispatch,
                      Stock!IssueAll, Stock!Allocate
<1>14. ASSUME NEW o \in Order, NEW s \in {"paid", "allocation_pending", "account_invoiced"},
              Finalize(o), ostate' = [ostate EXCEPT ![o] = s], lock' = lock
       PROVE  Sales'
  <2>1. CASE invoiced[o]
    <3>1. Quiet
      BY <1>14, <2>1 DEF Finalize, stockVars
    <3> QED BY <1>1, <3>1
  <2>2. CASE ~invoiced[o]
    BY <1>14, <1>12, <2>2 DEF Finalize, CartMatches, Stock!FinalizeImmediate, Stock!FinalizeDispatch,
                              Stock!IssueAll, Stock!Allocate
  <2> QED BY <2>1, <2>2
<1>15. ASSUME NEW o \in Order, AccountCredit(o) PROVE Sales'
  BY <1>15, <1>14 DEF AccountCredit
<1>16. ASSUME NEW p \in Payment, SettleDuplicate(p) \/ SettleApplied(p) \/ SettleUnfinalized(p)
       PROVE  Sales'
  <2>1. CASE SettleApplied(p)
    BY <1>14, <2>1 DEF SettleApplied, PaidState
  <2>2. CASE SettleDuplicate(p) \/ SettleUnfinalized(p)
    <3>1. Quiet
      BY <2>2 DEF SettleDuplicate, SettleUnfinalized, orderVars, cartVars, stockVars
    <3> QED BY <1>1, <3>1
  <2> QED BY <1>16, <2>1, <2>2
<1>17. ASSUME NEW i \in Intent, NEW v \in Variant, PaidWebhook(i, v) PROVE Sales'
  <2>1. CASE istatus[i] = "settled"
    <3>1. Quiet
      BY <1>17, <2>1 DEF PaidWebhook, orderVars, cartVars, stockVars
    <3> QED BY <1>1, <3>1
  <2> QED BY <1>17, <1>16, <2>1 DEF PaidWebhook
<1>18. ASSUME NEW m \in Manual, ManualPayment(m) \/ \E k \in 0 .. MaxNeed : TenderPayment(m, k)
       PROVE  Sales'
  BY <1>18, <1>16 DEF ManualPayment, TenderPayment
<1>19. SpendCredit => Sales'
  <2>1. SpendCredit => Quiet
    BY DEF SpendCredit, orderVars, cartVars, stockVars
  <2> QED BY <1>1, <2>1
<1> QED
  BY <1>2, <1>3, <1>4, <1>5, <1>6, <1>7, <1>8, <1>9, <1>10, <1>11, <1>13, <1>15, <1>17, <1>18, <1>19
  DEF Next

\* Nothing is sold or locked at first.
LEMMA SalesInit == Init => Sales
BY CheckoutConstants
   DEF Init, Sales, CartInvoicedOnce, InvoicedIffServed, LockHeldByLiveOrder, Released, Stock!Init

(***************************************************************************)
(* A cart is invoiced at most once, whatever becomes of its orders, for    *)
(* every value of the constants.                                           *)
(***************************************************************************)
THEOREM CartsInvoicedOnce == Spec => []CartInvoicedOnce
<1>1. Sales => CartInvoicedOnce
  BY DEF Sales
<1> QED BY <1>1, SalesInit, SalesStep, TypeCorrect, PTL DEF Spec

(***************************************************************************)
(* Exactly the invoiced orders have been given stock, and none of them is  *)
(* expired or cancelled, for every value of the constants.                 *)
(***************************************************************************)
THEOREM InvoicedOrdersServed == Spec => []InvoicedIffServed
<1>1. Sales => InvoicedIffServed
  BY DEF Sales
<1> QED BY <1>1, SalesInit, SalesStep, TypeCorrect, PTL DEF Spec

(***************************************************************************)
(* An open cart is never locked by a dead order, for every value of the    *)
(* constants.                                                              *)
(***************************************************************************)
THEOREM LocksHeldByLiveOrders == Spec => []LockHeldByLiveOrder
<1>1. Sales => LockHeldByLiveOrder
  BY DEF Sales
<1> QED BY <1>1, SalesInit, SalesStep, TypeCorrect, PTL DEF Spec

----------------------------------------------------------------------------
(***************************************************************************)
(* Store credit.  The balance changes together with the set of payments    *)
(* held as credit, and the total of an order that such a payment is for    *)
(* does not change any more: only a new checkout reserves a quantity.      *)
(***************************************************************************)
HeldPay == {p \in Payment : pay[p] \in {"duplicate", "unfinalized"}}

Money(S) == {u \in S \X Qty : u[2] <= Total(OrderOf[u[1]])}

LEMMA MoneyFinite ==
    ASSUME NEW S \in SUBSET Payment
    PROVE  IsFiniteSet(Money(S)) /\ Kept(S) \in Nat
<1>1. IsFiniteSet(S) /\ IsFiniteSet(Qty)
  <2>1. IsFiniteSet(S)
    BY FS_Subset, CheckoutConstants
  <2>2. 1 \in Int /\ MaxNeed \in Int
    BY CheckoutConstants
  <2> QED BY <2>1, <2>2, FS_Interval DEF Qty
<1>2. IsFiniteSet(S \X Qty)
  BY <1>1, FS_Product
<1>3. Money(S) \subseteq S \X Qty
  BY DEF Money
<1>4. IsFiniteSet(Money(S))
  BY <1>2, <1>3, FS_Subset
<1> QED BY <1>4, FS_CardinalityType DEF Kept, Money

\* A payment adds the total of its order to what is held.
LEMMA KeptAdd ==
    ASSUME TypeOK, NEW S \in SUBSET Payment, NEW p \in Payment \ S
    PROVE  Kept(S \cup {p}) = Kept(S) + Total(OrderOf[p])
<1> DEFINE n   == Total(OrderOf[p])
           Own == {p} \X (1 .. n)
<1>1. n \in 0 .. MaxNeed /\ MaxNeed \in Nat
  BY CheckoutConstants DEF TypeOK, Stock!TypeOK, Total
<1>2. Money(S \cup {p}) = Money(S) \cup Own
  <2>1. Money(S \cup {p}) \subseteq Money(S) \cup Own
    BY <1>1 DEF Money, Qty
  <2>2. Money(S) \subseteq Money(S \cup {p})
    BY DEF Money
  <2>3. Own \subseteq Money(S \cup {p})
    BY <1>1 DEF Money, Qty
  <2> QED BY <2>1, <2>2, <2>3
<1>3. Money(S) \cap Own = {}
  BY DEF Money
<1> HIDE DEF n
<1>4. IsFiniteSet({p}) /\ Cardinality({p}) = 1
  BY FS_Singleton
<1>5. IsFiniteSet(1 .. n) /\ Cardinality(1 .. n) = n
  <2>1. 1 \in Int /\ n \in Int
    BY <1>1
  <2>2. IsFiniteSet(1 .. n) /\ Cardinality(1 .. n) = IF 1 > n THEN 0 ELSE n - 1 + 1
    BY <2>1, FS_Interval
  <2> QED BY <1>1, <2>2
<1>6. IsFiniteSet(Own) /\ Cardinality(Own) = Cardinality({p}) * Cardinality(1 .. n)
  BY <1>4, <1>5, FS_Product
<1>7. Cardinality(Own) = n
  BY <1>1, <1>4, <1>5, <1>6
<1>8. /\ Cardinality(Money(S) \cup Own)
           = Cardinality(Money(S)) + Cardinality(Own) - Cardinality(Money(S) \cap Own)
      /\ Cardinality(Money(S) \cap Own) = 0
  <2>1. IsFiniteSet(Money(S)) /\ IsFiniteSet(Own)
    BY <1>6, MoneyFinite
  <2> HIDE DEF Own
  <2>2. Cardinality(Money(S) \cup Own)
           = Cardinality(Money(S)) + Cardinality(Own) - Cardinality(Money(S) \cap Own)
    BY <2>1, FS_Union
  <2>3. Cardinality(Money(S) \cap Own) = 0
    BY <1>3, FS_EmptySet
  <2> QED BY <2>2, <2>3
<1>9. Kept(S \cup {p}) = Cardinality(Money(S \cup {p})) /\ Kept(S) = Cardinality(Money(S))
  BY DEF Kept, Money
<1>10. Kept(S) \in Nat
  BY MoneyFinite
<1> HIDE DEF Own
<1>11. Kept(S \cup {p}) = Cardinality(Money(S) \cup Own)
  BY <1>2, <1>9
<1>12. Cardinality(Money(S) \cup Own) = Kept(S) + n - 0
  BY <1>7, <1>8, <1>9
<1>13. Kept(S) + n - 0 = Kept(S) + n
  BY <1>1, <1>10
<1> QED BY <1>11, <1>12, <1>13 DEF n

\* What is held depends on the totals of its orders only.
LEMMA KeptSame ==
    ASSUME NEW S \in SUBSET Payment, \A p \in S : rqty'[OrderOf[p]] = rqty[OrderOf[p]]
    PROVE  Kept(S)' = Kept(S)
<1> DEFINE Now(u)  == u[2] <= rqty[OrderOf[u[1]]]
           Then(u) == u[2] <= rqty'[OrderOf[u[1]]]
<1>1. \A u \in S \X Qty : Then(u) <=> Now(u)
  <2>1. \A u \in S \X Qty : rqty'[OrderOf[u[1]]] = rqty[OrderOf[u[1]]]
    OBVIOUS
  <2> QED BY <2>1
<1>2. Kept(S) = Cardinality({u \in S \X Qty : Now(u)}) /\ Kept(S)' = Cardinality({u \in S \X Qty : Then(u)})
  BY DEF Kept, Total
<1> HIDE DEF Now, Then
<1>3. {u \in S \X Qty : Then(u)} = {u \in S \X Qty : Now(u)}
  BY <1>1
<1> QED BY <1>2, <1>3

\* The total of an existing order is fixed.
LEMMA TotalFixed ==
    ASSUME TypeOK, [Next]_vars, NEW x \in Order, Exists(x)
    PROVE  rqty'[x] = rqty[x]
<1>r. rqty \in [Order -> 0 .. MaxNeed]
  BY DEF TypeOK, Stock!TypeOK
<1>1. ASSUME NEW o \in Order, Prepare(o) PROVE rqty'[x] = rqty[x]
  <2>1. rqty' = [rqty EXCEPT ![o] = need[CartOf[o]]] /\ o # x
    BY <1>1 DEF Prepare, Stock!ReserveLocked
  <2> QED BY <1>r, <2>1
<1>2. ASSUME NEW o \in Order, Finalize(o) PROVE rqty' = rqty
  BY <1>2 DEF Finalize, stockVars, Stock!FinalizeImmediate, Stock!FinalizeDispatch, Stock!IssueAll, Stock!Allocate
<1>3. ASSUME NEW o \in Order,
             Lapse(o) \/ Sweep(o) \/ Cancel(o) \/ AccountCredit(o) \/ Repair(o) \/ Collect(o)
      PROVE  rqty' = rqty
  <2>1. CASE Lapse(o) \/ Collect(o)
    BY <2>1 DEF Lapse, Collect, stockVars, Stock!Lapse
  <2>2. CASE Sweep(o) \/ Cancel(o)
    BY <2>2 DEF Sweep, Cancel, ReleaseOrder, stockVars, Stock!Release
  <2>3. CASE AccountCredit(o)
    BY <2>3, <1>2 DEF AccountCredit
  <2>4. CASE Repair(o)
    BY <2>4 DEF Repair, Stock!RepairImmediate, Stock!RepairDispatch, Stock!IssueAll, Stock!Allocate
  <2> QED BY <1>3, <2>1, <2>2, <2>3, <2>4
<1>4. ASSUME NEW o \in Order, NEW q \in Qty, Deliver(o, q) \/ CancelDelivery(o, q) PROVE rqty' = rqty
  BY <1>4 DEF Deliver, CancelDelivery, Stock!SubmitDelivery, Stock!CancelDelivery
<1>5. ASSUME NEW p \in Payment, SettleDuplicate(p) \/ SettleApplied(p) \/ SettleUnfinalized(p)
      PROVE  rqty' = rqty
  <2>1. OrderOf[p] \in Order
    BY CheckoutConstants
  <2> QED BY <1>2, <1>5, <2>1 DEF SettleDuplicate, SettleApplied, SettleUnfinalized, stockVars
<1>6. ASSUME NEW i \in Intent, NEW v \in Variant, PaidWebhook(i, v) \/ FailedWebhook(i, v) PROVE rqty' = rqty
  BY <1>5, <1>6 DEF PaidWebhook, FailedWebhook, Payment, stockVars
<1>7. ASSUME NEW i \in Intent, CreateCustomerIntent(i) \/ CreatePosIntent(i) \/ Charge(i) PROVE rqty' = rqty
  BY <1>7 DEF CreateCustomerIntent, CreatePosIntent, OpenIntent, Charge, stockVars
<1>8. ASSUME NEW m \in Manual, ManualPayment(m) \/ \E k \in 0 .. MaxNeed : TenderPayment(m, k)
      PROVE  rqty' = rqty
  BY <1>5, <1>8 DEF ManualPayment, TenderPayment, Payment
<1>9. ASSUME NEW c \in Cart, SellCart(c) \/ \E n \in Qty : EditCart(c, n) PROVE rqty' = rqty
  BY <1>9 DEF SellCart, EditCart, stockVars, Stock!Issue
<1>10. ASSUME NEW q \in Qty, MoveStock(q) PROVE rqty' = rqty
  BY <1>10 DEF MoveStock, Stock!Receive, Stock!Issue
<1>11. SpendCredit \/ UNCHANGED vars => rqty' = rqty
  BY DEF SpendCredit, vars, stockVars
<1> QED BY <1>1, <1>3, <1>4, <1>6, <1>7, <1>8, <1>9, <1>10, <1>11 DEF Next

\* The balance and the payments held as credit change together.
LEMMA CreditMoves ==
    ASSUME TypeOK, Ledger, [Next]_vars
    PROVE  \/ HeldPay' = HeldPay /\ credit' <= credit
           \/ \E p \in Payment \ HeldPay :
                 HeldPay' = HeldPay \cup {p} /\ credit' = credit + Total(OrderOf[p]) /\ rqty' = rqty
           \/ \E p \in HeldPay : HeldPay' = HeldPay \ {p} /\ credit' = credit - Total(OrderOf[p])
<1> DEFINE Stays == HeldPay' = HeldPay /\ credit' <= credit
           Adds  == \E p \in Payment \ HeldPay :
                       HeldPay' = HeldPay \cup {p} /\ credit' = credit + Total(OrderOf[p]) /\ rqty' = rqty
           Takes == \E p \in HeldPay : HeldPay' = HeldPay \ {p} /\ credit' = credit - Total(OrderOf[p])
<1>t. pay \in [Payment -> PState] /\ credit \in Nat
  BY DEF TypeOK
<1>s. credit' = credit => credit' <= credit
  BY <1>t
<1>r. ASSUME NEW k \in Nat, Redeem(k) PROVE credit' <= credit
  BY <1>t, <1>r DEF Redeem
<1>1. ASSUME UNCHANGED payVars PROVE Stays
  BY <1>1, <1>s DEF payVars, HeldPay
<1>2. ASSUME NEW p \in Payment, pay[p] = "none", SettleDuplicate(p) \/ SettleUnfinalized(p) PROVE Adds
  <2>1. PICK s \in {"duplicate", "unfinalized"} : pay' = [pay EXCEPT ![p] = s]
    BY <1>2 DEF SettleDuplicate, SettleUnfinalized
  <2>2. credit' = credit + Total(OrderOf[p]) /\ rqty' = rqty
    BY <1>2 DEF SettleDuplicate, SettleUnfinalized, KeepAsCredit, stockVars
  <2>3. p \notin HeldPay /\ HeldPay' = HeldPay \cup {p}
    BY <1>2, <1>t, <2>1 DEF HeldPay
  <2> QED BY <2>2, <2>3
<1>3. ASSUME NEW p \in Payment, pay[p] = "none", SettleApplied(p), credit' <= credit PROVE Stays
  BY <1>3, <1>t DEF SettleApplied, HeldPay
<1>4. ASSUME NEW i \in Intent, NEW v \in Variant, PaidWebhook(i, v) PROVE Stays \/ Adds
  <2>1. CASE istatus[i] = "settled"
    BY <1>1, <1>4, <2>1, <1>s DEF PaidWebhook, HeldPay
  <2>2. CASE istatus[i] # "settled"
    <3>1. i \in Payment /\ pay[i] = "none"
      BY <2>2 DEF Payment, Ledger, SettlementAccounted
    <3> QED BY <1>2, <1>3, <1>4, <2>2, <3>1, <1>s DEF PaidWebhook
  <2> QED BY <2>1, <2>2
<1>5. ASSUME NEW m \in Manual, ManualPayment(m) PROVE Stays \/ Adds
  BY <1>2, <1>3, <1>5, <1>s DEF ManualPayment, Payment
<1>6. ASSUME NEW m \in Manual, NEW k \in 0 .. MaxNeed, TenderPayment(m, k) PROVE Stays
  <2>1. k \in Nat
    BY CheckoutConstants
  <2> QED BY <1>3, <1>6, <1>r, <2>1 DEF TenderPayment, Payment
<1>7. ASSUME NEW o \in Order, Repair(o) PROVE Takes
  <2> DEFINE p == settledBy[o]
  <2>1. /\ ~Unsettled(o) /\ pay[p] = "unfinalized" /\ pay' = [pay EXCEPT ![p] = "repaired"]
        /\ credit' = credit - Total(o)
    BY <1>7 DEF Repair, Redeem
  <2>2. OrderOf[p] = o /\ p \in Payment
    BY <2>1 DEF Ledger, SettlementAccounted, TypeOK, Unsettled
  <2> HIDE DEF p
  <2>3. p \in HeldPay /\ HeldPay' = HeldPay \ {p}
    BY <1>t, <2>1, <2>2 DEF HeldPay
  <2> QED BY <2>1, <2>2, <2>3
<1>8. SpendCredit => Stays
  <2>1. 1 \in Nat
    OBVIOUS
  <2> QED BY <1>r, <2>1 DEF SpendCredit, HeldPay
<1>9. ASSUME NEW o \in Order,
             \/ Prepare(o) \/ Lapse(o) \/ Sweep(o) \/ Cancel(o) \/ AccountCredit(o) \/ Collect(o)
             \/ \E q \in Qty : Deliver(o, q) \/ CancelDelivery(o, q)
      PROVE  UNCHANGED payVars
  BY <1>9 DEF Prepare, Lapse, Sweep, Cancel, AccountCredit, Collect, Deliver, CancelDelivery
<1>10. ASSUME NEW i \in Intent,
              \/ CreateCustomerIntent(i) \/ CreatePosIntent(i) \/ Charge(i)
              \/ \E v \in Variant : FailedWebhook(i, v)
       PROVE  UNCHANGED <<pay, credit>>
  BY <1>10 DEF CreateCustomerIntent, CreatePosIntent, OpenIntent, Charge, FailedWebhook
<1>11. ASSUME \/ UNCHANGED vars \/ \E q \in Qty : MoveStock(q)
              \/ \E c \in Cart : SellCart(c) \/ \E n \in Qty : EditCart(c, n)
       PROVE  UNCHANGED payVars
  BY <1>11 DEF vars, MoveStock, SellCart, EditCart
<1>12. ASSUME UNCHANGED <<pay, credit>> PROVE Stays
  BY <1>12, <1>s DEF HeldPay
<1> HIDE DEF Stays, Adds, Takes
<1>13. Stays \/ Adds \/ Takes
  BY <1>1, <1>4, <1>5, <1>6, <1>7, <1>8, <1>9, <1>10, <1>11, <1>12 DEF Next
<1> QED BY <1>13 DEF Stays, Adds, Takes

LEMMA CreditStep ==
    ASSUME TypeOK, TypeOK', Ledger, CreditBacked, [Next]_vars
    PROVE  CreditBacked'
<1>1. PICK S \in SUBSET Payment : S = HeldPay
  BY DEF HeldPay
<1>2. PICK T \in SUBSET Payment : T = HeldPay'
  BY DEF HeldPay
<1>3. \A p \in Payment : pay[p] \in {"duplicate", "unfinalized"} => Exists(OrderOf[p]) /\ OrderOf[p] \in Order
  <2> SUFFICES ASSUME NEW p \in Payment, pay[p] \in {"duplicate", "unfinalized"}
               PROVE  Exists(OrderOf[p]) /\ OrderOf[p] \in Order
    OBVIOUS
  <2>1. OrderOf[p] \in Order
    BY CheckoutConstants
  <2>2. ~Unsettled(OrderOf[p])
    BY CheckoutConstants DEF Ledger, SettlementAccounted, Unsettled
  <2> QED BY <2>1, <2>2 DEF Ledger, SettledState, Exists
<1>4. Kept(S)' = Kept(S)
  <2>1. \A p \in S : rqty'[OrderOf[p]] = rqty[OrderOf[p]]
    BY <1>1, <1>3, TotalFixed DEF HeldPay
  <2> QED BY <2>1, KeptSame
<1>5. /\ credit \in Nat /\ credit' \in Nat /\ Kept(S) \in Nat /\ credit <= Kept(S)
      /\ \A p \in Payment : Total(OrderOf[p]) \in Nat
  <2>1. credit \in Nat /\ credit' \in Nat
    BY DEF TypeOK
  <2>2. \A p \in Payment : Total(OrderOf[p]) \in Nat
    BY CheckoutConstants DEF TypeOK, Stock!TypeOK, Total
  <2>3. credit <= Kept(S)
    BY <1>1 DEF CreditBacked, HeldPay
  <2> QED BY <2>1, <2>2, <2>3, MoneyFinite
<1> HIDE DEF HeldPay
<1>6. credit' <= Kept(T)'
  <2>1. CASE T = S /\ credit' <= credit
    <3>1. Kept(T)' = Kept(S)
      BY <1>4, <2>1
    <3> QED BY <1>5, <2>1, <3>1
  <2>2. ASSUME NEW p \in Payment \ S, T = S \cup {p}, credit' = credit + Total(OrderOf[p]), rqty' = rqty
        PROVE  credit' <= Kept(T)'
    <3>1. Kept(T) = Kept(S) + Total(OrderOf[p])
      BY <2>2, KeptAdd
    <3>2. Kept(T)' = Kept(T)
      BY <2>2, KeptSame
    <3> QED BY <1>5, <2>2, <3>1, <3>2
  <2>3. ASSUME NEW p \in S, T = S \ {p}, credit' = credit - Total(OrderOf[p])
        PROVE  credit' <= Kept(T)'
    <3>1. S = T \cup {p} /\ p \in Payment \ T
      BY <2>3
    <3>2. Kept(S) = Kept(T) + Total(OrderOf[p])
      BY <3>1, KeptAdd
    <3>3. Kept(T)' = Kept(T) /\ Kept(T) \in Nat
      <4>1. \A x \in T : rqty'[OrderOf[x]] = rqty[OrderOf[x]]
        BY <1>1, <1>3, <2>3, TotalFixed DEF HeldPay
      <4> QED BY <4>1, KeptSame, MoneyFinite
    <3> QED BY <1>5, <2>3, <3>2, <3>3
  <2> QED BY <1>1, <1>2, <2>1, <2>2, <2>3, CreditMoves
<1> QED BY <1>2, <1>6 DEF CreditBacked, HeldPay

(***************************************************************************)
(* Store credit is covered by the payments that are held as credit, for    *)
(* every value of the constants: a repair redeems exactly what the         *)
(* settlement of its order had been kept as, and nothing else raises the   *)
(* balance.                                                                *)
(***************************************************************************)
THEOREM StoreCreditBacked == Spec => []CreditBacked
<1>1. Init => CreditBacked
  <2> SUFFICES ASSUME Init PROVE CreditBacked
    OBVIOUS
  <2>1. HeldPay \in SUBSET Payment /\ credit = 0
    BY DEF Init, HeldPay
  <2>2. Kept(HeldPay) \in Nat
    BY <2>1, MoneyFinite
  <2> QED BY <2>1, <2>2 DEF CreditBacked, HeldPay
<1> QED BY <1>1, CreditStep, LedgerInit, LedgerStep, TypeCorrect, PTL DEF Spec

----------------------------------------------------------------------------
(***************************************************************************)
(* Staff payments and pending intents.  The state of an unpaid order tells *)
(* whether an intent is pending, as long as no failure report reaches an   *)
(* order that waits for another intent: each provider reports a failure in *)
(* one payload, and intents of two providers never overlap, which they can *)
(* do only on a dispatch order sold on account (its deliveries change the  *)
(* order's state under the pending intent).                                *)
(***************************************************************************)
ReportsConfined ==
    /\ \A v, w \in Variant : v = w
    /\ DispatchCart = {} \/ \A i, j \in Intent : ProviderOf[i] = ProviderOf[j]

PendingAlone(i) ==
    LET o == OrderOf[i] IN
    istatus[i] = "pending" /\ Unsettled(o) =>
        /\ ostate[o] \notin {"awaiting_payment", "payment_failed"}
        /\ \A j \in Intent : OrderOf[j] = o /\ istatus[j] = "pending" => j = i
        /\ DispatchCart = {} => active[o] = i /\ (ostate[o] = "payment_processing" \/ lapsed[o])

PendingInOrder ==
    \A i \in Intent :
        /\ istatus[i] # "absent" => Exists(OrderOf[i])
        /\ istatus[i] = "failed" => \A v \in Variant : <<i, "failed", v>> \in seen
        /\ PendingAlone(i)

\* A step that leaves order x out of staff's reach while an intent is pending.
KeepsPending(x) ==
    /\ ~Unsettled(x) => ~Unsettled(x)'
    /\ Exists(x) => Exists(x)'
    /\ \/ ostate'[x] = ostate[x] /\ (lapsed[x] => lapsed'[x])
       \/ \A i \in Intent : OrderOf[i] = x => istatus[i] # "pending"
       \/ ~Unsettled(x)'
       \/ /\ ostate'[x] \notin {"awaiting_payment", "payment_failed"}
          /\ DispatchCart = {} => lapsed'[x]

\* Such a step, opening and failing no intent, keeps the pending ones in order.
LEMMA PendingKept ==
    ASSUME PendingInOrder, UNCHANGED active, seen \subseteq seen',
           \A i \in Intent : istatus'[i] = istatus[i] \/ (istatus'[i] = "settled" /\ Exists(OrderOf[i])'),
           \A x \in Order : KeepsPending(x)
    PROVE  PendingInOrder'
<1> SUFFICES ASSUME NEW i \in Intent
             PROVE  /\ istatus'[i] # "absent" => Exists(OrderOf[i])'
                    /\ istatus'[i] = "failed" => \A v \in Variant : <<i, "failed", v>> \in seen'
                    /\ PendingAlone(i)'
  BY DEF PendingInOrder
<1>1. OrderOf[i] \in Order
  BY CheckoutConstants DEF Payment
<1>2. istatus'[i] # "absent" => Exists(OrderOf[i])'
  BY <1>1 DEF PendingInOrder, KeepsPending
<1>3. istatus'[i] = "failed" => \A v \in Variant : <<i, "failed", v>> \in seen'
  BY DEF PendingInOrder
<1>4. ASSUME istatus'[i] = "pending", Unsettled(OrderOf[i])' PROVE PendingAlone(i)'
  <2>1. istatus[i] = "pending" /\ Unsettled(OrderOf[i])
    BY <1>1, <1>4 DEF KeepsPending
  <2>2. \A j \in Intent : istatus'[j] = "pending" => istatus[j] = "pending"
    OBVIOUS
  <2>3. \/ ostate'[OrderOf[i]] = ostate[OrderOf[i]] /\ (lapsed[OrderOf[i]] => lapsed'[OrderOf[i]])
        \/ /\ ostate'[OrderOf[i]] \notin {"awaiting_payment", "payment_failed"}
           /\ DispatchCart = {} => lapsed'[OrderOf[i]]
    BY <1>1, <1>4, <2>1 DEF KeepsPending
  <2> QED BY <2>1, <2>2, <2>3 DEF PendingInOrder, PendingAlone
<1>5. PendingAlone(i)'
  BY <1>4 DEF PendingAlone
<1> QED BY <1>2, <1>3, <1>5

\* A new intent finds its order without a pending one.
LEMMA PendingOpened ==
    ASSUME ReportsConfined, TypeOK, PendingInOrder, NEW i \in Intent,
           CreateCustomerIntent(i) \/ CreatePosIntent(i)
    PROVE  PendingInOrder'
<1> DEFINE o == OrderOf[i]
<1>1. o \in Order /\ \A j \in Intent : OrderOf[j] \in Order
  BY CheckoutConstants DEF Payment
<1>2. /\ istatus' = [istatus EXCEPT ![i] = "pending"] /\ ostate' = [ostate EXCEPT ![o] = "payment_processing"]
      /\ active' = [active EXCEPT ![o] = i] /\ UNCHANGED <<lapsed, settledBy, seen>>
      /\ Unsettled(o) /\ ~lapsed[o]
  BY DEF CreateCustomerIntent, CreatePosIntent, OpenIntent
<1>3. \A j \in Intent : OrderOf[j] = o => istatus[j] # "pending"
  <2> SUFFICES ASSUME NEW j \in Intent, OrderOf[j] = o, istatus[j] = "pending" PROVE FALSE
    OBVIOUS
  <2>1. j \in PendingFor(o)
    BY DEF PendingFor
  <2>2. CreatePosIntent(i)
    BY <2>1 DEF CreateCustomerIntent
  <2>3. ProviderOf[j] # ProviderOf[i] /\ (ostate[o] = "payment_processing" => ProviderOf[active[o]] = ProviderOf[i])
    BY <2>1, <2>2 DEF CreatePosIntent
  <2>4. CASE DispatchCart = {}
    BY <1>2, <2>3, <2>4 DEF PendingInOrder, PendingAlone
  <2> QED BY <2>3, <2>4 DEF ReportsConfined
<1> HIDE DEF o
<1>4. /\ istatus'[i] = "pending" /\ ostate'[o] = "payment_processing" /\ active'[o] = i
      /\ \A j \in Intent \ {i} : istatus'[j] = istatus[j]
      /\ \A x \in Order \ {o} : ostate'[x] = ostate[x] /\ active'[x] = active[x]
  BY <1>1, <1>2 DEF TypeOK
<1>5. ASSUME NEW j \in Intent PROVE /\ istatus'[j] # "absent" => Exists(OrderOf[j])'
                                    /\ istatus'[j] = "failed" => \A v \in Variant : <<j, "failed", v>> \in seen'
                                    /\ PendingAlone(j)'
  <2>1. CASE j = i
    <3>1. OrderOf[j] = o
      BY <2>1 DEF o
    <3> QED BY <1>3, <1>4, <2>1, <3>1 DEF Exists, PendingAlone
  <2>2. CASE j # i /\ OrderOf[j] = o
    <3>1. istatus'[j] = istatus[j] /\ istatus'[j] # "pending"
      BY <1>3, <1>4, <2>2
    <3> QED BY <1>2, <1>4, <2>2, <3>1 DEF PendingInOrder, Exists, PendingAlone
  <2>3. CASE j # i /\ OrderOf[j] # o
    <3>1. OrderOf[j] \in Order \ {o} /\ OrderOf[i] = o
      BY <1>1, <2>3 DEF o
    <3>2. /\ istatus'[j] = istatus[j] /\ ostate'[OrderOf[j]] = ostate[OrderOf[j]]
          /\ active'[OrderOf[j]] = active[OrderOf[j]] /\ UNCHANGED <<lapsed, settledBy, seen>>
      BY <1>2, <1>4, <2>3, <3>1
    <3>3. \A k \in Intent : OrderOf[k] = OrderOf[j] => istatus'[k] = istatus[k]
      BY <1>4, <2>3, <3>1
    <3> QED BY <3>2, <3>3 DEF PendingInOrder, Exists, PendingAlone, Unsettled
  <2> QED BY <2>1, <2>2, <2>3
<1> QED BY <1>5 DEF PendingInOrder

\* A failure is reported for the order's only pending intent, or changes nothing.
LEMMA PendingFailed ==
    ASSUME ReportsConfined, TypeOK, PendingInOrder, NEW i \in Intent, NEW v \in Variant, FailedWebhook(i, v)
    PROVE  PendingInOrder'
<1> DEFINE o == OrderOf[i]
<1>1. o \in Order /\ \A j \in Intent : OrderOf[j] \in Order
  BY CheckoutConstants DEF Payment
<1>2. /\ istatus[i] # "absent" /\ <<i, "failed", v>> \notin seen
      /\ seen' = seen \cup {<<i, "failed", v>>} /\ UNCHANGED <<lapsed, settledBy, active>>
      /\ istatus' = [istatus EXCEPT ![i] = IF @ = "settled" THEN @ ELSE "failed"]
      /\ ostate' = [ostate EXCEPT ![o] =
                      IF istatus[i] # "settled" /\ Unsettled(o) /\ @ \in Open THEN "payment_failed" ELSE @]
  BY DEF FailedWebhook
<1>3. istatus \in [Intent -> {"absent", "pending", "failed", "settled"}] /\ ostate \in [Order -> OState]
  BY DEF TypeOK
<1>4. istatus[i] \in {"pending", "settled"}
  <2>1. istatus[i] # "failed"
    BY <1>2 DEF PendingInOrder
  <2> QED BY <1>2, <1>3, <2>1
<1>5. CASE istatus[i] = "settled"
  <2>1. istatus' = istatus /\ ostate' = ostate
    BY <1>1, <1>2, <1>3, <1>5
  <2>2. UNCHANGED <<active, lapsed, settledBy, istatus, ostate>> /\ seen \subseteq seen'
    BY <1>2, <2>1
  <2>3. \A j \in Intent : istatus'[j] = istatus[j] \/ (istatus'[j] = "settled" /\ Exists(OrderOf[j])')
    BY <2>2
  <2>4. \A x \in Order : KeepsPending(x)
    BY <2>2 DEF KeepsPending, Unsettled, Exists
  <2>5. UNCHANGED active /\ seen \subseteq seen'
    BY <2>2
  <2> HIDE DEF o
  <2> QED BY <2>3, <2>4, <2>5, PendingKept
<1>6. CASE istatus[i] = "pending"
  <2> HIDE DEF o
  <2>1. /\ istatus'[i] = "failed" /\ \A j \in Intent \ {i} : istatus'[j] = istatus[j]
        /\ \A x \in Order \ {o} : ostate'[x] = ostate[x]
        /\ ostate'[o] \in {ostate[o], "payment_failed"}
    BY <1>1, <1>2, <1>3, <1>6
  <2>2. ASSUME NEW j \in Intent PROVE /\ istatus'[j] # "absent" => Exists(OrderOf[j])'
                                      /\ istatus'[j] = "failed" => \A w \in Variant : <<j, "failed", w>> \in seen'
                                      /\ PendingAlone(j)'
    <3>1. istatus'[j] # "absent" => Exists(OrderOf[j])'
      BY <1>1, <1>6, <2>1 DEF PendingInOrder, Exists
    <3>2. istatus'[j] = "failed" => \A w \in Variant : <<j, "failed", w>> \in seen'
      <4>1. CASE j = i
        <5>1. \A w \in Variant : w = v
          BY DEF ReportsConfined
        <5> QED BY <1>2, <4>1, <5>1
      <4>2. CASE j # i
        BY <1>2, <2>1, <4>2 DEF PendingInOrder
      <4> QED BY <4>1, <4>2
    <3>3. ASSUME istatus'[j] = "pending", Unsettled(OrderOf[j])' PROVE PendingAlone(j)'
      <4>1. j # i /\ istatus[j] = "pending" /\ Unsettled(OrderOf[j])
        BY <1>2, <2>1, <3>3 DEF Unsettled
      <4>2. OrderOf[j] # o
        BY <1>6, <4>1 DEF PendingInOrder, PendingAlone, o
      <4>3. ostate'[OrderOf[j]] = ostate[OrderOf[j]]
        BY <1>1, <2>1, <4>2
      <4>4. \A k \in Intent : istatus'[k] = "pending" => istatus[k] = "pending"
        BY <2>1
      <4> QED BY <1>2, <4>1, <4>3, <4>4 DEF PendingInOrder, PendingAlone
    <3>4. PendingAlone(j)'
      BY <3>3 DEF PendingAlone
    <3> QED BY <3>1, <3>2, <3>4
  <2> QED BY <2>2 DEF PendingInOrder
<1> QED BY <1>4, <1>5, <1>6

\* Every step keeps the pending intents in order.
LEMMA PendingStep ==
    ASSUME ReportsConfined, TypeOK, TypeOK', Ledger, PendingInOrder, [Next]_vars
    PROVE  PendingInOrder'
<1>o. \A p \in Payment : OrderOf[p] \in Order
  BY CheckoutConstants
<1>i. Intent \subseteq Payment /\ Manual \subseteq Payment /\ NoPay \notin Payment /\ NoIntent \notin Intent
  BY CheckoutConstants DEF Payment
<1>p. \A x \in Order : Unsettled(x) => \A i \in Intent : OrderOf[i] = x /\ istatus[i] = "pending" =>
        /\ ostate[x] \notin {"awaiting_payment", "payment_failed"}
        /\ DispatchCart = {} => active[x] = i /\ (ostate[x] = "payment_processing" \/ lapsed[x])
  BY DEF PendingInOrder, PendingAlone
<1>a. \A x \in Order : ~Exists(x) => \A i \in Intent : OrderOf[i] = x => istatus[i] = "absent"
  BY DEF PendingInOrder
<1>l. \A x \in Order : ~Unsettled(x) => settledBy'[x] = settledBy[x]
  BY LedgerStep
<1>s. \A x \in Order : ~Unsettled(x) => ~Unsettled(x)'
  BY <1>l DEF Unsettled
<1> DEFINE Quiet == UNCHANGED <<active, istatus, seen>>
\* A step that leaves the intents alone.
<1>q. ASSUME Quiet, \A x \in Order : KeepsPending(x) PROVE PendingInOrder'
  BY <1>q, PendingKept
<1>1. ASSUME Quiet, UNCHANGED <<ostate, lapsed>> PROVE PendingInOrder'
  <2>1. \A x \in Order : KeepsPending(x)
    BY <1>s, <1>1 DEF KeepsPending, Exists
  <2> QED BY <1>1, <1>q, <2>1
\* A step about the one order o, which the others do not notice.
<1>2. ASSUME NEW o \in Order, Quiet, KeepsPending(o),
             \A x \in Order \ {o} : ostate'[x] = ostate[x] /\ lapsed'[x] = lapsed[x]
      PROVE  PendingInOrder'
  <2>1. \A x \in Order \ {o} : KeepsPending(x)
    BY <1>s, <1>2 DEF KeepsPending, Exists
  <2> QED BY <1>2, <1>q, <2>1
<1>3. CASE UNCHANGED vars
  BY <1>1, <1>3 DEF vars, orderVars, payVars
<1>4. ASSUME NEW c \in Cart, SellCart(c) \/ \E n \in Qty : EditCart(c, n) PROVE PendingInOrder'
  BY <1>1, <1>4 DEF SellCart, EditCart, orderVars, payVars
<1>5. ASSUME NEW o \in Order, Prepare(o) PROVE PendingInOrder'
  <2>1. Quiet /\ UNCHANGED lapsed
    BY <1>5 DEF Prepare, payVars
  <2>2. KeepsPending(o)
    BY <1>a, <1>s, <1>5 DEF Prepare, KeepsPending, Exists
  <2>3. ASSUME NEW x \in Order, x # o PROVE KeepsPending(x)
    <3>1. ostate'[x] = ostate[x] \/ (ostate'[x] = "payment_expired" /\ lapsed[x])
      BY <1>5, <2>3 DEF Prepare, Expirable
    <3> QED BY <1>s, <2>1, <3>1 DEF KeepsPending, Exists
  <2> QED BY <1>q, <2>1, <2>2, <2>3
<1>6. ASSUME NEW o \in Order, Lapse(o) PROVE PendingInOrder'
  <2>1. Quiet /\ UNCHANGED ostate /\ lapsed' = [lapsed EXCEPT ![o] = TRUE]
    BY <1>6 DEF Lapse, payVars
  <2>2. KeepsPending(o) /\ \A x \in Order \ {o} : lapsed'[x] = lapsed[x]
    BY <1>s, <2>1 DEF KeepsPending, Exists, TypeOK
  <2> QED BY <1>2, <2>1, <2>2
<1>7. ASSUME NEW o \in Order, Sweep(o) PROVE PendingInOrder'
  <2>1. /\ Quiet /\ UNCHANGED lapsed /\ lapsed[o]
        /\ ostate' = [ostate EXCEPT ![o] = "payment_expired"]
    BY <1>7 DEF Sweep, Expirable, ReleaseOrder, payVars
  <2>2. ostate'[o] = "payment_expired" /\ \A x \in Order \ {o} : ostate'[x] = ostate[x]
    BY <2>1 DEF TypeOK
  <2>3. KeepsPending(o)
    BY <1>s, <2>1, <2>2 DEF KeepsPending, Exists
  <2> QED BY <1>2, <2>1, <2>2, <2>3
\* Cancelling looks at the active intent: without deliveries, the only pending one.
<1>8. ASSUME NEW o \in Order, Cancel(o) PROVE PendingInOrder'
  <2>1. /\ Quiet /\ UNCHANGED lapsed /\ Unsettled(o)
        /\ active[o] # NoIntent => istatus[active[o]] # "pending"
        /\ ostate' = [ostate EXCEPT ![o] = "cancelled"]
    BY <1>8 DEF Cancel, ReleaseOrder, payVars
  <2>2. ostate'[o] = "cancelled" /\ \A x \in Order \ {o} : ostate'[x] = ostate[x]
    BY <2>1 DEF TypeOK
  <2>3. DispatchCart = {} => \A i \in Intent : OrderOf[i] = o => istatus[i] # "pending"
    BY <1>i, <1>p, <2>1
  <2>4. KeepsPending(o)
    BY <1>s, <2>1, <2>2, <2>3 DEF KeepsPending, Exists
  <2> QED BY <1>2, <2>1, <2>2, <2>4
<1>9. ASSUME NEW o \in Order, AccountCredit(o) PROVE PendingInOrder'
  <2>1. /\ Quiet /\ UNCHANGED lapsed /\ AcceptsStaffPayment(o)
        /\ ostate' = [ostate EXCEPT ![o] = "account_invoiced"]
    BY <1>9 DEF AccountCredit, payVars
  <2>2. ostate'[o] = "account_invoiced" /\ \A x \in Order \ {o} : ostate'[x] = ostate[x]
    BY <2>1 DEF TypeOK
  <2>3. \A i \in Intent : OrderOf[i] = o => istatus[i] # "pending"
    BY <1>p, <2>1 DEF AcceptsStaffPayment
  <2>4. KeepsPending(o)
    BY <1>s, <2>1, <2>2, <2>3 DEF KeepsPending, Exists
  <2> QED BY <1>2, <2>1, <2>2, <2>4
<1>10. ASSUME NEW o \in Order, Repair(o) PROVE PendingInOrder'
  <2>1. /\ Quiet /\ ~Unsettled(o) /\ ostate' = [ostate EXCEPT ![o] = PaidState(o)]
        /\ lapsed' = [lapsed EXCEPT ![o] = FALSE]
    BY <1>10 DEF Repair
  <2>2. /\ \A x \in Order \ {o} : ostate'[x] = ostate[x] /\ lapsed'[x] = lapsed[x]
        /\ ostate'[o] # "absent"
    BY <2>1 DEF TypeOK, PaidState
  <2>3. KeepsPending(o)
    BY <1>s, <2>1, <2>2 DEF KeepsPending, Exists
  <2> QED BY <1>2, <2>1, <2>2, <2>3
<1>11. ASSUME NEW o \in Order, Collect(o) PROVE PendingInOrder'
  <2>1. /\ Quiet /\ UNCHANGED lapsed /\ ostate[o] \notin {"payment_processing"}
        /\ ostate' = [ostate EXCEPT ![o] = "delivered"]
    BY <1>11 DEF Collect, payVars
  <2>2. ostate'[o] = "delivered" /\ \A x \in Order \ {o} : ostate'[x] = ostate[x]
    BY <2>1 DEF TypeOK
  <2>3. DispatchCart = {} /\ Unsettled(o) =>
          lapsed[o] \/ \A i \in Intent : OrderOf[i] = o => istatus[i] # "pending"
    BY <1>p, <2>1
  <2>4. KeepsPending(o)
    BY <1>s, <2>1, <2>2, <2>3 DEF KeepsPending, Exists
  <2> QED BY <1>2, <2>1, <2>2, <2>4
\* Only a dispatch order is delivered.
<1>12. ASSUME NEW o \in Order, NEW q \in Qty, Deliver(o, q) \/ CancelDelivery(o, q) PROVE PendingInOrder'
  <2>1. Quiet /\ UNCHANGED lapsed
    BY <1>12 DEF Deliver, CancelDelivery, payVars
  <2>2. PICK s \in {"partially_fulfilled", "dispatch_ready", "allocation_pending"} :
          ostate' = [ostate EXCEPT ![o] = s]
    BY <1>12 DEF Deliver, CancelDelivery
  <2>3. ostate'[o] = s /\ \A x \in Order \ {o} : ostate'[x] = ostate[x]
    BY <2>2 DEF TypeOK
  <2>4. DispatchCart # {}
    BY <1>12 DEF Deliver, CancelDelivery, Stock!SubmitDelivery, Stock!CancelDelivery
  <2>5. KeepsPending(o)
    BY <1>s, <2>3, <2>4 DEF KeepsPending, Exists
  <2> QED BY <1>2, <2>1, <2>3, <2>5
<1>13. ASSUME NEW i \in Intent, CreateCustomerIntent(i) \/ CreatePosIntent(i) PROVE PendingInOrder'
  BY <1>13, PendingOpened
<1>14. ASSUME NEW i \in Intent, Charge(i) PROVE PendingInOrder'
  BY <1>1, <1>14 DEF Charge, orderVars
<1>15. ASSUME NEW i \in Intent, NEW v \in Variant, FailedWebhook(i, v) PROVE PendingInOrder'
  BY <1>15, PendingFailed
\* A settlement leaves its order settled.
<1>16. ASSUME NEW p \in Payment, SettleDuplicate(p) \/ SettleApplied(p) \/ SettleUnfinalized(p)
       PROVE  UNCHANGED active /\ Exists(OrderOf[p])' /\ \A x \in Order : KeepsPending(x)
  <2>1. ASSUME NEW s \in OState \ {"absent"}, UNCHANGED <<active, lapsed>>,
               settledBy' = [settledBy EXCEPT ![OrderOf[p]] = p],
               ostate' = [ostate EXCEPT ![OrderOf[p]] = s]
        PROVE  Exists(OrderOf[p])' /\ \A x \in Order : KeepsPending(x)
    <3>1. /\ settledBy'[OrderOf[p]] # NoPay /\ ostate'[OrderOf[p]] # "absent"
          /\ \A x \in Order \ {OrderOf[p]} : ostate'[x] = ostate[x]
      BY <1>o, <1>i, <2>1 DEF TypeOK
    <3>2. KeepsPending(OrderOf[p])
      BY <1>o, <1>s, <3>1 DEF KeepsPending, Exists, Unsettled
    <3>3. \A x \in Order \ {OrderOf[p]} : KeepsPending(x)
      BY <1>s, <2>1, <3>1 DEF KeepsPending, Exists
    <3> QED BY <3>1, <3>2, <3>3 DEF Exists
  <2>2. CASE SettleDuplicate(p)
    <3>1. UNCHANGED <<ostate, lapsed, active>> /\ ~Unsettled(OrderOf[p])
      BY <2>2 DEF SettleDuplicate, orderVars
    <3>2. ostate[OrderOf[p]] # "absent"
      BY <1>o, <3>1 DEF Ledger, SettledState
    <3> QED BY <1>s, <3>1, <3>2 DEF KeepsPending, Exists
  <2>3. CASE SettleApplied(p)
    <3>1. PaidState(OrderOf[p]) \in OState \ {"absent"}
      BY DEF PaidState, OState
    <3> QED BY <2>1, <2>3, <3>1 DEF SettleApplied
  <2>4. CASE SettleUnfinalized(p)
    <3>1. "allocation_pending" \in OState \ {"absent"}
      BY DEF OState
    <3> QED BY <2>1, <2>4, <3>1 DEF SettleUnfinalized
  <2> QED BY <1>16, <2>2, <2>3, <2>4
<1>17. ASSUME NEW i \in Intent, NEW v \in Variant, PaidWebhook(i, v) PROVE PendingInOrder'
  <2>1. CASE istatus[i] = "settled"
    <3>1. UNCHANGED <<ostate, lapsed, active, istatus>> /\ seen \subseteq seen'
      BY <1>17, <2>1 DEF PaidWebhook, orderVars
    <3>2. \A x \in Order : KeepsPending(x)
      BY <1>s, <3>1 DEF KeepsPending, Exists
    <3> QED BY <3>1, <3>2, PendingKept
  <2>2. CASE istatus[i] # "settled"
    <3>1. /\ istatus' = [istatus EXCEPT ![i] = "settled"] /\ seen \subseteq seen'
          /\ SettleDuplicate(i) \/ SettleApplied(i) \/ SettleUnfinalized(i)
      BY <1>17, <2>2 DEF PaidWebhook
    <3>2. UNCHANGED active /\ Exists(OrderOf[i])' /\ \A x \in Order : KeepsPending(x)
      BY <1>i, <1>16, <3>1
    <3>3. \A j \in Intent : istatus'[j] = istatus[j] \/ (istatus'[j] = "settled" /\ Exists(OrderOf[j])')
      BY <3>1, <3>2 DEF TypeOK
    <3> QED BY <3>1, <3>2, <3>3, PendingKept
  <2> QED BY <2>1, <2>2
<1>18. ASSUME NEW m \in Manual, ManualPayment(m) \/ \E k \in 0 .. MaxNeed : TenderPayment(m, k)
       PROVE  PendingInOrder'
  <2>1. UNCHANGED <<istatus, seen>> /\ (SettleApplied(m) \/ SettleUnfinalized(m))
    BY <1>18 DEF ManualPayment, TenderPayment
  <2>2. UNCHANGED active /\ \A x \in Order : KeepsPending(x)
    BY <1>i, <1>16, <2>1
  <2> QED BY <1>q, <2>1, <2>2
<1>19. SpendCredit => PendingInOrder'
  BY <1>1 DEF SpendCredit, orderVars
<1>20. ASSUME NEW q \in Qty, MoveStock(q) PROVE PendingInOrder'
  BY <1>1, <1>20 DEF MoveStock, orderVars, payVars
<1> QED
  BY <1>3, <1>4, <1>5, <1>6, <1>7, <1>8, <1>9, <1>10, <1>11, <1>12, <1>13, <1>14, <1>15, <1>17, <1>18,
     <1>19, <1>20
  DEF Next

\* Staff are paid for an order without a pending intent.
LEMMA StaffPaid ==
    ASSUME TypeOK, Ledger, PendingInOrder, [Next]_vars,
           NEW m \in Manual, pay[m] = "none", pay'[m] # "none"
    PROVE  PendingFor(OrderOf[m]) = {}
<1>i. /\ Intent \cap Manual = {} /\ NoPay \notin Payment /\ m \in Payment /\ OrderOf[m] \in Order
      /\ Intent \subseteq Payment /\ Manual \subseteq Payment
  BY CheckoutConstants DEF Payment
<1>1. pay' # pay
  OBVIOUS
\* A payment entry is made by the payment's own action.
<1>2. ASSUME NEW p \in Payment, SettleDuplicate(p) \/ SettleApplied(p) \/ SettleUnfinalized(p)
      PROVE  p = m
  <2>1. PICK s \in PState : pay' = [pay EXCEPT ![p] = s]
    BY <1>2 DEF SettleDuplicate, SettleApplied, SettleUnfinalized, PState
  <2> QED BY <1>i, <2>1 DEF TypeOK
<1>3. \A i \in Intent, v \in Variant : ~PaidWebhook(i, v)
  BY <1>i, <1>1, <1>2 DEF PaidWebhook
\* A repair marks a payment that was made before.
<1>4. \A o \in Order : ~Repair(o)
  <2> SUFFICES ASSUME NEW o \in Order, Repair(o) PROVE FALSE
    OBVIOUS
  <2>1. pay[settledBy[o]] = "unfinalized" /\ pay' = [pay EXCEPT ![settledBy[o]] = "repaired"]
    BY DEF Repair
  <2> QED BY <1>i, <2>1 DEF TypeOK
<1>5. \E x \in Manual : ManualPayment(x) \/ \E k \in 0 .. MaxNeed : TenderPayment(x, k)
  BY <1>1, <1>3, <1>4
  DEF Next, vars, orderVars, payVars, SellCart, EditCart, Prepare, Lapse, Sweep, Cancel, AccountCredit, Collect,
      Deliver, CancelDelivery, CreateCustomerIntent, CreatePosIntent, OpenIntent, Charge, FailedWebhook,
      SpendCredit, MoveStock
<1>6. PICK x \in Manual : ManualPayment(x) \/ \E k \in 0 .. MaxNeed : TenderPayment(x, k)
  BY <1>5
<1>7. AcceptsStaffPayment(OrderOf[x]) /\ (SettleApplied(x) \/ SettleUnfinalized(x))
  BY <1>6 DEF ManualPayment, TenderPayment
<1>8. x = m
  BY <1>i, <1>2, <1>7
<1>9. \A i \in Intent : OrderOf[i] = OrderOf[m] => istatus[i] # "pending"
  BY <1>7, <1>8 DEF PendingInOrder, PendingAlone, AcceptsStaffPayment
<1> QED BY <1>9 DEF PendingFor

(***************************************************************************)
(* Staff never take cash, bank or store credit for an order while one of   *)
(* its provider intents is pending, for every value of the constants, as   *)
(* long as failure reports are confined: the converse of the counter-      *)
(* example that a second payload of one outcome makes possible.            *)
(***************************************************************************)
THEOREM StaffWaitForProviders ==
    ASSUME ReportsConfined
    PROVE  Spec => NoStaffPaymentWhilePending
<1>1. Init => PendingInOrder
  BY CheckoutConstants DEF Init, PendingInOrder, PendingAlone, Payment
<1>2. ASSUME TypeOK, TypeOK', Ledger, PendingInOrder, [Next]_vars
      PROVE  /\ Ledger' /\ PendingInOrder'
             /\ [\A m \in Manual : pay[m] = "none" /\ pay'[m] # "none" =>
                   PendingFor(OrderOf[m]) = {}]_vars
  <2>1. Ledger'
    BY <1>2, LedgerStep
  <2>2. PendingInOrder'
    BY <1>2, PendingStep
  <2>3. \A m \in Manual : pay[m] = "none" /\ pay'[m] # "none" => PendingFor(OrderOf[m]) = {}
    BY <1>2, StaffPaid
  <2> QED BY <2>1, <2>2, <2>3
<1> QED BY <1>1, <1>2, LedgerInit, TypeCorrect, PTL DEF Spec, NoStaffPaymentWhilePending

----------------------------------------------------------------------------
(***************************************************************************)
(* The orders of a cart.  Each function works on one order, which the      *)
(* unique index keeps apart from the cart's others; only a new checkout    *)
(* touches a second one, the unpaid order that it replaces.                *)
(***************************************************************************)
SaleNext == [Sale!Next]_(Sale!vars)

\* Orders are invoiced, and requests sent to a provider for them, when they exist.
OrdersFirst ==
    /\ \A o \in Order : invoiced[o] => Exists(o)
    /\ \A i \in Intent : (istatus[i] # "absent" => Exists(OrderOf[i])) /\ (i \in charged => istatus[i] # "absent")

\* What the stage of an order says of it.
LEMMA StageFacts ==
    ASSUME NEW o \in Order, invoiced[o] \in BOOLEAN
    PROVE  /\ SaleStage(o) = "none" <=> ~Exists(o)
           /\ SaleStage(o) = "invoiced" <=> Exists(o) /\ invoiced[o]
           /\ SaleStage(o) = "live" <=> Live(o)
           /\ SaleStage(o) = "closed" <=> ostate[o] \in Released /\ ~invoiced[o]
BY DEF SaleStage, Live, Exists, Released

\* Order o alone moves, by one of the rules.
LEMMA SaleMove ==
    ASSUME TypeOK, NEW o \in Order,
           \A x \in Order \ {o} : SaleStage(x)' = SaleStage(x) /\ settledBy'[x] = settledBy[x],
           Unsettled(o)' => Unsettled(o),
           \/ /\ SaleStage(o)' = SaleStage(o) /\ cstatus' = cstatus
              /\ Unsettled(o) => Unsettled(o)' \/ SaleStage(o) \in {"live", "invoiced"}
           \/ /\ SaleStage(o) = "live" /\ SaleStage(o)' = "closed" /\ cstatus' = cstatus
              /\ Unsettled(o)'
           \/ /\ SaleStage(o) = "closed" /\ SaleStage(o)' = "live" /\ cstatus' = cstatus
              /\ IndexAllows(o)
           \/ /\ SaleStage(o) = "live" /\ SaleStage(o)' = "invoiced" /\ cstatus[CartOf[o]] = "open"
              /\ cstatus' = [cstatus EXCEPT ![CartOf[o]] = "checked_out"]
    PROVE  SaleNext
<1> DEFINE f == [x \in Order |-> SaleStage(x)]
           paid == {x \in Order : ~Unsettled(x)}
           sold == {c \in Cart : cstatus[c] # "open"}
<1>1. /\ SaleStage(o)' = SaleStage(o) => f' = f
      /\ f' = [f EXCEPT ![o] = SaleStage(o)']
  <2>1. \A x \in Order : f[x] = SaleStage(x) /\ f'[x] = SaleStage(x)'
    OBVIOUS
  <2> QED BY <2>1
<1>2. /\ Unsettled(o)' = Unsettled(o) => paid' = paid
      /\ ~Unsettled(o)' => paid' = paid \cup {o}
  BY DEF Unsettled
<1>3. cstatus' = cstatus => sold' = sold
  OBVIOUS
<1>4. cstatus' = [cstatus EXCEPT ![CartOf[o]] = "checked_out"] => sold' = sold \cup {CartOf[o]}
  BY CheckoutConstants DEF TypeOK
<1>5. Unsettled(o) \in BOOLEAN /\ Unsettled(o)' \in BOOLEAN
  BY DEF Unsettled
<1>6. CASE SaleStage(o)' = SaleStage(o) /\ cstatus' = cstatus
  <2>1. CASE Unsettled(o)' = Unsettled(o)
    BY <1>1, <1>2, <1>3, <1>6, <2>1 DEF SaleNext, Sale!vars
  <2>2. CASE Unsettled(o)' # Unsettled(o)
    <3>1. Unsettled(o) /\ ~Unsettled(o)' /\ SaleStage(o) \in {"live", "invoiced"}
      BY <1>5, <1>6, <2>2
    <3>2. Sale!Settle(o)
      BY <1>1, <1>2, <1>3, <1>6, <3>1 DEF Sale!Settle
    <3> QED BY <3>2 DEF SaleNext, Sale!Next
  <2> QED BY <2>1, <2>2
<1>7. CASE SaleStage(o) = "live" /\ SaleStage(o)' = "closed" /\ cstatus' = cstatus /\ Unsettled(o)'
  <2>1. Sale!Close(o)
    BY <1>1, <1>2, <1>3, <1>7 DEF Sale!Close
  <2> QED BY <2>1 DEF SaleNext, Sale!Next
<1>8. CASE SaleStage(o) = "closed" /\ SaleStage(o)' = "live" /\ cstatus' = cstatus /\ IndexAllows(o)
  <2>1. Sale!Alone(o)
    BY <1>8, StageFacts DEF Sale!Alone, Sale!LiveOf, IndexAllows, TypeOK
  <2>2. CASE Unsettled(o)' = Unsettled(o)
    <3>1. Sale!Reopen(o)
      BY <1>1, <1>2, <1>3, <1>8, <2>1, <2>2 DEF Sale!Reopen
    <3> QED BY <3>1 DEF SaleNext, Sale!Next
  <2>3. CASE Unsettled(o)' # Unsettled(o)
    <3>1. Sale!Settle(o)
      BY <1>1, <1>2, <1>3, <1>5, <1>8, <2>1, <2>3 DEF Sale!Settle
    <3> QED BY <3>1 DEF SaleNext, Sale!Next
  <2> QED BY <2>2, <2>3
<1>9. CASE /\ SaleStage(o) = "live" /\ SaleStage(o)' = "invoiced" /\ cstatus[CartOf[o]] = "open"
           /\ cstatus' = [cstatus EXCEPT ![CartOf[o]] = "checked_out"]
  <2>1. paid' \in {paid, paid \cup {o}}
    BY <1>2, <1>5
  <2>2. Sale!Invoice(o)
    BY <1>1, <1>4, <1>9, <2>1 DEF Sale!Invoice
  <2> QED BY <2>2 DEF SaleNext, Sale!Next
<1> QED BY <1>6, <1>7, <1>8, <1>9

\* The orders' rows stay as they are.
LEMMA SaleSame ==
    ASSUME \A x \in Order : SaleStage(x)' = SaleStage(x) /\ settledBy'[x] = settledBy[x],
           cstatus' = cstatus
    PROVE  SaleNext
BY DEF SaleNext, Sale!vars, Unsettled

\* A new checkout takes the place of the cart's unpaid order.
LEMMA PrepareStages ==
    ASSUME TypeOK, Sales, NEW o \in Order, Prepare(o)
    PROVE  SaleNext
<1> DEFINE c    == CartOf[o]
           held == {x \in Order : lock[c] = x}
           f    == [x \in Order |-> SaleStage(x)]
<1>1. /\ c \in Cart /\ ostate[o] = "absent" /\ cstatus[c] = "open" /\ rstate[o] = "none"
      /\ \A x \in held : Expirable(x)
      /\ \A x \in Order \ held : CartOf[x] = c => ~Live(x)
      /\ UNCHANGED <<invoiced, settledBy, cstatus>>
  BY CheckoutConstants DEF Prepare, Exists, Stock!ReserveLocked
<1>2. /\ ostate'[o] = "awaiting_payment"
      /\ \A x \in held \ {o} : ostate'[x] = "payment_expired"
      /\ \A x \in Order \ (held \cup {o}) : ostate'[x] = ostate[x]
  BY DEF Prepare
<1>3. ~invoiced[o] /\ \A x \in Order : invoiced[x] \in BOOLEAN
  BY <1>1 DEF Sales, InvoicedIffServed, TypeOK
<1>4. \A x \in held : Live(x) /\ CartOf[x] = c /\ Unsettled(x) /\ x # o
  <2>1. lock[c] \in Order => CartOf[lock[c]] = c
    BY <1>1, CheckoutConstants DEF Sales, LockHeldByLiveOrder
  <2> QED BY <1>1, <2>1 DEF Expirable, Live, Exists, Open, Released
<1>5. Sale!LiveOf(c) = held
  BY <1>1, <1>3, <1>4, StageFacts DEF Sale!LiveOf
<1>6. \A x \in Order : SaleStage(x)' = IF x = o THEN "live" ELSE IF x \in held THEN "closed"
                                       ELSE SaleStage(x)
  BY <1>1, <1>2, <1>3, <1>4 DEF SaleStage, Exists, Released, Live
<1>7. Sale!Stage(o, c)
  <2>1. f[o] = "none" /\ c \notin {d \in Cart : cstatus[d] # "open"}
    BY <1>1, <1>3, StageFacts DEF Exists
  <2>2. Sale!LiveOf(c) \cap {x \in Order : ~Unsettled(x)} = {}
    BY <1>4, <1>5
  <2>3. f' = [x \in Order |-> IF x = o THEN "live" ELSE IF x \in Sale!LiveOf(c) THEN "closed" ELSE f[x]]
    BY <1>5, <1>6
  <2>4. CartOf' = [CartOf EXCEPT ![o] = c]
    BY CheckoutConstants
  <2>5. UNCHANGED <<{x \in Order : ~Unsettled(x)}, {d \in Cart : cstatus[d] # "open"}>>
    BY <1>1 DEF Unsettled
  <2> QED BY <2>1, <2>2, <2>3, <2>4, <2>5 DEF Sale!Stage
<1> QED BY <1>1, <1>7 DEF SaleNext, Sale!Next

\* A live order is finalized, or had been.
LEMMA FinalizeMoves ==
    ASSUME TypeOK, NEW o \in Order, Finalize(o), Exists(o), ostate'[o] # "absent",
           \A x \in Order \ {o} : ostate'[x] = ostate[x] /\ settledBy'[x] = settledBy[x],
           Unsettled(o)' => Unsettled(o)
    PROVE  SaleNext
<1>1. invoiced \in [Order -> BOOLEAN]
  BY DEF TypeOK
<1>2. CASE invoiced[o] /\ UNCHANGED <<invoiced, cstatus>>
  <2>1. \A x \in Order : SaleStage(x)' = SaleStage(x)
    BY <1>1, <1>2 DEF SaleStage, Exists
  <2>2. SaleStage(o) = "invoiced"
    BY <1>1, <1>2, StageFacts
  <2> QED BY <1>2, <2>1, <2>2, SaleMove
<1>3. CASE /\ ~invoiced[o] /\ ostate[o] \in Open /\ CartMatches(o)
           /\ invoiced' = [invoiced EXCEPT ![o] = TRUE]
           /\ cstatus' = [cstatus EXCEPT ![CartOf[o]] = "checked_out"]
  <2>1. \A x \in Order \ {o} : SaleStage(x)' = SaleStage(x)
    BY <1>1, <1>3 DEF SaleStage, Exists
  <2>2. SaleStage(o) = "live" /\ SaleStage(o)' = "invoiced" /\ cstatus[CartOf[o]] = "open"
    BY <1>1, <1>3 DEF SaleStage, Exists, Open, Released, CartMatches
  <2> QED BY <1>3, <2>1, <2>2, SaleMove
<1> QED BY <1>2, <1>3 DEF Finalize

\* A payment settles its order, or comes too late for that.
LEMMA SettleMoves ==
    ASSUME TypeOK, NEW p \in Payment, Exists(OrderOf[p]),
           SettleDuplicate(p) \/ SettleApplied(p) \/ SettleUnfinalized(p)
    PROVE  SaleNext
<1> DEFINE o == OrderOf[p]
<1>1. /\ o \in Order /\ p # NoPay /\ invoiced \in [Order -> BOOLEAN] /\ ostate \in [Order -> OState]
      /\ settledBy \in [Order -> Payment \cup {NoPay}]
  BY CheckoutConstants DEF TypeOK
<1>2. CASE SettleDuplicate(p)
  BY <1>2, SaleSame DEF SettleDuplicate, orderVars, cartVars, SaleStage, Exists
<1>3. CASE SettleApplied(p)
  <2>1. /\ Finalize(o) /\ ostate'[o] # "absent" /\ Unsettled(o)
        /\ \A x \in Order \ {o} : ostate'[x] = ostate[x] /\ settledBy'[x] = settledBy[x]
    BY <1>1, <1>3 DEF SettleApplied, PaidState
  <2> QED BY <1>1, <2>1, FinalizeMoves
<1>4. CASE SettleUnfinalized(p)
  <2>1. /\ UNCHANGED <<invoiced, cstatus>> /\ ~invoiced[o] /\ IndexAllows(o) /\ Unsettled(o)
        /\ ostate'[o] = "allocation_pending"
        /\ \A x \in Order \ {o} : ostate'[x] = ostate[x] /\ settledBy'[x] = settledBy[x]
    BY <1>1, <1>4 DEF SettleUnfinalized, cartVars
  <2>2. \A x \in Order \ {o} : SaleStage(x)' = SaleStage(x)
    BY <2>1 DEF SaleStage, Exists
  <2>3. SaleStage(o)' = "live" /\ SaleStage(o) \in {"live", "closed"}
    BY <2>1 DEF SaleStage, Exists, Released
  <2> QED BY <1>1, <2>1, <2>2, <2>3, SaleMove
<1> QED BY <1>2, <1>3, <1>4

\* release_commerce_order lets an unpaid order go.
LEMMA ReleaseMoves ==
    ASSUME TypeOK, NEW o \in Order, Exists(o), NEW s \in Released, ReleaseOrder(o, s),
           UNCHANGED <<settledBy, invoiced, cstatus>>
    PROVE  SaleNext
<1>1. /\ ~invoiced[o] /\ ostate'[o] = s /\ \A x \in Order \ {o} : ostate'[x] = ostate[x]
  BY DEF ReleaseOrder, TypeOK
<1>2. \A x \in Order \ {o} : SaleStage(x)' = SaleStage(x)
  BY <1>1 DEF SaleStage, Exists
<1>3. SaleStage(o)' = "closed" /\ SaleStage(o) \in {"live", "closed"} /\ Unsettled(o)' /\ Unsettled(o)
  BY <1>1 DEF SaleStage, Exists, Released, ReleaseOrder, Unsettled
<1> QED BY <1>2, <1>3, SaleMove

\* An intent is created, which brings a closed order back.
LEMMA IntentMoves ==
    ASSUME TypeOK, NEW i \in Intent, CreateCustomerIntent(i) \/ CreatePosIntent(i)
    PROVE  SaleNext
<1> DEFINE o == OrderOf[i]
<1>1. o \in Order /\ invoiced \in [Order -> BOOLEAN] /\ ostate \in [Order -> OState]
  BY CheckoutConstants DEF TypeOK, Payment
<1>2. /\ Exists(o) /\ (invoiced[o] \/ ostate[o] \notin Released \/ IndexAllows(o))
      /\ ostate' = [ostate EXCEPT ![o] = "payment_processing"]
      /\ UNCHANGED <<settledBy, invoiced, cstatus>>
  BY DEF CreateCustomerIntent, CreatePosIntent, OpenIntent, cartVars, Exists, Open, Released
<1>3. \A x \in Order \ {o} : SaleStage(x)' = SaleStage(x) /\ settledBy'[x] = settledBy[x]
  BY <1>1, <1>2 DEF SaleStage, Exists
<1>4. CASE invoiced[o] \/ ostate[o] \notin Released
  <2>1. SaleStage(o)' = SaleStage(o)
    BY <1>1, <1>2, <1>4 DEF SaleStage, Exists, Released
  <2> QED BY <1>2, <1>3, <2>1, SaleSame
<1>5. CASE ~invoiced[o] /\ ostate[o] \in Released
  <2>1. SaleStage(o)' = "live" /\ SaleStage(o) = "closed" /\ IndexAllows(o)
    BY <1>1, <1>2, <1>5 DEF SaleStage, Exists, Released
  <2> QED BY <1>1, <1>2, <1>3, <2>1, SaleMove DEF Unsettled
<1> QED BY <1>4, <1>5

\* No order ceases to exist.
LEMMA OrdersStay ==
    ASSUME TypeOK, OrdersFirst, [Next]_vars
    PROVE  \A x \in Order : /\ Exists(x) => Exists(x)'
                            /\ invoiced'[x] => Exists(x)'
<1>o. /\ \A p \in Payment : OrderOf[p] \in Order
      /\ Intent \subseteq Payment /\ Manual \subseteq Payment
  BY CheckoutConstants DEF Payment
<1>t. ostate \in [Order -> OState] /\ invoiced \in [Order -> BOOLEAN]
  BY DEF TypeOK
<1>v. \A x \in Order : invoiced[x] => Exists(x)
  BY DEF OrdersFirst
\* A step that writes the state of one order, and makes no invoice for another.
<1> DEFINE Moves(o) == /\ ostate'[o] # "absent" \/ ostate'[o] = ostate[o]
                       /\ invoiced'[o] => invoiced[o] \/ ostate'[o] # "absent"
                       /\ \A x \in Order \ {o} : /\ ostate'[x] = ostate[x] \/ ostate'[x] # "absent"
                                                 /\ invoiced'[x] = invoiced[x]
           Goal == \A x \in Order : (Exists(x) => Exists(x)') /\ (invoiced'[x] => Exists(x)')
<1>0. ASSUME NEW o \in Order, Moves(o) PROVE Goal
  BY <1>v, <1>0 DEF Exists
<1>q. ASSUME UNCHANGED <<ostate, invoiced>> PROVE Goal
  BY <1>v, <1>q DEF Exists
<1>1. CASE UNCHANGED vars
  BY <1>1, <1>q DEF vars, orderVars
<1>f. ASSUME NEW o \in Order, Finalize(o) PROVE \A x \in Order \ {o} : invoiced'[x] = invoiced[x]
  BY <1>t, <1>f DEF Finalize
<1>2. ASSUME NEW p \in Payment, SettleDuplicate(p) \/ SettleApplied(p) \/ SettleUnfinalized(p) PROVE Goal
  <2>1. CASE SettleDuplicate(p)
    BY <1>q, <2>1 DEF SettleDuplicate, orderVars
  <2>2. CASE SettleApplied(p)
    <3>1. Moves(OrderOf[p])
      BY <1>t, <1>o, <1>f, <2>2 DEF SettleApplied, PaidState
    <3> QED BY <1>o, <1>0, <3>1
  <2>3. CASE SettleUnfinalized(p)
    <3>1. Moves(OrderOf[p])
      BY <1>t, <1>o, <2>3 DEF SettleUnfinalized
    <3> QED BY <1>o, <1>0, <3>1
  <2> QED BY <1>2, <2>1, <2>2, <2>3
<1>3. ASSUME NEW o \in Order, Prepare(o) PROVE Goal
  <2>1. ostate'[o] # "absent" /\ invoiced' = invoiced
        /\ \A x \in Order : ostate'[x] = ostate[x] \/ ostate'[x] # "absent"
    BY <1>3 DEF Prepare
  <2> QED BY <1>0, <2>1
<1>4. ASSUME NEW o \in Order, Sweep(o) \/ Cancel(o) PROVE Goal
  <2>1. Moves(o)
    BY <1>t, <1>4 DEF Sweep, Cancel, ReleaseOrder
  <2> QED BY <1>0, <2>1
<1>5. ASSUME NEW o \in Order, AccountCredit(o) PROVE Goal
  <2>1. Moves(o)
    BY <1>t, <1>f, <1>5 DEF AccountCredit
  <2> QED BY <1>0, <2>1
<1>6. ASSUME NEW o \in Order, Repair(o) \/ Collect(o) PROVE Goal
  <2>1. Moves(o)
    BY <1>t, <1>6 DEF Repair, Collect, PaidState
  <2> QED BY <1>0, <2>1
<1>7. ASSUME NEW o \in Order, NEW q \in Qty, Deliver(o, q) \/ CancelDelivery(o, q) PROVE Goal
  <2>1. Moves(o)
    BY <1>t, <1>7 DEF Deliver, CancelDelivery
  <2> QED BY <1>0, <2>1
<1>8. ASSUME NEW i \in Intent, CreateCustomerIntent(i) \/ CreatePosIntent(i) PROVE Goal
  <2>1. Moves(OrderOf[i])
    BY <1>o, <1>t, <1>8 DEF CreateCustomerIntent, CreatePosIntent, OpenIntent
  <2> QED BY <1>o, <1>0, <1>8, <2>1
<1>9. ASSUME NEW i \in Intent, NEW v \in Variant, PaidWebhook(i, v) PROVE Goal
  <2>1. UNCHANGED <<ostate, invoiced>> \/ SettleDuplicate(i) \/ SettleApplied(i) \/ SettleUnfinalized(i)
    BY <1>9 DEF PaidWebhook, orderVars
  <2> QED BY <1>o, <1>q, <1>2, <1>9, <2>1
<1>10. ASSUME NEW i \in Intent, NEW v \in Variant, FailedWebhook(i, v) PROVE Goal
  <2>1. Moves(OrderOf[i])
    BY <1>o, <1>t, <1>10 DEF FailedWebhook
  <2> QED BY <1>o, <1>0, <1>10, <2>1
<1>11. ASSUME NEW m \in Manual, ManualPayment(m) \/ \E k \in 0 .. MaxNeed : TenderPayment(m, k) PROVE Goal
  <2>1. SettleApplied(m) \/ SettleUnfinalized(m)
    BY <1>11 DEF ManualPayment, TenderPayment
  <2> QED BY <1>o, <1>2, <1>11, <2>1
<1>12. ASSUME \/ \E c \in Cart : SellCart(c) \/ \E n \in Qty : EditCart(c, n)
              \/ \E o \in Order : Lapse(o)
              \/ \E i \in Intent : Charge(i)
              \/ SpendCredit \/ \E q \in Qty : MoveStock(q)
       PROVE  Goal
  BY <1>12, <1>q DEF SellCart, EditCart, Lapse, Charge, SpendCredit, MoveStock, orderVars
<1> QED BY <1>1, <1>3, <1>4, <1>5, <1>6, <1>7, <1>8, <1>9, <1>10, <1>11, <1>12 DEF Next

\* The invariant is kept.
LEMMA OrdersStep ==
    ASSUME TypeOK, OrdersFirst, [Next]_vars
    PROVE  OrdersFirst'
<1>o. \A i \in Intent : OrderOf[i] \in Order
  BY CheckoutConstants DEF Payment
<1>t. istatus \in [Intent -> {"absent", "pending", "failed", "settled"}]
  BY DEF TypeOK
<1>1. \A x \in Order : (Exists(x) => Exists(x)') /\ (invoiced'[x] => Exists(x)')
  BY OrdersStay
\* An intent that is new has an order, and only a created one is charged.
<1> DEFINE Fine(i) == /\ istatus'[i] # "absent" => istatus[i] # "absent" \/ Exists(OrderOf[i])
                      /\ istatus[i] # "absent" => istatus'[i] # "absent"
                      /\ i \in charged' => istatus[i] # "absent"
<1>2. ASSUME \A i \in Intent : Fine(i) PROVE OrdersFirst'
  BY <1>o, <1>1, <1>2 DEF OrdersFirst, Exists
<1>3. CASE UNCHANGED <<istatus, charged>>
  BY <1>2, <1>3 DEF OrdersFirst
<1>4. ASSUME NEW i \in Intent, CreateCustomerIntent(i) \/ CreatePosIntent(i) PROVE OrdersFirst'
  <2>1. Exists(OrderOf[i]) /\ istatus' = [istatus EXCEPT ![i] = "pending"] /\ charged' = charged
    BY <1>4 DEF CreateCustomerIntent, CreatePosIntent, OpenIntent, Exists, Open
  <2> QED BY <1>t, <1>2, <2>1 DEF OrdersFirst
<1>5. ASSUME NEW i \in Intent, Charge(i) PROVE OrdersFirst'
  BY <1>2, <1>5 DEF Charge, OrdersFirst
<1>6. ASSUME NEW i \in Intent, NEW v \in Variant, PaidWebhook(i, v) \/ FailedWebhook(i, v)
      PROVE  OrdersFirst'
  <2>1. charged' = charged /\ istatus[i] # "absent"
    BY <1>6 DEF PaidWebhook, FailedWebhook, OrdersFirst
  <2>2. \A j \in Intent : istatus'[j] # "absent" <=> istatus[j] # "absent"
    BY <1>t, <1>6, <2>1 DEF PaidWebhook, FailedWebhook
  <2> QED BY <1>2, <2>1, <2>2 DEF OrdersFirst
<1>7. \/ UNCHANGED <<istatus, charged>>
      \/ \E i \in Intent : \/ CreateCustomerIntent(i) \/ CreatePosIntent(i) \/ Charge(i)
                           \/ \E v \in Variant : PaidWebhook(i, v) \/ FailedWebhook(i, v)
  BY DEF Next, vars, payVars, SellCart, EditCart, Prepare, Lapse, Sweep, Cancel, AccountCredit, Repair,
         Collect, Deliver, CancelDelivery, ManualPayment, TenderPayment, SpendCredit, MoveStock
<1> QED BY <1>3, <1>4, <1>5, <1>6, <1>7

\* Every step of the checkout is a step of the rules, or none of their business.
LEMMA SaleMoves ==
    ASSUME TypeOK, Sales, OrdersFirst, [Next]_vars
    PROVE  SaleNext
<1>o. /\ \A p \in Payment : OrderOf[p] \in Order
      /\ Intent \subseteq Payment /\ Manual \subseteq Payment
  BY CheckoutConstants DEF Payment
<1>t. /\ invoiced \in [Order -> BOOLEAN] /\ ostate \in [Order -> OState]
      /\ cstatus \in [Cart -> {"open", "checked_out", "sold"}]
  BY DEF TypeOK
<1>q. ASSUME UNCHANGED <<ostate, invoiced, settledBy, cstatus>> PROVE SaleNext
  BY <1>q, SaleSame DEF SaleStage, Exists
\* The state of order o moves on, but not its stage.
<1>s. ASSUME NEW o \in Order, UNCHANGED <<invoiced, settledBy, cstatus>>, Exists(o), ostate'[o] # "absent",
             invoiced[o] \/ (ostate[o] \notin Released /\ ostate'[o] \notin Released),
             \A x \in Order \ {o} : ostate'[x] = ostate[x]
      PROVE  SaleNext
  BY <1>t, <1>s, SaleSame DEF SaleStage, Exists
<1>1. CASE UNCHANGED vars
  BY <1>1, <1>q DEF vars, orderVars, cartVars
<1>2. ASSUME NEW c \in Cart, SellCart(c) PROVE SaleNext
  <2>1. UNCHANGED <<ostate, invoiced, settledBy>> /\ cstatus[c] = "open"
        /\ cstatus' = [cstatus EXCEPT ![c] = "sold"]
    BY <1>2 DEF SellCart, orderVars
  <2>2. {d \in Cart : cstatus[d] # "open"}' = {d \in Cart : cstatus[d] # "open"} \cup {c}
    BY <1>t, <2>1
  <2>3. Sale!SellCart(c)
    BY <2>1, <2>2 DEF Sale!SellCart, SaleStage, Exists, Unsettled
  <2> QED BY <2>3 DEF SaleNext, Sale!Next
<1>3. ASSUME NEW o \in Order, Prepare(o) PROVE SaleNext
  BY <1>3, PrepareStages
<1>4. ASSUME NEW o \in Order, Sweep(o) \/ Cancel(o) PROVE SaleNext
  BY <1>4, ReleaseMoves DEF Sweep, Cancel, Expirable, Exists, Open, Released
<1>5. ASSUME NEW o \in Order, AccountCredit(o) PROVE SaleNext
  <2>1. /\ Finalize(o) /\ Exists(o) /\ settledBy' = settledBy /\ ostate'[o] # "absent"
        /\ \A x \in Order \ {o} : ostate'[x] = ostate[x]
    BY <1>t, <1>5 DEF AccountCredit, AcceptsStaffPayment, Exists
  <2> QED BY <2>1, FinalizeMoves DEF Unsettled
<1>6. ASSUME NEW o \in Order, Repair(o) PROVE SaleNext
  <2>1. /\ ~invoiced[o] /\ ostate[o] = "allocation_pending" /\ cstatus[CartOf[o]] = "open"
        /\ invoiced' = [invoiced EXCEPT ![o] = TRUE] /\ settledBy' = settledBy
        /\ cstatus' = [cstatus EXCEPT ![CartOf[o]] = "checked_out"]
        /\ ostate' = [ostate EXCEPT ![o] = PaidState(o)] /\ PaidState(o) # "absent"
    BY <1>6 DEF Repair, CartMatches, PaidState
  <2>2. \A x \in Order \ {o} : SaleStage(x)' = SaleStage(x)
    BY <1>t, <2>1 DEF SaleStage, Exists
  <2>3. SaleStage(o) = "live" /\ SaleStage(o)' = "invoiced"
    BY <1>t, <2>1 DEF SaleStage, Exists, Released
  <2> QED BY <2>1, <2>2, <2>3, SaleMove DEF Unsettled
<1>7. ASSUME NEW o \in Order, Collect(o) PROVE SaleNext
  <2>1. /\ invoiced[o] /\ Exists(o) /\ ostate'[o] # "absent" /\ UNCHANGED <<invoiced, settledBy, cstatus>>
        /\ \A x \in Order \ {o} : ostate'[x] = ostate[x]
    BY <1>t, <1>7 DEF Collect, Exists, cartVars
  <2> QED BY <2>1, <1>s
<1>8. ASSUME NEW o \in Order, NEW q \in Qty, Deliver(o, q) \/ CancelDelivery(o, q) PROVE SaleNext
  <2>1. /\ rstate[o] \in {"allocated", "consumed"} /\ UNCHANGED <<invoiced, settledBy, cstatus>>
        /\ ostate'[o] # "absent" /\ \A x \in Order \ {o} : ostate'[x] = ostate[x]
    BY <1>t, <1>8 DEF Deliver, CancelDelivery, Stock!SubmitDelivery, Stock!CancelDelivery, Stock!Invoiced,
                      cartVars
  <2>2. invoiced[o]
    BY <2>1 DEF Sales, InvoicedIffServed
  <2> QED BY <2>1, <2>2, <1>s DEF OrdersFirst
<1>9. ASSUME NEW i \in Intent, CreateCustomerIntent(i) \/ CreatePosIntent(i) PROVE SaleNext
  BY <1>9, IntentMoves
<1>10. ASSUME NEW i \in Intent, NEW v \in Variant, PaidWebhook(i, v) PROVE SaleNext
  <2>1. Exists(OrderOf[i]) /\ i \in Payment
    BY <1>o, <1>10 DEF PaidWebhook, OrdersFirst
  <2>2. \/ UNCHANGED <<orderVars, cartVars>>
        \/ SettleDuplicate(i) \/ SettleApplied(i) \/ SettleUnfinalized(i)
    BY <1>10 DEF PaidWebhook
  <2> QED BY <2>1, <2>2, <1>q, SettleMoves DEF orderVars, cartVars
<1>11. ASSUME NEW i \in Intent, NEW v \in Variant, FailedWebhook(i, v) PROVE SaleNext
  <2> DEFINE o == OrderOf[i]
  <2>1. o \in Order /\ Exists(o) /\ UNCHANGED <<invoiced, settledBy, cstatus>>
    BY <1>o, <1>11 DEF FailedWebhook, OrdersFirst, cartVars
  <2>2. \/ ostate' = ostate
        \/ ostate[o] \in Open /\ ostate' = [ostate EXCEPT ![o] = "payment_failed"]
    BY <1>t, <2>1, <1>11 DEF FailedWebhook
  <2> QED BY <1>t, <2>1, <2>2, <1>q, <1>s DEF Open, Released
<1>12. ASSUME NEW m \in Manual, ManualPayment(m) \/ \E k \in 0 .. MaxNeed : TenderPayment(m, k)
       PROVE  SaleNext
  <2>1. m \in Payment /\ Exists(OrderOf[m]) /\ (SettleApplied(m) \/ SettleUnfinalized(m))
    BY <1>o, <1>12 DEF ManualPayment, TenderPayment, AcceptsStaffPayment, Exists
  <2> QED BY <2>1, SettleMoves
<1>13. ASSUME \/ \E c \in Cart, n \in Qty : EditCart(c, n)
              \/ \E o \in Order : Lapse(o)
              \/ \E i \in Intent : Charge(i)
              \/ SpendCredit \/ \E q \in Qty : MoveStock(q)
       PROVE  SaleNext
  BY <1>13, <1>q DEF EditCart, Lapse, Charge, SpendCredit, MoveStock, orderVars, cartVars
<1> QED BY <1>1, <1>2, <1>3, <1>4, <1>5, <1>6, <1>7, <1>8, <1>9, <1>10, <1>11, <1>12, <1>13 DEF Next

(***************************************************************************)
(* The checkout implements CartSale for every value of the constants: the  *)
(* guards of the functions and the unique index together leave no order of *)
(* webhooks, sweeps, cancellations and repairs in which a cart's orders    *)
(* break the rules.                                                        *)
(***************************************************************************)
THEOREM CheckoutImplementsSale == Spec => SaleImplemented
<1>1. Init => OrdersFirst
  BY CheckoutConstants DEF Init, OrdersFirst, Payment
<1>2. Init => Sale!Init
  BY CheckoutConstants DEF Init, Sale!Init, SaleStage, Exists, Unsettled
<1>3. TypeOK /\ Sales /\ OrdersFirst /\ [Next]_vars => OrdersFirst' /\ [Sale!Next]_(Sale!vars)
  BY OrdersStep, SaleMoves DEF SaleNext
<1>4. TypeOK /\ TypeOK' /\ Sales /\ [Next]_vars => Sales'
  BY SalesStep
<1> QED BY <1>1, <1>2, <1>3, <1>4, SalesInit, TypeCorrect, PTL DEF Spec, SaleImplemented, Sale!Spec

(***************************************************************************)
(* So a cart never has two orders that may become its invoice, is invoiced *)
(* by at most one, and money is never tied to an order that was let go;    *)
(* an invoice and a settlement are final.                                  *)
(***************************************************************************)
THEOREM CheckoutSaleKept == Spec => []Sale!SaleInv /\ Sale!SaleIsFinal
BY CheckoutImplementsSale, Sale!SaleKept, Sale!SaleFinal, PTL DEF SaleImplemented
=============================================================================
