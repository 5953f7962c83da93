--------------------------- MODULE PosPaymentProofs ---------------------------
(***************************************************************************)
(* Proofs about PosPayment, for any operations, any number of overlapping  *)
(* refreshes, sales, orders and lost answers, whatever a lost answer reads *)
(* as.  The server's functions are first shown to keep the rules of        *)
(* CartSale, which say what becomes of the orders of a cart.               *)
(***************************************************************************)
EXTENDS PosPayment, FiniteSetTheorems, TLAPS

\* The order rows as CartSale sees them.
RowStage(r) == IF r.invoice THEN "invoiced" ELSE IF r.state = "none" THEN "none"
               ELSE IF r.state \in Closed THEN "closed" ELSE "live"

Sale == INSTANCE CartSale WITH
            Cart  <- 0 .. MaxCarts,
            stage <- [o \in Order |-> RowStage(ord[o])], of <- [o \in Order |-> ord[o].cart],
            paid  <- {o \in Order : ord[o].settled}, sold <- sold

SaleNext == [Sale!Next]_(Sale!vars)

\* The records of the register, of its calls and of the server.
OrderState == Open \cup Closed \cup {"none", "paid", "allocation_pending"}
SplitState == {"none", "open", "failed", "settled", "cancelled"}
Row ==
    [cart : 0 .. MaxCarts, req : 0 .. MaxKeys, state : OrderState, exp : 0 .. MaxTime,
     intent : {"none", "active", "loose"}, locks : BOOLEAN, held : BOOLEAN, settled : BOOLEAN,
     invoice : BOOLEAN, pay : 0 .. MaxKeys, split : SplitState,
     legs : SUBSET [key : 0 .. MaxKeys, part : Nat]]
Checkout ==
    [order : 0 .. MaxOrders, cart : 0 .. MaxCarts, exp : 0 .. MaxTime, attempt : -1 .. MaxTime,
     outcome : {"none", "approved", "declined", "error", "unknown"}]
Answer ==
    [kind : {"wait", "ok", "refused", "expired", "net", "odd"}, order : 0 .. MaxOrders, row : Row]
GatewayCall ==
    [op : {"idle", "begin", "manual", "provider", "account", "split", "stop", "back", "resolve",
           "poll", "timer"},
     at : {"idle", "prepare", "status", "findSplit", "settle", "provider", "cancel", "account",
           "startSplit", "leg", "reduce", "cancelSplit", "release", "repair", "retry", "receipt"},
     co : Checkout, order : 0 .. MaxOrders, cart : 0 .. MaxCarts, req : 0 .. MaxKeys,
     key : 0 .. MaxKeys, part : Nat, ans : Answer]
RequestKeys == [cart : 0 .. MaxCarts, req : 0 .. MaxKeys, pay : 0 .. MaxKeys]
SplitView   == [order : 0 .. MaxOrders, status : SplitState, got : 0 .. Parts]
Register ==
    [cart : 0 .. MaxCarts, opened : 0 .. MaxCarts, checkout : Checkout, keys : RequestKeys,
     split : SplitView, legKey : 0 .. MaxKeys, part : Nat, receipt : 0 .. MaxCarts]

\* A row has no more parts than cover a sale; it is an order when it has a cart;
\* a payment request of its own comes with the invoice that request posted, an
\* invoice with its settlement, and a settled order is not closed.
RowOK(r) ==
    /\ r \in Row /\ IsFiniteSet(r.legs) /\ Cardinality(r.legs) <= Parts
    /\ r.cart = 0 <=> r.state = "none"
    /\ r.cart = 0 => r.split = "none" /\ r.intent = "none" /\ r.exp = 0 /\ ~r.settled
    /\ r.pay # 0 => r.invoice
    /\ r.invoice => r.settled
    /\ r.settled => r.state \notin Closed

CheckoutOK(co) == co \in Checkout /\ (co.order # 0 => co.cart # 0)

\* What is sent is about an order, except for the request that makes one.
CallOK(c) ==
    /\ c \in GatewayCall /\ CheckoutOK(c.co) /\ RowOK(c.ans.row)
    /\ c.op # "idle" => /\ c.order # 0 \/ (c.op = "begin" /\ c.at = "prepare")
                        /\ c.op \in {"begin", "manual", "provider"} => c.cart # 0
                        /\ c.at = "prepare" => c.op \in {"begin", "manual", "provider"}
                        /\ c.at = "settle" => c.op = "manual"
                        /\ c.op = "manual" => c.req # 0 /\ c.key # 0

ServerOK ==
    /\ ord \in [Order -> Row] /\ sold \subseteq 0 .. MaxCarts
    /\ \A o \in Order : RowOK(ord[o]) /\ (ord[o].invoice => ord[o].cart \in sold)

ClockOK == now \in 0 .. MaxTime /\ key \in 0 .. MaxKeys /\ lost \in Nat

RegisterOK(r) ==
    /\ r \in Register /\ CheckoutOK(r.checkout)
    /\ r.keys = NoKeys \/ (r.keys.req # 0 /\ r.keys.pay # 0)
    /\ r.split = NoSplit \/ r.split.order # 0

\* Rows rows and sales bear out call c's answer: one that says "posted" is still
\* true when it is read, however late, and a receipt is loaded for what was posted.
Tells(c, rows, sales) ==
    /\ c.ans.kind = "ok" =>
          /\ c.at # "account" => c.ans.order # 0
          /\ c.ans.row.invoice => c.ans.order # 0 /\ rows[c.ans.order].invoice
          /\ c.at \in {"settle", "status"} => c.ans.order = c.order
          /\ c.at = "settle" => c.ans.row.invoice
          /\ c.at = "account" => c.cart \in sales
    /\ c.at = "receipt" => IF c.op = "account" THEN c.cart \in sales
                           ELSE c.order # 0 /\ rows[c.order].invoice

CallsOK == call \in [Slot -> GatewayCall] /\ \A s \in Slot : CallOK(call[s]) /\ Tells(call[s], ord, sold)
LateOK  == \A q \in late : CallOK(q) /\ q.op # "idle"

PosIInv == ServerOK /\ ClockOK /\ RegisterOK(reg) /\ CallsOK /\ LateOK /\ ReceiptIsPosted

----------------------------------------------------------------------------
\* The empty records are typed.
LEMMA EmptyRow == RowOK(NoRow)
<1>1. NoRow \in Row
  BY PosPaymentConstants DEF NoRow, Row, OrderState, SplitState, Open
<1>2. IsFiniteSet(NoRow.legs) /\ Cardinality(NoRow.legs) <= Parts
  BY FS_EmptySet, PosPaymentConstants DEF NoRow
<1> QED BY <1>1, <1>2 DEF RowOK, NoRow, Closed

LEMMA EmptyRecords ==
    /\ CheckoutOK(NoCheckout) /\ NoKeys \in RequestKeys /\ NoSplit \in SplitView
    /\ Waiting \in Answer /\ RowOK(Waiting.row) /\ CallOK(NoCall)
<1>1. CheckoutOK(NoCheckout) /\ NoKeys \in RequestKeys /\ NoSplit \in SplitView
  BY PosPaymentConstants
  DEF CheckoutOK, Checkout, NoCheckout, RequestKeys, NoKeys, SplitView, NoSplit, SplitState
<1>2. Waiting \in Answer /\ RowOK(Waiting.row)
  BY EmptyRow, PosPaymentConstants DEF Answer, Waiting, RowOK
<1>3. NoCall \in GatewayCall
  BY <1>1, <1>2, PosPaymentConstants DEF GatewayCall, NoCall, CheckoutOK
<1>4. NoCall.op = "idle" /\ NoCall.co = NoCheckout /\ NoCall.ans = Waiting
  BY DEF NoCall
<1> QED BY <1>1, <1>2, <1>3, <1>4 DEF CallOK

LEMMA PosInit == Init => PosIInv
<1> SUFFICES ASSUME Init PROVE PosIInv
  OBVIOUS
<1>1. ServerOK
  <2>1. \A o \in Order : ord[o] = NoRow
    BY DEF Init
  <2>2. NoRow \in Row /\ ~NoRow.invoice
    BY EmptyRow DEF RowOK, NoRow
  <2> QED BY <2>1, <2>2, EmptyRow DEF ServerOK, Init
<1>2. ClockOK
  BY PosPaymentConstants DEF ClockOK, Init
<1>3. RegisterOK(reg)
  BY EmptyRecords, PosPaymentConstants DEF RegisterOK, Register, CheckoutOK, Init
<1>4. CallsOK
  <2>1. \A s \in Slot : call[s] = NoCall
    BY DEF Init
  <2>2. NoCall.ans.kind = "wait" /\ NoCall.at = "idle"
    BY DEF NoCall, Waiting
  <2>3. NoCall \in GatewayCall /\ call = [s \in Slot |-> NoCall]
    BY EmptyRecords DEF CallOK, Init
  <2> QED BY <2>1, <2>2, <2>3, EmptyRecords DEF CallsOK, Tells
<1>5. LateOK /\ ReceiptIsPosted
  BY DEF LateOK, ReceiptIsPosted, Init
<1> QED BY <1>1, <1>2, <1>3, <1>4, <1>5 DEF PosIInv

----------------------------------------------------------------------------
\* The server.

\* What may become of the order in row o: its cart and settlement stay, and it
\* keeps its stage, is settled, is let go unsettled, comes back to life, or is
\* invoiced; the last two not if the unique index blocks it.
RowMoves(o, n) ==
    LET r == ord[o] IN
    /\ n.cart = r.cart /\ (r.settled => n.settled)
    /\ \/ RowStage(n) = RowStage(r) /\ (r.settled \/ ~n.settled \/ RowStage(r) \in {"live", "invoiced"})
       \/ RowStage(r) = "live" /\ RowStage(n) = "closed" /\ ~n.settled
       \/ RowStage(r) = "closed" /\ RowStage(n) = "live" /\ ~Blocked(o)
       \/ RowStage(r) \in {"live", "closed"} /\ RowStage(n) = "invoiced"
          /\ ~Blocked(o) /\ r.cart \notin sold

\* The unique index of the table is the guard of CartSale.
LEMMA IndexGuards ==
    ASSUME NEW o \in Order, RowStage(ord[o]) = "closed", ~Blocked(o)
    PROVE  Sale!Alone(o)
BY DEF Sale!Alone, Sale!LiveOf, Blocked, OfCart, Live, RowStage

\* Such a change of a row is a step of CartSale.
LEMMA RowMovesSale ==
    ASSUME ServerOK, NEW o \in Order, NEW n, RowOK(n), RowMoves(o, n),
           ord' = [ord EXCEPT ![o] = n],
           sold' = sold \cup IF n.invoice THEN {n.cart} ELSE {}
    PROVE  SaleNext
<1> DEFINE r == ord[o]
           f == [x \in Order |-> RowStage(ord[x])]
<1>1. ord'[o] = n /\ \A x \in Order \ {o} : ord'[x] = ord[x]
  BY DEF ServerOK
<1>2. f' = [f EXCEPT ![o] = RowStage(n)]
  <2>1. \A x \in Order : RowStage(ord[x])' = IF x = o THEN RowStage(n) ELSE RowStage(ord[x])
    BY <1>1 DEF RowStage, Closed
  <2> QED BY <2>1
<1>3. [x \in Order |-> ord[x].cart]' = [x \in Order |-> ord[x].cart]
  BY <1>1 DEF RowMoves, Order
<1>4. /\ n.settled = r.settled => {x \in Order : ord[x].settled}' = {x \in Order : ord[x].settled}
      /\ n.settled => {x \in Order : ord[x].settled}' = {x \in Order : ord[x].settled} \cup {o}
  BY <1>1 DEF Order, ServerOK, RowOK, Row
<1>5. r.settled \in BOOLEAN /\ n.settled \in BOOLEAN /\ r.invoice \in BOOLEAN /\ n.invoice \in BOOLEAN
      /\ (r.invoice => r.cart \in sold) /\ (n.invoice => n.settled)
      /\ n.cart = r.cart /\ (r.settled => n.settled)
  BY DEF ServerOK, RowOK, Row, RowMoves
<1>6. /\ RowStage(r) = "invoiced" <=> r.invoice
      /\ RowStage(n) = "invoiced" <=> n.invoice
  BY <1>5 DEF RowStage
<1>7. CASE RowStage(n) = RowStage(r) /\ n.settled = r.settled
  <2>1. [x \in Order |-> RowStage(ord[x])]' = [x \in Order |-> RowStage(ord[x])]
    BY <1>2, <1>7 DEF Order
  <2>2. sold' = sold
    BY <1>5, <1>6, <1>7
  <2> QED BY <1>3, <1>4, <1>7, <2>1, <2>2 DEF SaleNext, Sale!vars
<1>8. CASE RowStage(n) = RowStage(r) /\ n.settled # r.settled
  <2>1. [x \in Order |-> RowStage(ord[x])]' = [x \in Order |-> RowStage(ord[x])]
    BY <1>2, <1>8 DEF Order
  <2>2. sold' = sold
    BY <1>5, <1>6, <1>8
  <2>3. RowStage(r) \in {"live", "invoiced"} /\ ~r.settled /\ n.settled
    BY <1>5, <1>8 DEF RowMoves
  <2>4. Sale!Settle(o)
    BY <1>3, <1>4, <2>1, <2>2, <2>3 DEF Sale!Settle
  <2> QED BY <2>4 DEF SaleNext, Sale!Next
<1>9. CASE RowStage(r) = "live" /\ RowStage(n) = "closed" /\ ~n.settled
  <2>1. sold' = sold /\ n.settled = r.settled
    BY <1>5, <1>6, <1>9
  <2>2. Sale!Close(o)
    BY <1>2, <1>3, <1>4, <1>9, <2>1 DEF Sale!Close
  <2> QED BY <2>2 DEF SaleNext, Sale!Next
<1>10. CASE RowStage(r) = "closed" /\ RowStage(n) = "live" /\ ~Blocked(o)
  <2>1. sold' = sold /\ Sale!Alone(o)
    BY <1>6, <1>10, IndexGuards
  <2>2. CASE n.settled = r.settled
    <3>1. Sale!Reopen(o)
      BY <1>2, <1>3, <1>4, <1>10, <2>1, <2>2 DEF Sale!Reopen
    <3> QED BY <3>1 DEF SaleNext, Sale!Next
  <2>3. CASE n.settled # r.settled
    <3>1. Sale!Settle(o)
      BY <1>2, <1>3, <1>4, <1>5, <1>10, <2>1, <2>3 DEF Sale!Settle
    <3> QED BY <3>1 DEF SaleNext, Sale!Next
  <2> QED BY <2>2, <2>3
<1>11. CASE RowStage(r) \in {"live", "closed"} /\ RowStage(n) = "invoiced" /\ ~Blocked(o) /\ r.cart \notin sold
  <2>1. RowStage(r) = "closed" => Sale!Alone(o)
    BY <1>11, IndexGuards
  <2>2. sold' = sold \cup {r.cart} /\ n.settled
    BY <1>5, <1>6, <1>11
  <2>3. Sale!Invoice(o)
    BY <1>2, <1>3, <1>4, <1>11, <2>1, <2>2 DEF Sale!Invoice
  <2> QED BY <2>3 DEF SaleNext, Sale!Next
<1> QED BY <1>5, <1>7, <1>8, <1>9, <1>10, <1>11 DEF RowMoves

\* An order that is not closed any more, settled and invoiced as before.
LEMMA LiveMoves ==
    ASSUME ServerOK, NEW o \in Order, NEW n, RowOK(n), n.cart # 0, n.cart = ord[o].cart,
           n.settled = ord[o].settled, n.invoice = ord[o].invoice,
           n.state \notin Closed, ~Blocked(o)
    PROVE  RowMoves(o, n)
<1>1. RowOK(ord[o]) /\ ord[o].state # "none" /\ n.state # "none"
  BY DEF ServerOK, RowOK
<1> QED BY <1>1 DEF RowMoves, RowStage

\* What a request may do: it moves the orders by the rules of CartSale, rows stay
\* typed, an invoice stays, and the answer tells of the row it is about.
Served(q, e) ==
    /\ ord' = e.ord /\ sold' = e.sold => SaleNext
    /\ e.ord \in [Order -> Row] /\ e.sold \subseteq 0 .. MaxCarts /\ sold \subseteq e.sold
    /\ \A o \in Order : /\ RowOK(e.ord[o]) /\ (e.ord[o].invoice => e.ord[o].cart \in e.sold)
                        /\ ord[o].invoice => e.ord[o].invoice
    /\ e.ans \in Answer /\ e.ans.kind # "wait" /\ RowOK(e.ans.row)
    /\ e.ans.kind = "ok" =>
          /\ q.at # "account" => e.ans.order # 0
          /\ e.ans.row.invoice => e.ans.order # 0 /\ e.ord[e.ans.order].invoice
          /\ q.at \in {"settle", "status"} => e.ans.order = q.order
          /\ q.at = "settle" => e.ans.row.invoice
          /\ q.at = "account" => q.cart \in e.sold

\* Nothing happens to the rows.
LEMMA SameSale == UNCHANGED <<ord, sold>> => SaleNext
BY DEF SaleNext, Sale!vars, RowStage, Closed, Order

\* A refusal changes nothing.
LEMMA SaysServed ==
    ASSUME ServerOK, NEW q, NEW k \in {"refused", "expired"}
    PROVE  Served(q, Says(k))
<1> DEFINE e == Says(k)
<1>1. e.ord = ord /\ e.sold = sold /\ e.ans = [Waiting EXCEPT !.kind = k]
  BY DEF Says
<1>2. e.ans \in Answer /\ e.ans.kind = k /\ e.ans.row = Waiting.row
  BY <1>1, EmptyRecords DEF Answer
<1> HIDE DEF e
<1>3. Served(q, e)
  BY <1>1, <1>2, EmptyRecords, SameSale DEF Served, ServerOK
<1> QED BY <1>3 DEF e

\* A request that writes one row and answers with it.
LEMMA WriteServed ==
    ASSUME ServerOK, NEW q, NEW o \in Order, NEW r, RowOK(r), RowMoves(o, r), q.at # "account",
           q.at = "settle" => r.invoice,
           q.at \in {"settle", "status"} => o = q.order
    PROVE  Served(q, Writes(o, r))
<1> DEFINE e == Writes(o, r)
<1>1. /\ e.ord = [ord EXCEPT ![o] = r] /\ e.sold = sold \cup (IF r.invoice THEN {r.cart} ELSE {})
      /\ e.ans = [kind |-> "ok", order |-> o, row |-> r]
  BY DEF Writes
<1> HIDE DEF e
<1>2. r \in Row /\ o \in 0 .. MaxOrders /\ o # 0
  BY PosPaymentConstants DEF RowOK, Order
<1>3. e.ord \in [Order -> Row] /\ e.ord[o] = r /\ \A x \in Order \ {o} : e.ord[x] = ord[x]
  BY <1>1, <1>2 DEF ServerOK
<1>4. e.sold \subseteq 0 .. MaxCarts /\ sold \subseteq e.sold /\ (r.invoice => r.cart \in e.sold)
  BY <1>1, <1>2 DEF ServerOK, Row
<1>5. ord[o].invoice => r.invoice
  BY DEF RowMoves, RowStage
<1>6. \A x \in Order : /\ RowOK(e.ord[x]) /\ (e.ord[x].invoice => e.ord[x].cart \in e.sold)
                       /\ ord[x].invoice => e.ord[x].invoice
  BY <1>3, <1>4, <1>5 DEF ServerOK
<1>7. e.ans \in Answer /\ e.ans.kind = "ok" /\ e.ans.order = o /\ e.ans.row = r
  BY <1>1, <1>2 DEF Answer
<1>8. ord' = e.ord /\ sold' = e.sold => SaleNext
  BY <1>1, RowMovesSale
<1>9. Served(q, e)
  BY <1>2, <1>3, <1>4, <1>6, <1>7, <1>8 DEF Served
<1> QED BY <1>9 DEF e

\* A request that finds the row as it should be.
LEMMA ReadServed ==
    ASSUME ServerOK, NEW q, NEW o \in Order, q.at # "account", q.at = "settle" => ord[o].invoice,
           q.at \in {"settle", "status"} => o = q.order
    PROVE  Served(q, Writes(o, ord[o]))
<1>1. RowOK(ord[o]) /\ RowMoves(o, ord[o])
  BY DEF ServerOK, RowMoves
<1> QED BY <1>1, WriteServed

\* A row of a cart whose parts and payment request stay what they are.
LEMMA SameParts ==
    ASSUME NEW r, RowOK(r), r.cart # 0, NEW n \in Row,
           n.cart = r.cart, n.legs = r.legs, n.pay = r.pay, r.invoice => n.invoice,
           n.invoice => n.settled, n.state # "none", n.settled => n.state \notin Closed
    PROVE  RowOK(n)
BY DEF RowOK

\* Row r is the order in row o on its way to another state.
OnTheWay(o, r) ==
    /\ RowOK(r) /\ r.cart # 0 /\ r.cart = ord[o].cart
    /\ r.settled = ord[o].settled /\ r.invoice = ord[o].invoice
    /\ ~Blocked(o)

\* A sale that can be posted is posted.
LEMMA PostedServed ==
    ASSUME ServerOK, NEW q, NEW o \in Order, NEW r, OnTheWay(o, r), CanPost(r), q.at # "account",
           q.at \in {"settle", "status"} => o = q.order
    PROVE  /\ Served(q, Writes(o, Posted(r)))
           /\ \A s \in SplitState : Served(q, Writes(o, [Posted(r) EXCEPT !.split = s]))
           /\ \A k \in 0 .. MaxKeys : Served(q, Writes(o, [Posted(r) EXCEPT !.pay = k]))
<1>1. r \in Row /\ RowOK(r) /\ r.cart # 0 /\ RowOK(ord[o])
  BY DEF OnTheWay, RowOK, ServerOK
<1>2. ASSUME NEW n \in Row, n.cart = r.cart, n.legs = r.legs, n.invoice = TRUE, n.settled = TRUE,
             n.state = "paid"
      PROVE  Served(q, Writes(o, n))
  <2>1. RowOK(n)
    BY <1>1, <1>2 DEF RowOK, Closed
  <2>2. RowMoves(o, n)
    <3>1. RowStage(n) = "invoiced" /\ ~ord[o].invoice /\ ord[o].cart \notin sold /\ n.cart = ord[o].cart
      BY <1>2 DEF RowStage, OnTheWay, CanPost
    <3>2. RowStage(ord[o]) \in {"live", "closed"}
      BY <1>1, <3>1 DEF RowStage, OnTheWay, RowOK
    <3> QED BY <1>2, <3>1, <3>2 DEF RowMoves, OnTheWay
  <2> QED BY <1>2, <2>1, <2>2, WriteServed
<1>3. /\ Posted(r) \in Row /\ Posted(r).cart = r.cart /\ Posted(r).legs = r.legs
      /\ Posted(r).invoice = TRUE /\ Posted(r).settled = TRUE /\ Posted(r).state = "paid"
  BY <1>1 DEF Posted, Row, OrderState
<1>4. ASSUME NEW s \in SplitState PROVE Served(q, Writes(o, [Posted(r) EXCEPT !.split = s]))
  <2> DEFINE n == [Posted(r) EXCEPT !.split = s]
  <2>1. n \in Row /\ n.cart = r.cart /\ n.legs = r.legs /\ n.invoice = TRUE /\ n.settled = TRUE
        /\ n.state = "paid"
    BY <1>3 DEF Row
  <2> QED BY <1>2, <2>1
<1>5. ASSUME NEW k \in 0 .. MaxKeys PROVE Served(q, Writes(o, [Posted(r) EXCEPT !.pay = k]))
  <2> DEFINE n == [Posted(r) EXCEPT !.pay = k]
  <2>1. n \in Row /\ n.cart = r.cart /\ n.legs = r.legs /\ n.invoice = TRUE /\ n.settled = TRUE
        /\ n.state = "paid"
    BY <1>3 DEF Row
  <2> QED BY <1>2, <2>1
<1> QED BY <1>2, <1>3, <1>4, <1>5

\* A deadline is within the modelled time.
LEMMA DeadlineTyped ==
    ASSUME ClockOK
    PROVE  /\ \A d \in Nat : Deadline(d) \in 0 .. MaxTime
           /\ \A e \in 0 .. MaxTime : Later(e) \in 0 .. MaxTime
BY PosPaymentConstants DEF ClockOK, Deadline, Later, Hold

\* The order's state follows its parts.
LEMMA RefreshedOK ==
    ASSUME ClockOK, NEW r, RowOK(r), r.cart # 0
    PROVE  /\ RowOK(Refreshed(r)) /\ Refreshed(r).cart = r.cart /\ Refreshed(r).invoice = r.invoice
           /\ Refreshed(r).settled = r.settled
           /\ r.settled \/ r.split \in {"open", "failed"} \/ r.state \notin Closed
                => Refreshed(r).state \notin Closed
<1>1. CASE r.settled \/ r.split \notin {"open", "failed"}
  <2>1. Refreshed(r) = r
    BY <1>1 DEF Refreshed
  <2> QED BY <1>1, <2>1 DEF RowOK
<1>2. CASE ~(r.settled \/ r.split \notin {"open", "failed"})
  <2> DEFINE s == IF r.legs = {} THEN "awaiting_payment" ELSE "payment_processing"
             i == IF r.intent = "none" THEN r.intent ELSE "loose"
             x == IF r.legs = {} THEN r.exp ELSE Later(r.exp)
             n == [r EXCEPT !.state = s, !.intent = i, !.exp = x]
  <2>1. Refreshed(r) = n
    BY <1>2 DEF Refreshed
  <2>2. s \in OrderState /\ s \notin Closed /\ s # "none"
    BY DEF OrderState, Open, Closed
  <2>3. r \in Row /\ i \in {"none", "active", "loose"}
    BY DEF RowOK, Row
  <2>4. x \in 0 .. MaxTime
    BY <2>3, DeadlineTyped DEF Row
  <2> HIDE DEF s, i, x
  <2>5. /\ n \in Row /\ n.cart = r.cart /\ n.legs = r.legs /\ n.pay = r.pay /\ n.state = s
        /\ n.invoice = r.invoice /\ n.settled = r.settled
    BY <2>2, <2>3, <2>4 DEF Row
  <2> HIDE DEF n
  <2>6. RowOK(n)
    BY <2>2, <2>5, SameParts DEF RowOK
  <2> QED BY <2>1, <2>2, <2>5, <2>6
<1> QED BY <1>1, <1>2

\* Posting a covered sale, or failing to.
LEMMA FinalizeServed ==
    ASSUME ServerOK, NEW q, NEW o \in Order, NEW r, OnTheWay(o, r),
           q.at \notin {"account", "settle", "status"}, NEW e \in Finalize(o, r)
    PROVE  Served(q, e)
<1> DEFINE n == [r EXCEPT !.split = "failed", !.state = "payment_processing"]
<1>1. "settled" \in SplitState
  BY DEF SplitState
<1>2. CASE CanPost(r) /\ e = Writes(o, [Posted(r) EXCEPT !.split = "settled"])
  BY <1>1, <1>2, PostedServed
<1>3. CASE e = Writes(o, n)
  <2>0. RowOK(r) /\ r \in Row /\ r.cart # 0
    BY DEF OnTheWay, RowOK
  <2>1. /\ n \in Row /\ n.cart = r.cart /\ n.legs = r.legs /\ n.pay = r.pay /\ n.invoice = r.invoice
        /\ n.settled = r.settled /\ n.state = "payment_processing"
    BY <2>0 DEF Row, OrderState, Open, SplitState
  <2> HIDE DEF n
  <2>2. RowOK(n)
    <3>1. n.state # "none" /\ n.state \notin Closed
      BY <2>1 DEF Closed
    <3>2. n.invoice => n.settled
      BY <2>0, <2>1 DEF RowOK
    <3> QED BY <2>0, <2>1, <3>1, <3>2, SameParts
  <2>3. RowMoves(o, n)
    BY <2>0, <2>1, <2>2, LiveMoves DEF OnTheWay, Closed
  <2> QED BY <1>3, <2>2, <2>3, WriteServed
<1> QED BY <1>2, <1>3 DEF Finalize

\* release_commerce_order.
LEMMA ReleaseOK ==
    ASSUME NEW r, RowOK(r), r.cart # 0, NEW t \in Closed
    PROVE  /\ RowOK(Release(r, t)) /\ Release(r, t).cart = r.cart /\ Release(r, t).invoice = r.invoice
           /\ Release(r, t).settled = r.settled
           /\ r.settled => Release(r, t) = r
           /\ ~r.settled => RowStage(Release(r, t)) = "closed"
<1>1. CASE r.settled
  BY <1>1 DEF Release
<1>2. CASE ~r.settled
  <2> DEFINE n == [r EXCEPT !.state = t, !.locks = FALSE, !.held = FALSE]
  <2>1. Release(r, t) = n
    BY <1>2 DEF Release
  <2>2. r \in Row /\ t \in OrderState /\ t # "none" /\ ~r.invoice
    BY <1>2 DEF RowOK, OrderState, Closed
  <2>3. /\ n \in Row /\ n.cart = r.cart /\ n.legs = r.legs /\ n.pay = r.pay /\ n.state = t
        /\ n.invoice = r.invoice /\ n.settled = r.settled
    BY <2>2 DEF Row
  <2> HIDE DEF n
  <2>4. RowOK(n)
    BY <1>2, <2>2, <2>3, SameParts
  <2>5. RowStage(n) = "closed"
    BY <2>2, <2>3 DEF RowStage
  <2> QED BY <1>2, <2>1, <2>3, <2>4, <2>5
<1> QED BY <1>1, <1>2

\* The lowest of some numbers.
LEMMA LowestNumber ==
    ASSUME NEW S, S \subseteq Nat, S # {}
    PROVE  \E x \in S : \A y \in S : x <= y
<1> DEFINE Below == {p \in Nat \X Nat : p[1] < p[2]}
<1>1. IsWellFoundedOn(Below, Nat)
  BY NatLessThanWellFounded DEF OpToRel
<1>2. PICK m \in S : \A y \in S : <<y, m>> \notin Below
  BY <1>1, WFMin
<1>3. ASSUME NEW y \in S PROVE m <= y
  <2>1. m \in Nat /\ y \in Nat /\ <<y, m>> \in Nat \X Nat
    OBVIOUS
  <2>2. ~(y < m)
    BY <1>2, <2>1
  <2> QED BY <2>1, <2>2
<1> QED BY <1>3

\* prepare_pos_commerce_checkout.
LEMMA PrepareServed ==
    ASSUME ServerOK, Sale!SaleInv, ClockOK, NEW q, CallOK(q), q.op # "idle", q.at = "prepare",
           NEW e \in Prepare(q)
    PROVE  Served(q, e)
<1> DEFINE own     == {o \in OfCart(q.cart) : ord[o].locks /\ Active(o)}
           current == {o \in own : ord[o].exp > now}
           lapsed  == own \ current
           same    == {o \in OfCart(q.cart) : ord[o].req = q.req}
           free    == {o \in Order : ord[o].cart = 0}
           closed  == [o \in Order |-> IF o \in lapsed
                                       THEN Release(ord[o], "payment_expired") ELSE ord[o]]
           give(f, o) == [ord |-> f, sold |-> sold, ans |-> [kind |-> "ok", order |-> o, row |-> f[o]]]
           new     == [NoRow EXCEPT !.cart = q.cart, !.req = q.req, !.state = "awaiting_payment",
                                    !.exp = now + TTL, !.locks = TRUE, !.held = TRUE]
           alone   == ~\E o \in OfCart(q.cart) : Live(o) /\ closed[o] = ord[o]
           lowest  == CHOOSE x \in free : \A y \in free : x <= y
           OK(f)   == /\ f \in [Order -> Row]
                      /\ \A x \in Order : /\ RowOK(f[x]) /\ (f[x].invoice => f[x].cart \in sold)
                                          /\ ord[x].invoice => f[x].invoice
                      /\ ord' = f /\ sold' = sold => SaleNext
<1>0. q.cart \in 0 .. MaxCarts /\ q.cart # 0 /\ q.req \in 0 .. MaxKeys
  BY DEF CallOK, GatewayCall
<1>1. ASSUME NEW f, NEW o \in Order, OK(f) PROVE Served(q, give(f, o))
  <2> DEFINE g == give(f, o)
  <2>1. g.ord = f /\ g.sold = sold /\ g.ans = [kind |-> "ok", order |-> o, row |-> f[o]]
    OBVIOUS
  <2>2. o \in 0 .. MaxOrders /\ o # 0 /\ f[o] \in Row
    BY <1>1, PosPaymentConstants DEF Order
  <2> HIDE DEF g
  <2>3. g.ans \in Answer /\ g.ans.kind = "ok" /\ g.ans.order = o /\ g.ans.row = f[o]
    BY <2>1, <2>2 DEF Answer
  <2>4. Served(q, g)
    BY <1>1, <2>1, <2>2, <2>3 DEF Served, ServerOK
  <2> QED BY <2>4 DEF g
<1>2. OK(ord)
  BY SameSale DEF ServerOK
\* What the release of a lapsed checkout leaves.
<1>3. ASSUME NEW x \in Order
      PROVE  /\ closed[x] \in Row /\ RowOK(closed[x]) /\ closed[x].invoice = ord[x].invoice
             /\ closed[x].cart = ord[x].cart /\ closed[x].settled = ord[x].settled
             /\ x \in lapsed /\ ~ord[x].settled => /\ RowStage(closed[x]) = "closed"
                                                   /\ RowStage(ord[x]) = "live" /\ ord[x].cart = q.cart
             /\ ~(x \in lapsed /\ ~ord[x].settled) => closed[x] = ord[x]
  <2>1. ord[x] \in Row /\ RowOK(ord[x]) /\ "payment_expired" \in Closed
    BY DEF ServerOK, Closed
  <2>2. CASE x \in lapsed
    <3>1. ord[x].cart = q.cart /\ ord[x].cart # 0 /\ RowStage(ord[x]) = "live"
      BY <1>0, <2>2 DEF OfCart, Active, RowStage, Open, Closed
    <3>2. closed[x] = Release(ord[x], "payment_expired")
      BY <2>2
    <3> HIDE DEF closed, lapsed
    <3>3. ~ord[x].settled \/ closed[x] = ord[x]
      BY <2>1, <3>1, <3>2, ReleaseOK
    <3> QED BY <2>1, <2>2, <3>1, <3>2, <3>3, ReleaseOK DEF RowOK
  <2>3. CASE x \notin lapsed
    <3>1. closed[x] = ord[x]
      BY <2>3
    <3> HIDE DEF closed, lapsed
    <3> QED BY <2>1, <2>3, <3>1
  <2> QED BY <2>2, <2>3
<1>4. closed = [x \in Order |-> closed[x]]
  OBVIOUS
<1>5. \A x, y \in lapsed : ~ord[x].settled /\ ~ord[y].settled => x = y
  <2> SUFFICES ASSUME NEW x \in lapsed, NEW y \in lapsed, ~ord[x].settled, ~ord[y].settled PROVE x = y
    OBVIOUS
  <2>1. x \in Order /\ y \in Order
    BY DEF OfCart
  <2>2. RowStage(ord[x]) = "live" /\ RowStage(ord[y]) = "live" /\ ord[x].cart = ord[y].cart
    BY <1>3, <2>1
  <2> QED BY <2>1, <2>2 DEF Sale!SaleInv, Sale!OneLiveOrder
<1>6. ASSUME ord' = closed, sold' = sold PROVE SaleNext
  <2> HIDE DEF closed, lapsed
  <2>1. \A x \in Order : RowStage(ord[x])' = RowStage(closed[x]) /\ ord'[x] = closed[x]
    BY <1>6 DEF RowStage, Closed
  <2>2. /\ [x \in Order |-> ord[x].cart]' = [x \in Order |-> ord[x].cart]
        /\ {x \in Order : ord[x].settled}' = {x \in Order : ord[x].settled}
    BY <1>3, <2>1 DEF Order
  <2>3. CASE \A x \in Order : ~(x \in lapsed /\ ~ord[x].settled)
    <3>1. [x \in Order |-> RowStage(ord[x])]' = [x \in Order |-> RowStage(ord[x])]
      BY <1>3, <2>1, <2>3 DEF Order
    <3> QED BY <1>6, <2>2, <3>1 DEF SaleNext, Sale!vars
  <2>4. CASE \E x \in Order : x \in lapsed /\ ~ord[x].settled
    <3>1. PICK x \in Order : x \in lapsed /\ ~ord[x].settled
      BY <2>4
    <3>2. RowStage(ord[x]) = "live" /\ RowStage(closed[x]) = "closed"
      BY <1>3, <3>1
    <3>3. \A y \in Order \ {x} : RowStage(closed[y]) = RowStage(ord[y])
      BY <1>3, <1>5, <3>1
    <3>4. Sale!Close(x)
      BY <1>6, <2>1, <2>2, <3>1, <3>2, <3>3 DEF Sale!Close, Order
    <3> QED BY <3>4 DEF SaleNext, Sale!Next
  <2> QED BY <2>3, <2>4
<1>7. OK(closed)
  <2> HIDE DEF closed, lapsed
  <2>1. closed \in [Order -> Row]
    BY <1>3, <1>4
  <2> QED BY <1>3, <1>6, <2>1 DEF ServerOK
<1>8. ASSUME NEW o \in free, now + TTL <= MaxTime, alone, q.cart \notin sold
      PROVE  OK([closed EXCEPT ![o] = new])
  <2>0. /\ NoRow \in Row /\ NoRow.invoice = FALSE /\ NoRow.pay = 0 /\ NoRow.legs = {}
        /\ NoRow.settled = FALSE
        /\ now + TTL \in 0 .. MaxTime /\ "awaiting_payment" \in OrderState
    BY <1>8, PosPaymentConstants, EmptyRow DEF NoRow, RowOK, ClockOK, TTL, OrderState, Open
  <2>1. /\ new \in Row /\ new.cart = q.cart /\ new.invoice = FALSE /\ new.pay = 0 /\ new.legs = {}
        /\ new.settled = FALSE /\ new.state = "awaiting_payment"
    BY <1>0, <2>0 DEF Row
  <2>2. IsFiniteSet({}) /\ Cardinality({}) <= Parts
    BY FS_EmptySet, PosPaymentConstants
  <2> HIDE DEF new
  <2>3. RowOK(new) /\ RowStage(new) = "live"
    BY <1>0, <2>1, <2>2 DEF RowOK, RowStage, Closed
  <2>4. o \in Order /\ ~ord[o].invoice /\ ~ord[o].settled /\ RowStage(ord[o]) = "none"
    BY <1>8 DEF ServerOK, RowOK, RowStage
  <2> DEFINE f == [closed EXCEPT ![o] = new]
  <2>5. /\ f \in [Order -> Row] /\ f[o] = new
        /\ \A x \in Order \ {o} : f[x] = closed[x]
    BY <1>3, <1>4, <2>1, <2>4
  <2> HIDE DEF closed, f, lapsed
  <2>6. ASSUME ord' = f, sold' = sold PROVE SaleNext
    <3> DEFINE L == Sale!LiveOf(q.cart)
    <3>1. \A x \in Order : RowStage(ord[x])' = RowStage(f[x]) /\ ord'[x] = f[x]
      BY <2>6 DEF RowStage, Closed
    <3>2. {x \in Order : ord[x].settled}' = {x \in Order : ord[x].settled}
      BY <1>3, <2>1, <2>4, <2>5, <3>1 DEF Order
    <3>3. [x \in Order |-> ord[x].cart]' = [[x \in Order |-> ord[x].cart] EXCEPT ![o] = q.cart]
      <4>1. \A x \in Order : ord'[x].cart = IF x = o THEN q.cart ELSE ord[x].cart
        BY <1>3, <2>1, <2>5, <3>1
      <4> QED BY <2>4, <4>1 DEF Order
    <3>4. \A x \in L : /\ x \in Order /\ ~ord[x].settled /\ RowStage(closed[x]) = "closed"
                       /\ RowStage(ord[x]) = "live"
      <4> SUFFICES ASSUME NEW x \in L PROVE /\ x \in Order /\ ~ord[x].settled /\ RowStage(ord[x]) = "live"
                                            /\ RowStage(closed[x]) = "closed"
        OBVIOUS
      <4>1. x \in Order /\ RowStage(ord[x]) = "live" /\ ord[x].cart = q.cart
        BY DEF Sale!LiveOf
      <4>2. x \in OfCart(q.cart) /\ Live(x)
        BY <4>1 DEF OfCart, Live, RowStage
      <4>3. closed[x] # ord[x]
        BY <1>8, <4>2
      <4> QED BY <1>3, <4>1, <4>3
    <3>5. \A x \in Order : x \notin L /\ x # o => RowStage(f[x]) = RowStage(ord[x])
      <4> SUFFICES ASSUME NEW x \in Order, x \notin L, x # o PROVE RowStage(f[x]) = RowStage(ord[x])
        OBVIOUS
      <4>1. ~(RowStage(ord[x]) = "live" /\ ord[x].cart = q.cart)
        BY DEF Sale!LiveOf
      <4>2. closed[x] = ord[x]
        BY <1>3, <4>1
      <4> QED BY <2>5, <4>2
    <3>6. \A x \in Order : x \in L /\ x # o => RowStage(f[x]) = "closed"
      BY <2>5, <3>4
    <3>7. L \cap {x \in Order : ord[x].settled} = {}
      BY <3>4
    <3>8. Sale!Stage(o, q.cart)
      <4>1. [x \in Order |-> RowStage(ord[x])]'
              = [x \in Order |-> IF x = o THEN "live" ELSE IF x \in L THEN "closed" ELSE RowStage(ord[x])]
        BY <2>3, <2>5, <3>1, <3>5, <3>6 DEF Order
      <4> HIDE DEF L
      <4>2. \A x \in Order : (IF x = o THEN "live" ELSE IF x \in L THEN "closed" ELSE RowStage(ord[x]))
              = (IF x = o THEN "live" ELSE IF x \in Sale!LiveOf(q.cart) THEN "closed"
                 ELSE [y \in Order |-> RowStage(ord[y])][x])
        BY DEF L
      <4> QED BY <1>8, <2>4, <2>6, <3>2, <3>3, <3>7, <4>1, <4>2 DEF Sale!Stage, L
    <3> QED BY <1>0, <2>4, <3>8 DEF SaleNext, Sale!Next
  <2>7. \A x \in Order : /\ RowOK(f[x]) /\ (f[x].invoice => f[x].cart \in sold)
                         /\ ord[x].invoice => f[x].invoice
    BY <1>3, <2>1, <2>3, <2>4, <2>5 DEF ServerOK
  <2>8. OK(f)
    BY <2>5, <2>6, <2>7
  <2> QED BY <2>8 DEF f
\* The lowest free number.
<1>9. free # {} => lowest \in free
  <2>1. free \subseteq Nat
    BY PosPaymentConstants DEF Order
  <2> HIDE DEF free
  <2> QED BY <2>1, LowestNumber
<1>10. CASE e \in Refused
  BY <1>10, SaysServed DEF Refused
<1>11. CASE \E o \in current : e = give(ord, o)
  <2> HIDE DEF give, OK
  <2> QED BY <1>1, <1>2, <1>11 DEF OfCart
<1>12. CASE \E o \in same : e = give(closed, o)
  <2> HIDE DEF give, OK, closed
  <2> QED BY <1>1, <1>7, <1>12 DEF OfCart
<1>13. CASE /\ free # {} /\ now + TTL <= MaxTime /\ alone /\ q.cart \notin sold
            /\ e = give([closed EXCEPT ![lowest] = new], lowest)
  <2> HIDE DEF give, OK, closed, new, alone
  <2>1. lowest \in free /\ lowest \in Order
    BY <1>9, <1>13
  <2> HIDE DEF lowest, free
  <2> QED BY <1>1, <1>8, <1>13, <2>1
<1>14. e \in Refused \/ (\E o \in current : e = give(ord, o)) \/ (\E o \in same : e = give(closed, o))
       \/ (/\ free # {} /\ now + TTL <= MaxTime /\ alone /\ q.cart \notin sold
           /\ e = give([closed EXCEPT ![lowest] = new], lowest))
  <2>1. e \in IF q.cart \in sold THEN Refused
             ELSE IF current # {} THEN {give(ord, x) : x \in current}
             ELSE IF same # {} THEN {give(closed, x) : x \in same}
             ELSE IF ~alone THEN Refused
             ELSE IF free = {} \/ now + TTL > MaxTime THEN Refused
             ELSE {give([closed EXCEPT ![lowest] = new], lowest)}
    BY DEF Prepare
  <2>2. ~(now + TTL > MaxTime) => now + TTL <= MaxTime
    BY PosPaymentConstants DEF ClockOK, TTL
  <2> HIDE DEF give, closed, new, same, free, alone, lowest, current
  <2> QED BY <2>1, <2>2
<1> QED BY <1>10, <1>11, <1>12, <1>13, <1>14

\* The requests about an order that exists.
LEMMA SettleServed ==
    ASSUME ServerOK, NEW q, CallOK(q), q.op # "idle", q.at = "settle", NEW e \in Settle(q)
    PROVE  Served(q, e)
<1> DEFINE r == ord[q.order]
<1>1. q.order \in Order /\ q.key \in 0 .. MaxKeys /\ q.key # 0 /\ q.at = "settle"
  BY PosPaymentConstants DEF CallOK, GatewayCall, Order
<1>2. RowOK(r)
  BY <1>1 DEF ServerOK
<1>3. CASE e \in Refused \/ e = Says("expired")
  BY <1>3, SaysServed DEF Refused
<1>4. CASE r.pay = q.key /\ e = Writes(q.order, r)
  BY <1>1, <1>2, <1>4, ReadServed DEF RowOK
<1>5. CASE CanPost(r) /\ e = Writes(q.order, [Posted(r) EXCEPT !.pay = q.key])
  <2>1. OnTheWay(q.order, r)
    BY <1>2, <1>5 DEF OnTheWay, RowOK, CanPost, Blocked, Open, Closed
  <2> QED BY <1>1, <1>5, <2>1, PostedServed
<1> QED BY <1>3, <1>4, <1>5 DEF Settle

LEMMA InitiateServed ==
    ASSUME ServerOK, ClockOK, NEW q, CallOK(q), q.op # "idle", q.at = "provider", NEW e \in Initiate(q)
    PROVE  Served(q, e)
<1> DEFINE r == ord[q.order]
           n == [r EXCEPT !.state = "payment_processing", !.intent = "active"]
<1>1. q.order \in Order
  BY PosPaymentConstants DEF CallOK, GatewayCall, Order
<1>2. RowOK(r) /\ r \in Row
  BY <1>1 DEF ServerOK
<1>3. CASE e \in Refused
  BY <1>3, SaysServed DEF Refused
<1>4. CASE e = Writes(q.order, r)
  BY <1>1, <1>4, ReadServed
<1>5. CASE r.exp > now /\ ~r.settled /\ ~Blocked(q.order) /\ e = Writes(q.order, n)
  <2>1. r.cart # 0 /\ ~r.invoice
    BY <1>2, <1>5 DEF RowOK, ClockOK
  <2>2. /\ n \in Row /\ n.cart = r.cart /\ n.legs = r.legs /\ n.pay = r.pay /\ n.invoice = r.invoice
        /\ n.settled = r.settled /\ n.state = "payment_processing"
    BY <1>2 DEF Row, OrderState, Open
  <2> HIDE DEF n
  <2>3. RowOK(n)
    BY <1>2, <1>5, <2>1, <2>2, SameParts
  <2>4. RowMoves(q.order, n)
    BY <1>1, <1>5, <2>1, <2>2, <2>3, LiveMoves DEF Closed
  <2> QED BY <1>1, <1>5, <2>3, <2>4, WriteServed
<1>6. \/ e \in Refused \/ e = Writes(q.order, r)
      \/ r.exp > now /\ ~r.settled /\ ~Blocked(q.order) /\ e = Writes(q.order, n)
  <2>1. ~(r.exp <= now) => r.exp > now
    BY <1>2 DEF Row, ClockOK
  <2> QED BY <2>1 DEF Initiate
<1> QED BY <1>3, <1>4, <1>5, <1>6

LEMMA CancelServed ==
    ASSUME ServerOK, NEW q, CallOK(q), q.op # "idle", q.at \in {"cancel", "release"}, NEW e \in Cancel(q)
    PROVE  Served(q, e)
<1> DEFINE r == ord[q.order]
           n == Release(r, "cancelled")
<1>1. q.order \in Order
  BY PosPaymentConstants DEF CallOK, GatewayCall, Order
<1>2. RowOK(r)
  BY <1>1 DEF ServerOK
<1>3. CASE e \in Refused
  BY <1>3, SaysServed DEF Refused
<1>4. CASE r.cart # 0 /\ ~r.settled /\ e = Writes(q.order, n)
  <2>1. RowOK(n) /\ n.cart = r.cart /\ ~n.settled /\ RowStage(n) = "closed"
    BY <1>2, <1>4, ReleaseOK DEF Closed
  <2> HIDE DEF n
  <2>2. RowStage(r) \in {"live", "closed"}
    BY <1>2, <1>4 DEF RowOK, RowStage
  <2>3. RowMoves(q.order, n)
    BY <1>4, <2>1, <2>2 DEF RowMoves
  <2> QED BY <1>1, <1>4, <2>1, <2>3, WriteServed
<1> QED BY <1>3, <1>4 DEF Cancel

LEMMA OnAccountServed ==
    ASSUME ServerOK, NEW q, CallOK(q), q.at = "account", NEW e \in OnAccount(q)
    PROVE  Served(q, e)
<1>1. CASE e \in Refused
  BY <1>1, SaysServed DEF Refused
<1>2. CASE /\ q.cart \notin sold
           /\ e = [ord |-> ord, sold |-> sold \cup {q.cart}, ans |-> [Waiting EXCEPT !.kind = "ok"]]
  <2>1. e.ord = ord /\ e.sold = sold \cup {q.cart} /\ e.ans = [Waiting EXCEPT !.kind = "ok"]
    BY <1>2
  <2>2. e.ans \in Answer /\ e.ans.kind = "ok" /\ e.ans.row = NoRow
    BY <2>1, EmptyRecords DEF Answer, Waiting
  <2>3. NoRow.invoice = FALSE /\ q.cart \in 0 .. MaxCarts
    BY DEF NoRow, CallOK, GatewayCall
  <2>4. ASSUME ord' = e.ord, sold' = e.sold PROVE SaleNext
    <3>1. Sale!SellCart(q.cart)
      BY <1>2, <2>1, <2>4 DEF Sale!SellCart, RowStage, Closed, Order
    <3> QED BY <2>3, <3>1 DEF SaleNext, Sale!Next
  <2> QED BY <2>1, <2>2, <2>3, <2>4, EmptyRow DEF Served, ServerOK
<1> QED BY <1>1, <1>2 DEF OnAccount

\* An order brought up to date with its session is on its way.
LEMMA RefreshedOnTheWay ==
    ASSUME ServerOK, ClockOK, NEW o \in Order, NEW r, OnTheWay(o, r)
    PROVE  /\ OnTheWay(o, Refreshed(r))
           /\ r.split \in {"open", "failed"} \/ r.state \notin Closed => RowMoves(o, Refreshed(r))
<1> DEFINE n == Refreshed(r)
<1>1. RowOK(r) /\ r.cart # 0
  BY DEF OnTheWay
<1>2. /\ RowOK(n) /\ n.cart = r.cart /\ n.invoice = r.invoice /\ n.settled = r.settled
      /\ r.settled \/ r.split \in {"open", "failed"} \/ r.state \notin Closed => n.state \notin Closed
  BY <1>1, RefreshedOK
<1> HIDE DEF n
<1>3. OnTheWay(o, n)
  BY <1>2 DEF OnTheWay
<1>4. r.split \in {"open", "failed"} \/ r.state \notin Closed => RowMoves(o, n)
  BY <1>1, <1>2, LiveMoves DEF OnTheWay
<1> QED BY <1>3, <1>4 DEF n

LEMMA StartSessionServed ==
    ASSUME ServerOK, ClockOK, NEW q, CallOK(q), q.op # "idle", q.at = "startSplit", NEW e \in StartSession(q)
    PROVE  Served(q, e)
<1> DEFINE r == ord[q.order]
           s == IF r.split = "none" THEN "open" ELSE r.split
           x == Later(r.exp)
           n == [r EXCEPT !.split = s, !.state = "payment_processing", !.exp = x]
<1>1. q.order \in Order
  BY PosPaymentConstants DEF CallOK, GatewayCall, Order
<1>2. RowOK(r) /\ r \in Row
  BY <1>1 DEF ServerOK
<1>3. CASE e \in Refused
  BY <1>3, SaysServed DEF Refused
<1>4. CASE Active(q.order) /\ ~r.settled /\ e = Writes(q.order, Refreshed(n))
  <2>1. r.cart # 0 /\ ~r.invoice /\ ~Blocked(q.order)
    BY <1>2, <1>4 DEF RowOK, Active, Blocked, Open, Closed
  <2>2. x \in 0 .. MaxTime /\ s \in SplitState
    BY <1>2, DeadlineTyped DEF Row, SplitState
  <2> HIDE DEF x, s
  <2>3. /\ n \in Row /\ n.cart = r.cart /\ n.legs = r.legs /\ n.pay = r.pay /\ n.invoice = r.invoice
        /\ n.settled = r.settled /\ n.state = "payment_processing"
    BY <1>2, <2>2 DEF Row, OrderState, Open
  <2> HIDE DEF n
  <2>4. OnTheWay(q.order, n) /\ n.state \notin Closed
    <3>1. n.state # "none" /\ n.state \notin Closed
      BY <2>3 DEF Closed
    <3>2. RowOK(n)
      BY <1>2, <1>4, <2>1, <2>3, <3>1, SameParts
    <3> QED BY <2>1, <2>3, <3>1, <3>2 DEF OnTheWay
  <2>5. RowOK(Refreshed(n)) /\ RowMoves(q.order, Refreshed(n))
    BY <1>1, <2>4, RefreshedOnTheWay DEF OnTheWay
  <2> QED BY <1>1, <1>4, <2>5, WriteServed
<1> QED BY <1>3, <1>4 DEF StartSession

LEMMA AddLegServed ==
    ASSUME ServerOK, ClockOK, NEW q, CallOK(q), q.op # "idle", q.at = "leg", NEW e \in AddLeg(q)
    PROVE  Served(q, e)
<1> DEFINE r     == ord[q.order]
           owner == {o \in Order : \E l \in ord[o].legs : l.key = q.key}
           new   == [key |-> q.key, part |-> q.part]
           more  == [r EXCEPT !.legs = @ \cup {new}]
           next  == Refreshed(more)
<1>1. q.order \in Order /\ q.key \in 0 .. MaxKeys /\ q.part \in Nat
  BY PosPaymentConstants DEF CallOK, GatewayCall, Order
<1>2. RowOK(r) /\ r \in Row
  BY <1>1 DEF ServerOK
<1>3. CASE e \in Refused
  BY <1>3, SaysServed DEF Refused
<1>4. CASE e \in {Writes(o, ord[o]) : o \in owner}
  BY <1>4, ReadServed
<1>5. ASSUME r.split = "open", Cardinality(r.legs) < Parts, ~Blocked(q.order)
      PROVE  OnTheWay(q.order, next) /\ RowMoves(q.order, next)
  <2>1. r.cart # 0
    BY <1>2, <1>5 DEF RowOK
  <2>2. IsFiniteSet(r.legs \cup {new}) /\ Cardinality(r.legs \cup {new}) <= Parts
    <3>1. IsFiniteSet(r.legs) /\ Cardinality(r.legs) \in Nat
      BY <1>2, FS_CardinalityType DEF RowOK
    <3>2. /\ IsFiniteSet(r.legs \cup {new})
          /\ Cardinality(r.legs \cup {new}) \in {Cardinality(r.legs), Cardinality(r.legs) + 1}
      <4> HIDE DEF r, new
      <4> QED BY <3>1, FS_AddElement
    <3>3. Cardinality(r.legs) + 1 <= Parts
      BY <1>5, <3>1, PosPaymentConstants
    <3>4. \A a, b \in Nat : a < Parts /\ a + 1 <= Parts /\ b \in {a, a + 1} => b <= Parts
      BY PosPaymentConstants
    <3> HIDE DEF r, new
    <3>5. Cardinality(r.legs \cup {new}) \in Nat
      BY <3>1, <3>2
    <3> QED BY <1>5, <3>1, <3>2, <3>3, <3>4, <3>5
  <2>3. /\ more \in Row /\ more.cart = r.cart /\ more.legs = r.legs \cup {new} /\ more.pay = r.pay
        /\ more.invoice = r.invoice /\ more.settled = r.settled /\ more.state = r.state
        /\ more.split = r.split
    BY <1>1, <1>2 DEF Row
  <2> HIDE DEF more, r, new
  <2>4. RowOK(more)
    BY <1>2, <2>1, <2>2, <2>3 DEF RowOK
  <2>5. OnTheWay(q.order, more)
    BY <1>5, <2>1, <2>3, <2>4 DEF OnTheWay, r
  <2> QED BY <1>1, <1>5, <2>3, <2>5, RefreshedOnTheWay
<1>6. CASE /\ r.split = "open" /\ Cardinality(r.legs) < Parts /\ ~Blocked(q.order)
           /\ e = Writes(q.order, next) \/ e \in Finalize(q.order, next)
  <2> HIDE DEF next
  <2>1. OnTheWay(q.order, next) /\ RowMoves(q.order, next) /\ RowOK(next)
    BY <1>5, <1>6 DEF OnTheWay
  <2> QED BY <1>1, <1>6, <2>1, WriteServed, FinalizeServed
<1>7. \/ e \in Refused \/ e \in {Writes(o, ord[o]) : o \in owner}
      \/ /\ r.split = "open" /\ Cardinality(r.legs) < Parts /\ ~Blocked(q.order)
         /\ e = Writes(q.order, next) \/ e \in Finalize(q.order, next)
  <2>1. Cardinality(r.legs) \in Nat
    BY <1>2, FS_CardinalityType DEF RowOK
  <2>2. ~(Cardinality(r.legs) >= Parts) => Cardinality(r.legs) < Parts
    BY <2>1, PosPaymentConstants
  <2>3. e \in IF owner # {} THEN {Writes(o, ord[o]) : o \in owner}
              ELSE IF r.split # "open" \/ Cardinality(r.legs) >= Parts \/ Blocked(q.order)
              THEN Refused
              ELSE IF Cardinality(next.legs) < Parts THEN {Writes(q.order, next)}
              ELSE Finalize(q.order, next)
    BY DEF AddLeg
  <2> HIDE DEF r, next, owner
  <2> QED BY <2>2, <2>3
<1> QED BY <1>3, <1>4, <1>6, <1>7

LEMMA AcceptReducedServed ==
    ASSUME ServerOK, ClockOK, NEW q, CallOK(q), q.op # "idle", q.at = "reduce", NEW e \in AcceptReduced(q)
    PROVE  Served(q, e)
<1> DEFINE r == ord[q.order]
           x == Later(r.exp)
           n == [r EXCEPT !.exp = x, !.held = TRUE]
<1>1. q.order \in Order
  BY PosPaymentConstants DEF CallOK, GatewayCall, Order
<1>2. RowOK(r) /\ r \in Row
  BY <1>1 DEF ServerOK
<1>3. CASE e \in Refused
  BY <1>3, SaysServed DEF Refused
<1>4. CASE r.split \in {"open", "failed"} /\ ~Blocked(q.order) /\ e \in Finalize(q.order, Refreshed(n))
  <2>1. r.cart # 0
    BY <1>2, <1>4 DEF RowOK
  <2>2. x \in 0 .. MaxTime
    BY <1>2, DeadlineTyped DEF Row
  <2> HIDE DEF x
  <2>3. /\ n \in Row /\ n.cart = r.cart /\ n.legs = r.legs /\ n.pay = r.pay /\ n.invoice = r.invoice
        /\ n.settled = r.settled /\ n.state = r.state
    BY <1>2, <2>2 DEF Row
  <2> HIDE DEF n
  <2>4. RowOK(n)
    BY <1>2, <2>1, <2>3, SameParts DEF RowOK
  <2>5. OnTheWay(q.order, n)
    BY <1>4, <2>1, <2>3, <2>4 DEF OnTheWay
  <2> QED BY <1>1, <1>4, <2>5, RefreshedOnTheWay, FinalizeServed
<1> QED BY <1>3, <1>4 DEF AcceptReduced

LEMMA RetrySessionServed ==
    ASSUME ServerOK, ClockOK, NEW q, CallOK(q), q.op # "idle", q.at = "retry", NEW e \in RetrySession(q)
    PROVE  Served(q, e)
<1> DEFINE r == ord[q.order]
<1>1. q.order \in Order
  BY PosPaymentConstants DEF CallOK, GatewayCall, Order
<1>2. RowOK(r)
  BY <1>1 DEF ServerOK
<1>3. CASE e \in Refused
  BY <1>3, SaysServed DEF Refused
<1>4. CASE r.split = "failed" /\ ~Blocked(q.order) /\ e \in Finalize(q.order, Refreshed(r))
  <2>1. OnTheWay(q.order, r)
    BY <1>2, <1>4 DEF OnTheWay, RowOK
  <2> QED BY <1>1, <1>4, <2>1, RefreshedOnTheWay, FinalizeServed
<1> QED BY <1>3, <1>4 DEF RetrySession

LEMMA CancelSessionServed ==
    ASSUME ServerOK, ClockOK, NEW q, CallOK(q), q.op # "idle", q.at = "cancelSplit", NEW e \in CancelSession(q)
    PROVE  Served(q, e)
<1> DEFINE r == ord[q.order]
           f == Refreshed(r)
           m == Release(f, "cancelled")
           n == [m EXCEPT !.split = "cancelled"]
<1>1. q.order \in Order
  BY PosPaymentConstants DEF CallOK, GatewayCall, Order
<1>2. RowOK(r)
  BY <1>1 DEF ServerOK
<1>3. CASE e \in Refused
  BY <1>3, SaysServed DEF Refused
<1>4. CASE r.split # "none" /\ e = Writes(q.order, n)
  <2>1. r.cart # 0
    BY <1>2, <1>4 DEF RowOK
  <2>2. /\ RowOK(f) /\ f.cart = r.cart /\ f.invoice = r.invoice /\ f.settled = r.settled
        /\ r.settled => f.state \notin Closed
    BY <1>2, <2>1, RefreshedOK
  <2> HIDE DEF f
  <2>3. /\ RowOK(m) /\ m.cart = r.cart /\ m.invoice = r.invoice /\ m.settled = r.settled
        /\ r.settled => m = f
        /\ ~r.settled => RowStage(m) = "closed"
    BY <2>1, <2>2, ReleaseOK DEF Closed
  <2> HIDE DEF m
  <2>4. m \in Row /\ "cancelled" \in SplitState
    BY <2>3 DEF RowOK, SplitState
  <2>5. /\ n \in Row /\ n.cart = m.cart /\ n.legs = m.legs /\ n.pay = m.pay /\ n.invoice = m.invoice
        /\ n.settled = m.settled /\ n.state = m.state
    BY <2>4 DEF Row
  <2> HIDE DEF n
  <2>6. RowOK(n)
    BY <2>1, <2>3, <2>5, SameParts DEF RowOK
  <2>7. RowMoves(q.order, n)
    <3>1. r.state # "none" /\ n.state # "none" /\ (r.invoice => r.settled) /\ (r.settled => r.state \notin Closed)
      BY <1>2, <2>1, <2>3, <2>5, <2>6 DEF RowOK
    <3>2. r.settled => n.state \notin Closed
      BY <2>2, <2>3, <2>5
    <3>3. ~r.settled => RowStage(n) = "closed"
      BY <2>3, <2>5 DEF RowStage
    <3> QED BY <2>3, <2>5, <3>1, <3>2, <3>3 DEF RowMoves, RowStage
  <2> QED BY <1>1, <1>4, <2>6, <2>7, WriteServed
<1> QED BY <1>3, <1>4 DEF CancelSession

LEMMA RepairServed ==
    ASSUME ServerOK, ClockOK, NEW q, CallOK(q), q.op # "idle", q.at = "repair", NEW e \in Repair(q)
    PROVE  Served(q, e)
<1> DEFINE r == ord[q.order]
           x == Deadline(TTL)
           m == [r EXCEPT !.exp = x]
           n == Posted(m)
<1>1. q.order \in Order
  BY PosPaymentConstants DEF CallOK, GatewayCall, Order
<1>2. RowOK(r) /\ r \in Row
  BY <1>1 DEF ServerOK
<1>3. CASE e \in Refused
  BY <1>3, SaysServed DEF Refused
<1>4. CASE /\ r.state = "allocation_pending" /\ r.settled /\ ~r.invoice /\ r.cart \notin sold
           /\ e = Writes(q.order, n)
  <2>1. r.cart # 0
    BY <1>2, <1>4 DEF RowOK
  <2>2. x \in 0 .. MaxTime
    BY DeadlineTyped DEF TTL
  <2> HIDE DEF x
  <2>3. m \in Row /\ m.cart = r.cart /\ m.legs = r.legs /\ m.pay = r.pay
    BY <1>2, <2>2 DEF Row
  <2> HIDE DEF m
  <2>4. /\ n \in Row /\ n.cart = r.cart /\ n.legs = r.legs /\ n.pay = r.pay /\ n.invoice = TRUE
        /\ n.settled = TRUE /\ n.state = "paid"
    BY <2>3 DEF Posted, Row, OrderState
  <2> HIDE DEF n
  <2>5. RowOK(n)
    BY <1>2, <2>1, <2>4, SameParts DEF Closed
  <2>6. RowMoves(q.order, n)
    BY <1>4, <2>4 DEF RowMoves, RowStage, Blocked, Closed
  <2> QED BY <1>1, <1>4, <2>5, <2>6, WriteServed
<1> QED BY <1>3, <1>4 DEF Repair

\* Every request.
LEMMA EffectsServed ==
    ASSUME ServerOK, Sale!SaleInv, ClockOK, NEW q, CallOK(q), q.op # "idle", NEW e \in Effects(q)
    PROVE  Served(q, e)
<1>1. CASE q.at = "prepare"
  BY <1>1, PrepareServed DEF Effects
<1>2. CASE q.at = "settle"
  BY <1>2, SettleServed DEF Effects
<1>3. CASE q.at = "provider"
  BY <1>3, InitiateServed DEF Effects
<1>4. CASE q.at \in {"cancel", "release"}
  BY <1>4, CancelServed DEF Effects
<1>5. CASE q.at = "account"
  BY <1>5, OnAccountServed DEF Effects
<1>6. CASE q.at = "startSplit"
  BY <1>6, StartSessionServed DEF Effects
<1>7. CASE q.at = "leg"
  BY <1>7, AddLegServed DEF Effects
<1>8. CASE q.at = "reduce"
  BY <1>8, AcceptReducedServed DEF Effects
<1>9. CASE q.at = "retry"
  BY <1>9, RetrySessionServed DEF Effects
<1>10. CASE q.at = "cancelSplit"
  BY <1>10, CancelSessionServed DEF Effects
<1>11. CASE q.at = "repair"
  BY <1>11, RepairServed DEF Effects
<1>12. CASE q.at \notin {"prepare", "settle", "provider", "cancel", "release", "account", "startSplit",
                         "leg", "reduce", "retry", "cancelSplit", "repair"}
  <2>1. q.order \in Order
    BY <1>12, PosPaymentConstants DEF CallOK, GatewayCall, Order
  <2>2. e = Writes(q.order, ord[q.order])
    BY <1>12, <2>1, PosPaymentConstants DEF Effects, Read, Order
  <2>3. RowOK(ord[q.order])
    BY <2>1 DEF ServerOK
  <2> QED BY <1>12, <2>1, <2>2, <2>3, ReadServed
<1> QED BY <1>1, <1>2, <1>3, <1>4, <1>5, <1>6, <1>7, <1>8, <1>9, <1>10, <1>11, <1>12

----------------------------------------------------------------------------
\* Steps.

\* A posted sale stays posted.
SalesStay == sold \subseteq sold' /\ \A o \in Order : ord[o].invoice => ord'[o].invoice

LEMMA TellsStay ==
    ASSUME SalesStay, NEW c, CallOK(c), Tells(c, ord, sold)
    PROVE  Tells(c, ord', sold')
<1>1. c.ans.order \in 0 .. MaxOrders /\ c.order \in 0 .. MaxOrders
  BY DEF CallOK, GatewayCall, Answer
<1>2. (c.ans.order # 0 => c.ans.order \in Order) /\ (c.order # 0 => c.order \in Order)
  BY <1>1, PosPaymentConstants DEF Order
<1> QED BY <1>2 DEF SalesStay, Tells

\* One slot gets call c.
LEMMA SlotSet ==
    ASSUME CallsOK, SalesStay, NEW s \in Slot, NEW c, CallOK(c), Tells(c, ord', sold'),
           call' = [call EXCEPT ![s] = c]
    PROVE  CallsOK'
<1>1. call' \in [Slot -> GatewayCall] /\ call'[s] = c /\ \A w \in Slot \ {s} : call'[w] = call[w]
  BY DEF CallsOK, CallOK
<1>2. \A w \in Slot : CallOK(call'[w]) /\ Tells(call'[w], ord', sold')
  BY <1>1, TellsStay DEF CallsOK
<1>3. ASSUME NEW w \in Slot, CallOK(call'[w]) PROVE CallOK(call[w])'
  BY <1>3 DEF CallOK, CheckoutOK, RowOK, Checkout, Row, GatewayCall, Answer
<1> QED BY <1>1, <1>2, <1>3 DEF CallsOK

\* A step of the register: slot s gets call c, the store becomes r, the server
\* does not notice.
LEMMA RegisterStep ==
    ASSUME PosIInv, UNCHANGED <<late, ord, sold, now, lost>>, key' \in 0 .. MaxKeys,
           NEW s \in Slot, NEW c, CallOK(c), Tells(c, ord, sold), call' = [call EXCEPT ![s] = c],
           NEW r, RegisterOK(r), r.receipt \in {0, reg.receipt} \cup sold, reg' = r
    PROVE  PosIInv'
<1>1. ServerOK' /\ ClockOK' /\ LateOK'
  BY DEF PosIInv, ServerOK, ClockOK, LateOK, RowOK, CallOK, CheckoutOK, Row, Checkout, GatewayCall, Answer
<1>2. CallsOK'
  BY SlotSet DEF PosIInv, SalesStay
<1>3. RegisterOK(reg)' /\ ReceiptIsPosted'
  BY DEF PosIInv, RegisterOK, Register, CheckoutOK, Checkout, RequestKeys, SplitView, ReceiptIsPosted
<1> QED BY <1>1, <1>2, <1>3 DEF PosIInv

\* The same without a call.
LEMMA StoreStep ==
    ASSUME PosIInv, UNCHANGED <<call, late, ord, sold, now, lost, key>>,
           NEW r, RegisterOK(r), r.receipt \in {0, reg.receipt} \cup sold, reg' = r
    PROVE  PosIInv'
<1>1. ServerOK' /\ ClockOK' /\ LateOK'
  BY DEF PosIInv, ServerOK, ClockOK, LateOK, RowOK, CallOK, CheckoutOK, Row, Checkout, GatewayCall, Answer
<1>2. CallsOK'
  BY DEF PosIInv, CallsOK, Tells, RowOK, CallOK, CheckoutOK, Row, Checkout, GatewayCall, Answer
<1>3. RegisterOK(reg)' /\ ReceiptIsPosted'
  BY DEF PosIInv, RegisterOK, Register, CheckoutOK, Checkout, RequestKeys, SplitView, ReceiptIsPosted
<1> QED BY <1>1, <1>2, <1>3 DEF PosIInv

\* A step of the server that the register does not notice.
LEMMA ServerStep ==
    ASSUME PosIInv, ServerOK', SalesStay, ClockOK', LateOK', UNCHANGED <<reg, call>>
    PROVE  PosIInv'
<1>1. \A s \in Slot : Tells(call[s], ord', sold')
  BY TellsStay DEF PosIInv, CallsOK
<1>2. CallsOK'
  BY <1>1 DEF PosIInv, CallsOK, Tells, RowOK, CallOK, CheckoutOK, Row, Checkout, GatewayCall, Answer
<1>3. RegisterOK(reg)' /\ ReceiptIsPosted'
  BY DEF PosIInv, RegisterOK, Register, CheckoutOK, Checkout, RequestKeys, SplitView, ReceiptIsPosted,
         SalesStay
<1> QED BY <1>2, <1>3 DEF PosIInv

\* A call that waits tells nothing yet.
LEMMA FreshCall ==
    ASSUME NEW c \in GatewayCall, CheckoutOK(c.co), c.ans = Waiting, c.at # "receipt",
           c.op # "idle", c.order # 0 \/ (c.op = "begin" /\ c.at = "prepare"),
           c.op \in {"begin", "manual", "provider"} => c.cart # 0,
           c.at = "prepare" => c.op \in {"begin", "manual", "provider"},
           c.at = "settle" => c.op = "manual",
           c.op = "manual" => c.req # 0 /\ c.key # 0
    PROVE  CallOK(c) /\ Tells(c, ord, sold)
<1>1. Waiting.kind = "wait"
  BY DEF Waiting
<1> QED BY <1>1, EmptyRecords DEF CallOK, Tells

\* The operations and requests that begin with what the register shows.
AwaitOps == {"begin", "manual", "provider", "account", "split", "stop", "back", "resolve",
             "poll", "timer"}
AwaitAts == {"prepare", "status", "cancel", "startSplit", "leg", "reduce", "cancelSplit",
             "release", "repair", "retry"}

\* What Await captures.
LEMMA AwaitTyped ==
    ASSUME RegisterOK(reg),
           NEW op \in AwaitOps, NEW at \in AwaitAts
    PROVE  /\ Await(op, at) \in GatewayCall /\ CheckoutOK(Await(op, at).co)
           /\ Await(op, at).op = op /\ Await(op, at).at = at /\ Await(op, at).ans = Waiting
           /\ Await(op, at).order = reg.checkout.order /\ Await(op, at).cart = reg.cart
           /\ Await(op, at).req = reg.keys.req
<1> DEFINE c == Await(op, at)
<1>1. NoCall \in GatewayCall /\ NoCall.ans = Waiting
  BY EmptyRecords DEF CallOK, NoCall
<1>2. /\ reg.checkout \in Checkout /\ CheckoutOK(reg.checkout) /\ reg.checkout.order \in 0 .. MaxOrders
      /\ reg.cart \in 0 .. MaxCarts /\ reg.keys.req \in 0 .. MaxKeys
  BY DEF RegisterOK, Register, CheckoutOK, Checkout, RequestKeys
<1> USE DEF AwaitOps, AwaitAts
<1>3. /\ c \in GatewayCall /\ c.co = reg.checkout
      /\ c.op = op /\ c.at = at /\ c.ans = Waiting /\ c.order = reg.checkout.order
      /\ c.cart = reg.cart /\ c.req = reg.keys.req
  <2>1. c.co = reg.checkout /\ c.order = reg.checkout.order /\ c.cart = reg.cart /\ c.req = reg.keys.req
    BY <1>1 DEF Await, GatewayCall
  <2>2. c.op = op /\ c.at = at /\ c.ans = Waiting
    BY <1>1 DEF Await, GatewayCall
  <2>3. c \in GatewayCall
    BY <1>1, <1>2 DEF Await, GatewayCall
  <2> QED BY <2>1, <2>2, <2>3
<1> QED BY <1>2, <1>3

\* New states of the store.
LEMMA StoreStates ==
    ASSUME RegisterOK(reg)
    PROVE  /\ \A co : CheckoutOK(co) => RegisterOK(SetCheckout(co)) /\ SetCheckout(co).receipt = reg.receipt
           /\ RegisterOK(ExpireCheckout) /\ ExpireCheckout.receipt = reg.receipt
           /\ \A c \in 0 .. MaxCarts, b \in BOOLEAN :
                 RegisterOK(FinishSale(c, b)) /\ FinishSale(c, b).receipt \in {0, c}
           /\ LET dropped == [reg EXCEPT !.checkout = NoCheckout, !.keys = NoKeys]
              IN RegisterOK(dropped) /\ dropped.receipt = reg.receipt
<1>1. NoCheckout \in Checkout
  BY EmptyRecords DEF CheckoutOK
<1>2. ASSUME NEW co, CheckoutOK(co)
      PROVE  RegisterOK(SetCheckout(co)) /\ SetCheckout(co).receipt = reg.receipt
  <2> DEFINE n == SetCheckout(co)
  <2>1. /\ n \in Register /\ n.checkout = co /\ n.keys = reg.keys /\ n.split = reg.split
        /\ n.receipt = reg.receipt
    BY <1>2 DEF SetCheckout, RegisterOK, Register, CheckoutOK
  <2> QED BY <1>2, <2>1 DEF RegisterOK
<1>3. RegisterOK(ExpireCheckout) /\ ExpireCheckout.receipt = reg.receipt
  <2> DEFINE n == ExpireCheckout
  <2>1. /\ n \in Register /\ n.checkout = NoCheckout /\ n.keys = NoKeys /\ n.split = NoSplit
        /\ n.receipt = reg.receipt
    BY <1>1, EmptyRecords DEF ExpireCheckout, RegisterOK, Register
  <2> QED BY <2>1, EmptyRecords DEF RegisterOK
<1>4. ASSUME NEW c \in 0 .. MaxCarts, NEW b \in BOOLEAN
      PROVE  RegisterOK(FinishSale(c, b)) /\ FinishSale(c, b).receipt \in {0, c}
  <2> DEFINE n == FinishSale(c, b)
  <2>1. /\ n \in Register /\ n.checkout = NoCheckout /\ n.keys = NoKeys /\ n.split = NoSplit
        /\ n.receipt \in {0, c}
    <3>1. (IF b THEN c ELSE 0) \in 0 .. MaxCarts /\ 0 \in 0 .. MaxCarts /\ 0 \in 0 .. MaxKeys
      BY PosPaymentConstants
    <3>2. reg \in Register /\ reg.part + 1 \in Nat
      BY DEF RegisterOK, Register
    <3>3. n \in Register
      BY <1>1, <3>1, <3>2, EmptyRecords DEF FinishSale, Register
    <3>4. n.checkout = NoCheckout /\ n.keys = NoKeys /\ n.split = NoSplit /\ n.receipt \in {0, c}
      BY <3>2 DEF FinishSale, Register
    <3> QED BY <3>3, <3>4
  <2> QED BY <2>1, EmptyRecords DEF RegisterOK
<1>5. LET dropped == [reg EXCEPT !.checkout = NoCheckout, !.keys = NoKeys]
      IN RegisterOK(dropped) /\ dropped.receipt = reg.receipt
  <2> DEFINE n == [reg EXCEPT !.checkout = NoCheckout, !.keys = NoKeys]
  <2>1. /\ n \in Register /\ n.checkout = NoCheckout /\ n.keys = NoKeys /\ n.split = reg.split
        /\ n.receipt = reg.receipt
    BY <1>1, EmptyRecords DEF RegisterOK, Register
  <2> QED BY <2>1, EmptyRecords DEF RegisterOK
<1> QED BY <1>2, <1>3, <1>4, <1>5

----------------------------------------------------------------------------
\* What the operator, the interval and the timer start.

\* A request about the order on the register.
LEMMA SentStep ==
    ASSUME PosIInv, UNCHANGED <<reg, key, Quiet>>, NEW s \in Slot, reg.checkout.order # 0,
           NEW op \in {"account", "split", "stop", "back", "resolve", "poll", "timer"},
           NEW at \in {"status", "cancel", "startSplit", "release", "repair", "retry", "cancelSplit"},
           Send(s, Await(op, at))
    PROVE  PosIInv'
<1> DEFINE c == Await(op, at)
<1>1. /\ c \in GatewayCall /\ CheckoutOK(c.co) /\ c.op = op /\ c.at = at
      /\ c.ans = Waiting /\ c.order = reg.checkout.order
  <2>1. op \in AwaitOps /\ at \in AwaitAts /\ RegisterOK(reg)
    BY DEF AwaitOps, AwaitAts, PosIInv
  <2> QED BY <2>1, AwaitTyped
<1>2. call' = [call EXCEPT ![s] = c]
  BY DEF Send
<1> HIDE DEF c
<1>3. CallOK(c) /\ Tells(c, ord, sold)
  BY <1>1, FreshCall
<1>4. UNCHANGED <<late, ord, sold, now, lost>> /\ key' \in 0 .. MaxKeys /\ reg' = reg
  BY DEF Quiet, server, PosIInv, ClockOK
<1> QED BY <1>2, <1>3, <1>4, RegisterStep DEF PosIInv

\* What a request about the split on the panel captures.
LEMMA SplitCallTyped ==
    ASSUME RegisterOK(reg), SplitShown,
           NEW op \in {"split", "stop"}, NEW at \in {"leg", "reduce", "cancelSplit"}
    PROVE  /\ SplitCall(op, at) \in GatewayCall /\ CheckoutOK(SplitCall(op, at).co)
           /\ SplitCall(op, at).op = op /\ SplitCall(op, at).at = at
           /\ SplitCall(op, at).ans = Waiting /\ SplitCall(op, at).order # 0
<1> DEFINE a == Await(op, at)
           b == SplitCall(op, at)
<1>1. reg.split.order \in 0 .. MaxOrders /\ reg.split.order # 0
  BY DEF SplitShown, RegisterOK, Register, SplitView
<1>2. a \in GatewayCall /\ CheckoutOK(a.co) /\ a.op = op /\ a.at = at /\ a.ans = Waiting
  <2>1. op \in AwaitOps /\ at \in AwaitAts
    BY DEF AwaitOps, AwaitAts
  <2> QED BY <2>1, AwaitTyped
<1>3. b = [a EXCEPT !.order = reg.split.order]
  BY DEF SplitCall
<1> HIDE DEF a, b
<1>4. b \in GatewayCall
  BY <1>1, <1>2, <1>3 DEF GatewayCall
<1>5. b.co = a.co /\ b.op = op /\ b.at = at /\ b.ans = Waiting /\ b.order = reg.split.order
  BY <1>2, <1>3 DEF GatewayCall
<1>6. b \in GatewayCall /\ CheckoutOK(b.co) /\ b.op = op /\ b.at = at /\ b.ans = Waiting /\ b.order # 0
  BY <1>1, <1>2, <1>4, <1>5
<1> QED BY <1>6 DEF b

\* Such a request is sent.
LEMMA SplitSentStep ==
    ASSUME PosIInv, UNCHANGED Quiet, NEW s \in Slot, NEW c \in GatewayCall, CheckoutOK(c.co),
           c.op \in {"split", "stop"}, c.at \in {"leg", "reduce", "cancelSplit"},
           c.ans = Waiting, c.order # 0,
           Send(s, c), key' \in 0 .. MaxKeys, RegisterOK(reg'), reg'.receipt = reg.receipt
    PROVE  PosIInv'
<1>1. CallOK(c) /\ Tells(c, ord, sold)
  BY FreshCall
<1>2. UNCHANGED <<late, ord, sold, now, lost>> /\ call' = [call EXCEPT ![s] = c]
  BY DEF Quiet, server, Send
<1>3. PICK r : r = reg'
  OBVIOUS
<1> QED BY <1>1, <1>2, <1>3, RegisterStep

LEMMA OperatorStep == PosIInv /\ Operator => PosIInv'
<1> SUFFICES ASSUME PosIInv, Operator PROVE PosIInv'
  OBVIOUS
<1>0. /\ RegisterOK(reg) /\ reg \in Register /\ key \in 0 .. MaxKeys
      /\ "pay" \in Slot /\ "back" \in Slot
  BY DEF PosIInv, RegisterOK, ClockOK, Slot
<1>1. ASSUME NewSale PROVE PosIInv'
  <2> DEFINE n == [reg EXCEPT !.cart = reg.opened + 1, !.opened = @ + 1]
  <2>1. reg.opened + 1 \in 0 .. MaxCarts
    BY <1>0, <1>1, PosPaymentConstants DEF NewSale, Register
  <2>2. /\ n \in Register /\ n.checkout = reg.checkout /\ n.keys = reg.keys /\ n.split = reg.split
        /\ n.receipt = reg.receipt
    BY <1>0, <2>1 DEF Register
  <2>3. reg' = n /\ UNCHANGED <<call, late, ord, sold, now, lost, key>>
    BY <1>1 DEF NewSale, server
  <2> HIDE DEF n
  <2>4. RegisterOK(n)
    BY <1>0, <2>2 DEF RegisterOK
  <2> QED BY <2>2, <2>3, <2>4, StoreStep
<1>2. ASSUME CloseReceipt PROVE PosIInv'
  <2> DEFINE n == [reg EXCEPT !.receipt = 0]
  <2>1. /\ n \in Register /\ n.checkout = reg.checkout /\ n.keys = reg.keys /\ n.split = reg.split
        /\ n.receipt = 0
    BY <1>0, PosPaymentConstants DEF Register
  <2>2. reg' = n /\ UNCHANGED <<call, late, ord, sold, now, lost, key>>
    BY <1>2 DEF CloseReceipt, server
  <2> HIDE DEF n
  <2>3. RegisterOK(n)
    BY <1>0, <2>1 DEF RegisterOK
  <2> QED BY <2>1, <2>2, <2>3, StoreStep
<1>3. ASSUME BeginCheckout PROVE PosIInv'
  <2> DEFINE a == Await("begin", "prepare")
             k == [cart |-> reg.cart, req |-> key + 1, pay |-> key + 2]
             c == [a EXCEPT !.req = k.req]
             n == [reg EXCEPT !.keys = k]
  <2>1. /\ a \in GatewayCall /\ CheckoutOK(a.co) /\ a.op = "begin" /\ a.at = "prepare"
        /\ a.ans = Waiting /\ a.cart = reg.cart /\ reg.cart # 0
    <3>1. "begin" \in AwaitOps /\ "prepare" \in AwaitAts /\ reg.cart # 0
      BY <1>3 DEF AwaitOps, AwaitAts, BeginCheckout
    <3> QED BY <1>0, <3>1, AwaitTyped
  <2>2. UNCHANGED <<late, ord, sold, now, lost>>
    BY <1>3 DEF BeginCheckout, Quiet, server
  <2>3. CASE reg.keys.cart = reg.cart
    <3>1. reg' = reg /\ key' = key /\ call' = [call EXCEPT !["pay"] = a]
      BY <1>3, <2>3 DEF BeginCheckout, Send
    <3> HIDE DEF a
    <3>2. CallOK(a) /\ Tells(a, ord, sold)
      BY <2>1, FreshCall
    <3> QED BY <1>0, <2>2, <3>1, <3>2, RegisterStep
  <2>4. CASE reg.keys.cart # reg.cart
    <3>1. /\ key + 2 <= MaxKeys /\ key' = key + 2 /\ reg' = n /\ call' = [call EXCEPT !["pay"] = c]
      BY <1>3, <2>4 DEF BeginCheckout, Send
    <3>2. key + 1 \in 0 .. MaxKeys /\ key + 2 \in 0 .. MaxKeys /\ key + 1 # 0 /\ key + 2 # 0
      BY <1>0, <3>1, PosPaymentConstants
    <3>3. k \in RequestKeys /\ k.req # 0 /\ k.pay # 0 /\ k.req \in 0 .. MaxKeys
      BY <1>0, <3>2 DEF RequestKeys, Register
    <3> HIDE DEF a, k
    <3>4. /\ c \in GatewayCall /\ c.co = a.co /\ c.op = "begin" /\ c.at = "prepare"
          /\ c.ans = Waiting /\ c.cart = reg.cart
      BY <2>1, <3>3 DEF GatewayCall
    <3>5. /\ n \in Register /\ n.checkout = reg.checkout /\ n.keys = k /\ n.split = reg.split
          /\ n.receipt = reg.receipt
      BY <1>0, <3>3 DEF Register
    <3> HIDE DEF c, n
    <3>6. CallOK(c) /\ Tells(c, ord, sold)
      BY <2>1, <3>4, FreshCall
    <3>7. RegisterOK(n)
      BY <1>0, <3>3, <3>5 DEF RegisterOK
    <3> QED BY <1>0, <2>2, <3>1, <3>2, <3>5, <3>6, <3>7, RegisterStep
  <2> QED BY <2>3, <2>4
<1>4. ASSUME NEW op \in {"manual", "provider"}, Pay(op) PROVE PosIInv'
  <2> DEFINE a == Await(op, "prepare")
             c == [a EXCEPT !.cart = reg.checkout.cart, !.key = reg.keys.pay]
  <2>1. /\ a \in GatewayCall /\ CheckoutOK(a.co) /\ a.op = op /\ a.at = "prepare"
        /\ a.ans = Waiting /\ a.order = reg.checkout.order /\ a.req = reg.keys.req
    <3>1. op \in AwaitOps /\ "prepare" \in AwaitAts
      BY DEF AwaitOps, AwaitAts
    <3> QED BY <1>0, <3>1, AwaitTyped
  <2>2. reg.checkout.order # 0 /\ reg.keys # NoKeys
    BY <1>4 DEF Pay, Choosing
  <2>3. /\ reg.keys.req # 0 /\ reg.keys.pay # 0 /\ reg.checkout.cart # 0
        /\ reg.keys.pay \in 0 .. MaxKeys /\ reg.checkout.cart \in 0 .. MaxCarts
    BY <1>0, <2>2 DEF RegisterOK, CheckoutOK, Register, RequestKeys, Checkout
  <2>4. /\ UNCHANGED <<late, ord, sold, now, lost>> /\ reg' = reg /\ key' = key
        /\ call' = [call EXCEPT !["pay"] = c]
    BY <1>4 DEF Pay, Send, Quiet, server
  <2> HIDE DEF a
  <2>5. /\ c \in GatewayCall /\ c.co = a.co /\ c.op = op /\ c.at = "prepare" /\ c.ans = Waiting
        /\ c.order = reg.checkout.order /\ c.cart = reg.checkout.cart
        /\ c.req = reg.keys.req /\ c.key = reg.keys.pay
    BY <2>1, <2>3 DEF GatewayCall
  <2> HIDE DEF c
  <2>6. CallOK(c) /\ Tells(c, ord, sold)
    BY <2>1, <2>2, <2>3, <2>5, FreshCall
  <2> QED BY <1>0, <2>4, <2>6, RegisterStep
<1>5. ASSUME PayOnAccount PROVE PosIInv'
  BY <1>0, <1>5, SentStep DEF PayOnAccount, Choosing
<1>6. ASSUME StartSplit PROVE PosIInv'
  BY <1>0, <1>6, SentStep DEF StartSplit, Choosing
<1>7. ASSUME AddSplitPart PROVE PosIInv'
  <2> DEFINE k == IF reg.legKey # 0 THEN reg.legKey ELSE key + 1
             n == [reg EXCEPT !.legKey = k]
             b == SplitCall("split", "leg")
             c == [b EXCEPT !.key = k, !.part = reg.part]
  <2>1. k \in 0 .. MaxKeys /\ reg.part \in Nat
    BY <1>0, <1>7, PosPaymentConstants DEF AddSplitPart, Register
  <2>2. key' \in {key, k} /\ reg' = n /\ SplitShown /\ UNCHANGED Quiet /\ Send("pay", c)
    BY <1>7 DEF AddSplitPart
  <2>3. /\ b \in GatewayCall /\ CheckoutOK(b.co) /\ b.op = "split" /\ b.at = "leg"
        /\ b.ans = Waiting /\ b.order # 0
    BY <1>0, <2>2, SplitCallTyped
  <2> HIDE DEF k, b
  <2>4. c \in GatewayCall
    BY <2>1, <2>3 DEF GatewayCall
  <2>5. c.co = b.co /\ c.op = "split" /\ c.at = "leg" /\ c.ans = Waiting /\ c.order = b.order
    BY <2>1, <2>3 DEF GatewayCall
  <2>6. /\ n \in Register /\ n.checkout = reg.checkout /\ n.keys = reg.keys /\ n.split = reg.split
        /\ n.receipt = reg.receipt
    BY <1>0, <2>1 DEF Register
  <2> HIDE DEF c, n
  <2>7. RegisterOK(reg') /\ reg'.receipt = reg.receipt /\ key' \in 0 .. MaxKeys
    BY <1>0, <2>1, <2>2, <2>6 DEF RegisterOK
  <2> QED BY <1>0, <2>2, <2>3, <2>4, <2>5, <2>7, SplitSentStep
<1>8. ASSUME ReduceBasket PROVE PosIInv'
  <2> DEFINE c == SplitCall("split", "reduce")
  <2>1. UNCHANGED Quiet /\ SplitShown /\ Send("pay", c) /\ key' \in 0 .. MaxKeys /\ reg' = reg
    BY <1>0, <1>8 DEF ReduceBasket
  <2>2. /\ c \in GatewayCall /\ CheckoutOK(c.co) /\ c.op = "split" /\ c.at = "reduce"
        /\ c.ans = Waiting /\ c.order # 0
    BY <1>0, <2>1, SplitCallTyped
  <2> HIDE DEF c
  <2> QED BY <1>0, <2>1, <2>2, SplitSentStep
<1>9. ASSUME NEW s \in Slot, CancelSplit(s) PROVE PosIInv'
  <2> DEFINE c == SplitCall("stop", "cancelSplit")
  <2>1. UNCHANGED Quiet /\ SplitShown /\ Send(s, c) /\ key' \in 0 .. MaxKeys /\ reg' = reg
    BY <1>0, <1>9 DEF CancelSplit
  <2>2. /\ c \in GatewayCall /\ CheckoutOK(c.co) /\ c.op = "stop" /\ c.at = "cancelSplit"
        /\ c.ans = Waiting /\ c.order # 0
    BY <1>0, <2>1, SplitCallTyped
  <2> HIDE DEF c
  <2> QED BY <1>0, <2>1, <2>2, SplitSentStep
<1>10. ASSUME CancelCheckout PROVE PosIInv'
  BY <1>0, <1>10, SentStep DEF CancelCheckout, Choosing
<1>11. ASSUME NEW at \in {"release", "repair", "retry", "cancelSplit"}, Resolve(at) PROVE PosIInv'
  <2>1. PICK op \in {"split", "resolve"} : Send("pay", Await(op, at))
    BY <1>11 DEF Resolve
  <2>2. UNCHANGED <<reg, key, Quiet>> /\ reg.checkout.order # 0
    BY <1>11 DEF Resolve
  <2> QED BY <1>0, <2>1, <2>2, SentStep
<1> QED
  BY <1>1, <1>2, <1>3, <1>4, <1>5, <1>6, <1>7, <1>8, <1>9, <1>10, <1>11 DEF Operator

\* The interval and the timer.
LEMMA WatchStep == ASSUME PosIInv, NEW w \in Watches, Poll(w) \/ ExpiryTimer(w) PROVE PosIInv'
<1>1. w \in Slot
  BY DEF Slot
<1>2. CASE Poll(w)
  BY <1>1, <1>2, SentStep DEF Poll
<1>3. CASE ExpiryTimer(w)
  BY <1>1, <1>3, SentStep DEF ExpiryTimer
<1> QED BY <1>2, <1>3

----------------------------------------------------------------------------
\* Serving and losing.

\* The answer of slot s's call changes, with what it tells.
LEMMA AnsweredCall ==
    ASSUME NEW c, CallOK(c), NEW a \in Answer, RowOK(a.row)
    PROVE  LET n == [c EXCEPT !.ans = a]
           IN /\ CallOK(n) /\ n.ans = a /\ n.op = c.op /\ n.at = c.at /\ n.order = c.order
              /\ n.cart = c.cart
<1> DEFINE n == [c EXCEPT !.ans = a]
<1>1. c \in GatewayCall
  BY DEF CallOK
<1>2. n \in GatewayCall
  BY <1>1 DEF GatewayCall
<1>3. /\ n.ans = a /\ n.op = c.op /\ n.at = c.at /\ n.co = c.co /\ n.order = c.order /\ n.cart = c.cart
      /\ n.req = c.req /\ n.key = c.key
  BY <1>1 DEF GatewayCall
<1> HIDE DEF n
<1>4. CallOK(n)
  BY <1>2, <1>3 DEF CallOK
<1> QED BY <1>3, <1>4 DEF n

LEMMA ServedServer ==
    ASSUME PosIInv, NEW q, NEW e, Served(q, e), ord' = e.ord, sold' = e.sold
    PROVE  ServerOK' /\ SalesStay
<1>1. SalesStay
  BY DEF Served, SalesStay
<1>2. ServerOK'
  BY DEF Served, ServerOK, RowOK, Row
<1> QED BY <1>1, <1>2

LEMMA ServeStep ==
    ASSUME PosIInv, Sale!SaleInv, NEW s \in Slot, Serve(s)
    PROVE  PosIInv' /\ SaleNext
<1>1. PICK e \in Effects(call[s]) :
        ord' = e.ord /\ sold' = e.sold /\ call' = [call EXCEPT ![s] = [call[s] EXCEPT !.ans = e.ans]]
  BY DEF Serve
<1>2. /\ CallOK(call[s]) /\ call[s].op # "idle" /\ call[s].ans = Waiting
      /\ Tells(call[s], ord, sold) /\ UNCHANGED <<reg, late, now, lost, key>>
  BY DEF PosIInv, CallsOK, Serve, Idle
<1>3. Served(call[s], e)
  BY <1>2, EffectsServed DEF PosIInv
<1>4. ServerOK' /\ SalesStay
  BY <1>1, <1>3, ServedServer
<1> DEFINE c == [call[s] EXCEPT !.ans = e.ans]
<1>5. e.ans \in Answer /\ RowOK(e.ans.row)
  BY <1>3 DEF Served
<1>6. /\ CallOK(c) /\ c.ans = e.ans /\ c.op = call[s].op /\ c.at = call[s].at
      /\ c.order = call[s].order /\ c.cart = call[s].cart
  BY <1>2, <1>5, AnsweredCall
<1>7. call' = [call EXCEPT ![s] = c]
  BY <1>1
<1> HIDE DEF c
<1>8. Tells(call[s], ord', sold')
  BY <1>2, <1>4, TellsStay
<1>9. Tells(c, ord', sold')
  BY <1>1, <1>3, <1>6, <1>8 DEF Tells, Served
<1>10. CallsOK'
  BY <1>4, <1>6, <1>7, <1>9, SlotSet DEF PosIInv
<1>11. ClockOK' /\ LateOK'
  BY <1>2 DEF PosIInv, ClockOK, LateOK, CallOK, CheckoutOK, RowOK, Row, Checkout, GatewayCall, Answer
<1>12. RegisterOK(reg)' /\ ReceiptIsPosted'
  BY <1>2, <1>4 DEF PosIInv, RegisterOK, Register, CheckoutOK, Checkout, RequestKeys, SplitView,
                    ReceiptIsPosted, SalesStay
<1>13. SaleNext
  BY <1>1, <1>3 DEF Served
<1> QED BY <1>4, <1>10, <1>11, <1>12, <1>13 DEF PosIInv

LEMMA LoseStep == ASSUME PosIInv, NEW s \in Slot, Lose(s) PROVE PosIInv'
<1>1. PICK k \in Lossy :
        call' = [call EXCEPT ![s] = [call[s] EXCEPT !.ans = [Waiting EXCEPT !.kind = k]]]
  BY DEF Lose
<1> DEFINE a == [Waiting EXCEPT !.kind = k]
           c == [call[s] EXCEPT !.ans = a]
<1>2. /\ CallOK(call[s]) /\ call[s].op # "idle" /\ Tells(call[s], ord, sold)
      /\ late' \subseteq late \cup {call[s]} /\ lost' = lost + 1
      /\ UNCHANGED <<reg, ord, sold, now, key>>
  BY DEF PosIInv, CallsOK, Lose, Idle, server
<1>3. a \in Answer /\ RowOK(a.row) /\ a.kind = k /\ k # "ok"
  BY EmptyRecords, PosPaymentConstants DEF Answer
<1>4. call' = [call EXCEPT ![s] = c]
  BY <1>1
<1> HIDE DEF a
<1>5. /\ CallOK(c) /\ c.ans = a /\ c.op = call[s].op /\ c.at = call[s].at
      /\ c.order = call[s].order /\ c.cart = call[s].cart
  BY <1>2, <1>3, AnsweredCall
<1> HIDE DEF c
<1>6. Tells(c, ord, sold)
  BY <1>2, <1>3, <1>5 DEF Tells
<1>7. SalesStay
  BY <1>2 DEF SalesStay
<1>8. CallsOK'
  BY <1>2, <1>4, <1>5, <1>6, <1>7, SlotSet DEF PosIInv
<1>9. ServerOK' /\ RegisterOK(reg)' /\ ReceiptIsPosted'
  BY <1>2 DEF PosIInv, ServerOK, RowOK, Row, RegisterOK, Register, CheckoutOK, Checkout, RequestKeys,
              SplitView, ReceiptIsPosted
<1>10. ClockOK'
  BY <1>2 DEF PosIInv, ClockOK
<1>11. \A q \in late' : CallOK(q) /\ q.op # "idle"
  BY <1>2 DEF PosIInv, LateOK
<1>12. LateOK'
  BY <1>11 DEF LateOK, CallOK, CheckoutOK, RowOK, Row, Checkout, GatewayCall, Answer
<1> QED BY <1>8, <1>9, <1>10, <1>12 DEF PosIInv

LEMMA ServeLateStep ==
    ASSUME PosIInv, Sale!SaleInv, NEW q \in late, ServeLate(q)
    PROVE  PosIInv' /\ SaleNext
<1>1. PICK e \in Effects(q) : ord' = e.ord /\ sold' = e.sold
  BY DEF ServeLate
<1>2. CallOK(q) /\ q.op # "idle" /\ late' \subseteq late /\ UNCHANGED <<reg, call, now, lost, key>>
  BY DEF PosIInv, LateOK, ServeLate
<1>3. Served(q, e)
  BY <1>2, EffectsServed DEF PosIInv
<1>4. ServerOK' /\ SalesStay
  BY <1>1, <1>3, ServedServer
<1>5. ClockOK' /\ LateOK'
  BY <1>2 DEF PosIInv, ClockOK, LateOK, CallOK, CheckoutOK, RowOK, Row, Checkout, GatewayCall, Answer
<1>6. SaleNext
  BY <1>1, <1>3 DEF Served
<1> QED BY <1>2, <1>4, <1>5, <1>6, ServerStep

----------------------------------------------------------------------------
\* The rest of the world.

\* Row o becomes r, by the rules of CartSale.
LEMMA RowStep ==
    ASSUME PosIInv, UNCHANGED <<reg, call, late, now, lost, key>>, NEW o \in Order, NEW r, RowOK(r),
           RowMoves(o, r), ord' = [ord EXCEPT ![o] = r],
           sold' = sold \cup IF r.invoice THEN {r.cart} ELSE {}
    PROVE  PosIInv' /\ SaleNext
<1>0. SaleNext
  BY RowMovesSale DEF PosIInv
<1>1. ord' \in [Order -> Row] /\ ord'[o] = r /\ \A x \in Order \ {o} : ord'[x] = ord[x]
  BY DEF PosIInv, ServerOK, RowOK
<1>2. ord[o].invoice => r.invoice
  BY DEF RowMoves, RowStage
<1>3. SalesStay
  BY <1>1, <1>2 DEF SalesStay
<1>4. \A x \in Order : RowOK(ord'[x]) /\ (ord'[x].invoice => ord'[x].cart \in sold')
  BY <1>1 DEF PosIInv, ServerOK
<1>5. sold' \subseteq 0 .. MaxCarts
  BY DEF PosIInv, ServerOK, RowOK, Row
<1>6. ServerOK'
  BY <1>1, <1>4, <1>5 DEF ServerOK, RowOK, Row
<1>7. ClockOK' /\ LateOK'
  BY DEF PosIInv, ClockOK, LateOK, CallOK, CheckoutOK, RowOK, Row, Checkout, GatewayCall, Answer
<1> QED BY <1>0, <1>3, <1>6, <1>7, ServerStep

LEMMA WorldStep ==
    ASSUME PosIInv, NEW o \in Order, ProviderPaid(o) \/ ProviderDeclined(o) \/ Sweep(o)
    PROVE  PosIInv' /\ SaleNext
<1> DEFINE r == ord[o]
           p == [r EXCEPT !.intent = "none"]
<1>0. RowOK(r) /\ r \in Row /\ UNCHANGED <<reg, call, late, now, lost, key>>
  BY DEF PosIInv, ServerOK, RowOK, ProviderPaid, ProviderDeclined, Sweep
<1>1. r.cart # 0
  BY <1>0 DEF RowOK, ProviderPaid, ProviderDeclined, Sweep, Active, Open
<1>2. ASSUME NEW n \in Row, n.cart = r.cart, n.legs = r.legs, n.pay = r.pay, r.invoice => n.invoice,
             n.invoice => n.settled, n.state # "none", n.settled => n.state \notin Closed,
             RowMoves(o, n), ord' = [ord EXCEPT ![o] = n],
             sold' = sold \cup IF n.invoice THEN {n.cart} ELSE {}
      PROVE  PosIInv' /\ SaleNext
  <2>1. RowOK(n)
    BY <1>0, <1>1, <1>2, SameParts
  <2> QED BY <1>0, <1>2, <2>1, RowStep
<1>3. p \in Row /\ p.cart = r.cart /\ p.legs = r.legs /\ p.pay = r.pay /\ p.invoice = r.invoice
      /\ p.settled = r.settled /\ p.state = r.state
  BY <1>0 DEF Row
<1>4. r.state # "none" /\ (r.invoice => r.settled) /\ (r.settled => r.state \notin Closed)
      /\ (r.invoice => r.cart \in sold) /\ r.invoice \in BOOLEAN /\ r.settled \in BOOLEAN
  BY <1>0, <1>1 DEF RowOK, Row, PosIInv, ServerOK
<1>5. CASE ProviderPaid(o)
  <2>1. CASE p.settled /\ ord' = [ord EXCEPT ![o] = p] /\ UNCHANGED sold
    <3> HIDE DEF p
    <3>1. RowMoves(o, p)
      BY <1>3, <2>1 DEF RowMoves, RowStage
    <3>2. sold' = sold \cup IF p.invoice THEN {p.cart} ELSE {}
      BY <1>3, <1>4, <2>1
    <3> QED BY <1>2, <1>3, <1>4, <2>1, <3>1, <3>2
  <2>2. CASE ~p.settled /\ CanPost(p) /\ ord' = [ord EXCEPT ![o] = Posted(p)]
             /\ sold' = sold \cup {p.cart}
    <3> HIDE DEF p
    <3> DEFINE n == Posted(p)
    <3>1. n \in Row /\ n.cart = p.cart /\ n.legs = p.legs /\ n.pay = p.pay /\ n.invoice = TRUE
          /\ n.settled = TRUE /\ n.state = "paid"
      BY <1>3 DEF Posted, Row, OrderState
    <3>2. ord' = [ord EXCEPT ![o] = n]
      BY <2>2
    <3> HIDE DEF n
    <3>3. RowMoves(o, n)
      BY <1>3, <1>4, <2>2, <3>1 DEF RowMoves, RowStage, CanPost, Blocked, Open, Closed
    <3> QED BY <1>2, <1>3, <2>2, <3>1, <3>2, <3>3 DEF Closed
  <2>3. CASE ~p.settled /\ ~Blocked(o) /\ UNCHANGED sold
             /\ ord' = [ord EXCEPT ![o] = [p EXCEPT !.state = "allocation_pending", !.settled = TRUE]]
    <3> HIDE DEF p
    <3> DEFINE n == [p EXCEPT !.state = "allocation_pending", !.settled = TRUE]
    <3>1. n \in Row /\ n.cart = p.cart /\ n.legs = p.legs /\ n.pay = p.pay /\ n.invoice = p.invoice
          /\ n.settled = TRUE /\ n.state = "allocation_pending"
      BY <1>3 DEF Row, OrderState
    <3>2. ord' = [ord EXCEPT ![o] = n] /\ UNCHANGED sold
      BY <2>3
    <3> HIDE DEF n
    <3>3. ~n.invoice /\ ~r.invoice /\ ~r.settled
      BY <1>3, <1>4, <2>3, <3>1
    <3>4. RowMoves(o, n)
      BY <1>3, <1>4, <2>3, <3>1, <3>3 DEF RowMoves, RowStage, Closed
    <3> QED BY <1>2, <1>3, <3>1, <3>2, <3>3, <3>4 DEF Closed
  <2> QED BY <1>5, <2>1, <2>2, <2>3 DEF ProviderPaid
<1>6. CASE ProviderDeclined(o)
  <2> DEFINE s == IF ~p.settled /\ p.state \in Open THEN "payment_failed" ELSE p.state
             n == [p EXCEPT !.state = s]
  <2>1. ord' = [ord EXCEPT ![o] = n] /\ UNCHANGED sold
    BY <1>6 DEF ProviderDeclined
  <2> HIDE DEF p
  <2>2. s \in OrderState /\ s # "none" /\ (s \in Closed <=> r.state \in Closed)
    BY <1>3, <1>4 DEF Row, OrderState, Open, Closed
  <2> HIDE DEF s
  <2>3. n \in Row /\ n.cart = p.cart /\ n.legs = p.legs /\ n.pay = p.pay /\ n.invoice = p.invoice
        /\ n.settled = p.settled /\ n.state = s
    BY <1>3, <2>2 DEF Row
  <2> HIDE DEF n
  <2>4. RowMoves(o, n)
    BY <1>3, <1>4, <2>2, <2>3 DEF RowMoves, RowStage
  <2>5. sold' = sold \cup IF n.invoice THEN {n.cart} ELSE {}
    BY <1>3, <1>4, <2>1, <2>3
  <2> QED BY <1>2, <1>3, <1>4, <2>1, <2>2, <2>3, <2>4, <2>5
<1>7. CASE Sweep(o)
  <2> DEFINE n == [r EXCEPT !.state = "payment_expired", !.locks = FALSE, !.held = FALSE]
  <2>1. ~r.settled /\ r.state \in Open /\ ~r.invoice /\ UNCHANGED sold /\ ord' = [ord EXCEPT ![o] = n]
    BY <1>7 DEF Sweep, Active, Release
  <2>2. n \in Row /\ n.cart = r.cart /\ n.legs = r.legs /\ n.pay = r.pay /\ n.invoice = r.invoice
        /\ n.settled = r.settled /\ n.state = "payment_expired"
    BY <1>0 DEF Row, OrderState, Closed
  <2> HIDE DEF n
  <2>3. RowMoves(o, n)
    BY <1>4, <2>1, <2>2 DEF RowMoves, RowStage, Open, Closed
  <2> QED BY <1>2, <2>1, <2>2, <2>3
<1> QED BY <1>5, <1>6, <1>7

LEMMA TickStep == ASSUME PosIInv, Tick PROVE PosIInv'
<1>1. ServerOK' /\ LateOK' /\ ClockOK' /\ SalesStay /\ UNCHANGED <<reg, call>>
  <2>1. UNCHANGED <<reg, call, late, ord, sold, lost, key>> /\ now < MaxTime /\ now' = now + 1
    BY DEF Tick, server
  <2>2. ClockOK'
    BY <2>1, PosPaymentConstants DEF PosIInv, ClockOK
  <2>3. ServerOK' /\ LateOK' /\ SalesStay
    BY <2>1 DEF PosIInv, ServerOK, LateOK, SalesStay, CallOK, CheckoutOK, RowOK, Row, Checkout,
                GatewayCall, Answer
  <2> QED BY <2>1, <2>2, <2>3
<1> QED BY <1>1, ServerStep

----------------------------------------------------------------------------
\* The code after an await.

LEMMA SameKey == \A k \in RequestKeys : [k EXCEPT !.pay = k.pay] = k
BY DEF RequestKeys

\* The slot is done.
LEMMA ReturnStep ==
    ASSUME PosIInv, UNCHANGED <<late, ord, sold, now, lost>>, key' \in 0 .. MaxKeys,
           NEW s \in Slot, Return(s), RegisterOK(reg'), reg'.receipt \in {0, reg.receipt} \cup sold
    PROVE  PosIInv'
<1>1. NoCall.ans.kind = "wait" /\ NoCall.at = "idle"
  BY DEF NoCall, Waiting
<1>2. CallOK(NoCall) /\ Tells(NoCall, ord, sold)
  BY <1>1, EmptyRecords DEF Tells
<1>3. PICK r : r = reg'
  OBVIOUS
<1>4. call' = [call EXCEPT ![s] = NoCall]
  BY DEF Return, Send
<1> QED BY <1>2, <1>3, <1>4, RegisterStep

\* The next call of the same operation, about order o.
About(c, at, o) == [c EXCEPT !.at = at, !.order = o, !.ans = Waiting]
\* The same about the order it is about.
Onward(c, at) == [c EXCEPT !.at = at, !.ans = Waiting]

Continues(n, c, at, o) ==
    /\ n \in GatewayCall /\ n.op = c.op /\ n.co = c.co /\ n.cart = c.cart /\ n.req = c.req
    /\ n.key = c.key /\ n.order = o /\ n.at = at /\ n.ans = Waiting

\* The slot goes on with call n about order n.order.
LEMMA OnwardStep ==
    ASSUME PosIInv, UNCHANGED <<late, ord, sold, now, lost>>, key' \in 0 .. MaxKeys,
           NEW s \in Slot, call[s].op # "idle", NEW n, call' = [call EXCEPT ![s] = n],
           NEW o \in 0 .. MaxOrders, o # 0,
           NEW at \in {"status", "findSplit", "settle", "provider", "account", "receipt"},
           Continues(n, call[s], at, o),
           at = "settle" => call[s].op = "manual",
           at = "receipt" => IF call[s].op = "account" THEN call[s].cart \in sold ELSE ord[o].invoice,
           RegisterOK(reg'), reg'.receipt \in {0, reg.receipt} \cup sold
    PROVE  PosIInv'
<1>1. CallOK(call[s])
  BY DEF PosIInv, CallsOK
<1>2. Waiting.kind = "wait"
  BY DEF Waiting
<1>3. CallOK(n) /\ Tells(n, ord, sold)
  BY <1>1, <1>2, EmptyRecords DEF CallOK, Tells, Continues
<1>4. PICK r : r = reg'
  OBVIOUS
<1> QED BY <1>3, <1>4, RegisterStep

LEMMA OnwardTyped ==
    ASSUME NEW c \in GatewayCall, NEW o \in 0 .. MaxOrders,
           NEW at \in {"status", "findSplit", "settle", "provider", "account", "receipt"}
    PROVE  Continues(Onward(c, at), c, at, c.order) /\ Continues(About(c, at, o), c, at, o)
<1> DEFINE n == [c EXCEPT !.at = at, !.ans = Waiting]
           m == [c EXCEPT !.at = at, !.order = o, !.ans = Waiting]
<1>1. n \in GatewayCall /\ m \in GatewayCall
  BY EmptyRecords DEF GatewayCall
<1>2. /\ n.op = c.op /\ n.co = c.co /\ n.cart = c.cart /\ n.req = c.req
      /\ n.key = c.key /\ n.order = c.order /\ n.at = at /\ n.ans = Waiting
  BY DEF GatewayCall
<1>3. /\ m.op = c.op /\ m.co = c.co /\ m.cart = c.cart /\ m.req = c.req
      /\ m.key = c.key /\ m.order = o /\ m.at = at /\ m.ans = Waiting
  BY DEF GatewayCall
<1>4. Onward(c, at) = n /\ About(c, at, o) = m
  BY DEF Onward, About
<1> QED BY <1>1, <1>2, <1>3, <1>4 DEF Continues

\* What an answered call tells.
LEMMA GotFacts ==
    ASSUME PosIInv, NEW s \in Slot, call[s].ans # Waiting
    PROVE  /\ call[s] \in GatewayCall /\ CallOK(call[s]) /\ Tells(call[s], ord, sold)
           /\ CheckoutOK(call[s].co) /\ call[s].co \in Checkout
           /\ RowOK(call[s].ans.row) /\ call[s].ans.row \in Row /\ call[s].ans \in Answer
           /\ call[s].order \in 0 .. MaxOrders /\ call[s].cart \in 0 .. MaxCarts
           /\ call[s].ans.order \in 0 .. MaxOrders
           /\ RegisterOK(reg) /\ reg \in Register /\ key \in 0 .. MaxKeys
<1>1. CallOK(call[s]) /\ Tells(call[s], ord, sold) /\ RegisterOK(reg) /\ key \in 0 .. MaxKeys
  BY DEF PosIInv, CallsOK, ClockOK
<1> QED BY <1>1 DEF CallOK, CheckoutOK, RowOK, GatewayCall, Answer, RegisterOK

\* What the panel shows of a row.
LEMMA ViewTyped ==
    ASSUME NEW r, RowOK(r), NEW o \in 0 .. MaxOrders
    PROVE  View(o, r) \in SplitView /\ View(o, r).order = o
<1>1. Cardinality(r.legs) \in 0 .. Parts
  BY FS_CardinalityType, PosPaymentConstants DEF RowOK
<1>2. r.split \in SplitState
  BY DEF RowOK, Row
<1> QED BY <1>1, <1>2 DEF View, SplitView

\* beginCheckout's and a payment's first answers.
LEMMA BeginStep ==
    ASSUME PosIInv, NEW s \in Slot, BeginPrepared(s) \/ BeginRead(s) \/ BeginFound(s) \/ PayPrepared(s)
    PROVE  PosIInv'
<1> DEFINE c == call[s]
<1>0. /\ c.ans # Waiting /\ c.op \in {"begin", "manual", "provider"} /\ c.op # "idle"
      /\ UNCHANGED <<late, ord, sold, now, lost>> /\ key' = key
  BY DEF BeginPrepared, BeginRead, BeginFound, PayPrepared, Got, Quiet, server
<1>1. /\ c \in GatewayCall /\ CallOK(c) /\ Tells(c, ord, sold) /\ RowOK(c.ans.row) /\ c.ans.row \in Row
      /\ c.order \in 0 .. MaxOrders /\ c.cart \in 0 .. MaxCarts /\ c.ans.order \in 0 .. MaxOrders
      /\ RegisterOK(reg) /\ reg \in Register /\ key' \in 0 .. MaxKeys
  BY <1>0, GotFacts
<1>2. c.cart # 0 /\ (c.order # 0 \/ (c.op = "begin" /\ c.at = "prepare"))
  BY <1>0, <1>1 DEF CallOK
<1>3. CASE BeginPrepared(s)
  <2>1. CASE Ok(s)
    <3> DEFINE n == About(c, "status", c.ans.order)
    <3>1. call' = [call EXCEPT ![s] = n] /\ reg' = reg /\ c.at = "prepare"
      BY <1>3, <2>1 DEF BeginPrepared, Send, Got, About
    <3>2. c.ans.order # 0
      BY <1>1, <2>1, <3>1 DEF Tells, Ok
    <3>3. Continues(n, c, "status", c.ans.order)
      BY <1>1, OnwardTyped
    <3> HIDE DEF n
    <3> QED BY <1>0, <1>1, <3>1, <3>2, <3>3, OnwardStep
  <2>2. CASE ~Ok(s)
    <3>1. Return(s) /\ reg' = reg
      BY <1>3, <2>2 DEF BeginPrepared
    <3> QED BY <1>0, <1>1, <3>1, ReturnStep
  <2> QED BY <2>1, <2>2
<1>4. CASE BeginRead(s)
  <2>1. CASE Ok(s)
    <3> DEFINE n == Onward(c, "findSplit")
               k == [NoCheckout EXCEPT !.order = c.order, !.cart = c.cart, !.exp = c.ans.row.exp]
    <3>1. call' = [call EXCEPT ![s] = n] /\ reg' = SetCheckout(k) /\ c.order # 0
      BY <1>2, <1>4, <2>1 DEF BeginRead, Then, Send, Got, Onward
    <3>2. Continues(n, c, "findSplit", c.order)
      BY <1>1, OnwardTyped
    <3>3. c.ans.row.exp \in 0 .. MaxTime /\ NoCheckout \in Checkout
      BY <1>1, EmptyRecords DEF Row, CheckoutOK
    <3>4. k \in Checkout /\ k.cart = c.cart
      BY <1>1, <3>3 DEF Checkout
    <3> HIDE DEF n, k
    <3>5. RegisterOK(reg') /\ reg'.receipt = reg.receipt
      BY <1>1, <1>2, <3>1, <3>4, StoreStates DEF CheckoutOK
    <3> QED BY <1>0, <1>1, <3>1, <3>2, <3>5, OnwardStep
  <2>2. CASE ~Ok(s)
    <3>1. Return(s) /\ reg' = reg
      BY <1>4, <2>2 DEF BeginRead
    <3> QED BY <1>0, <1>1, <3>1, ReturnStep
  <2> QED BY <2>1, <2>2
<1>5. CASE BeginFound(s)
  <2> DEFINE v == IF Ok(s) /\ c.ans.row.split # "none" THEN View(c.order, c.ans.row) ELSE NoSplit
             n == [reg EXCEPT !.split = v]
  <2>1. Return(s) /\ reg' = n /\ c.order # 0
    BY <1>2, <1>5 DEF BeginFound, Got
  <2>2. /\ View(c.order, c.ans.row) \in SplitView /\ View(c.order, c.ans.row).order = c.order
    BY <1>1, ViewTyped
  <2>3. v \in SplitView /\ (v = NoSplit \/ v.order # 0)
    BY <2>1, <2>2, EmptyRecords
  <2> HIDE DEF v
  <2>4. /\ n \in Register /\ n.checkout = reg.checkout /\ n.keys = reg.keys /\ n.split = v
        /\ n.receipt = reg.receipt
    BY <1>1, <2>3 DEF Register
  <2> HIDE DEF n
  <2>5. RegisterOK(n)
    BY <1>1, <2>3, <2>4 DEF RegisterOK
  <2> QED BY <1>0, <1>1, <2>1, <2>4, <2>5, ReturnStep
<1>6. CASE PayPrepared(s)
  <2>1. CASE Ok(s)
    <3>1. PICK at \in {"settle", "provider"} : Then(s, at) /\ (at = "settle" => c.op = "manual")
      BY <1>6, <2>1 DEF PayPrepared
    <3> DEFINE n == Onward(c, at)
    <3>2. call' = [call EXCEPT ![s] = n] /\ reg' = reg /\ c.order # 0
      BY <1>2, <1>6, <3>1 DEF PayPrepared, Then, Send, Got, Onward
    <3>3. Continues(n, c, at, c.order)
      BY <1>1, OnwardTyped
    <3> HIDE DEF n
    <3> QED BY <1>0, <1>1, <3>1, <3>2, <3>3, OnwardStep
  <2>2. CASE ~Ok(s)
    <3>1. Return(s) /\ reg' = reg
      BY <1>6, <2>2 DEF PayPrepared
    <3> QED BY <1>0, <1>1, <3>1, ReturnStep
  <2> QED BY <2>1, <2>2
<1> QED BY <1>3, <1>4, <1>5, <1>6

\* A checkout with another outcome.
LEMMA OutcomeTyped ==
    ASSUME NEW co, CheckoutOK(co), NEW x \in {"none", "approved", "declined", "error", "unknown"}
    PROVE  CheckoutOK([co EXCEPT !.outcome = x])
<1> DEFINE n == [co EXCEPT !.outcome = x]
<1>1. n \in Checkout /\ n.order = co.order /\ n.cart = co.cart
  BY DEF CheckoutOK, Checkout
<1> QED BY <1>1 DEF CheckoutOK

\* payManual.
LEMMA SettledStep == ASSUME PosIInv, NEW s \in Slot, Settled(s) PROVE PosIInv'
<1> DEFINE c == call[s]
<1>0. /\ c.ans # Waiting /\ c.op = "manual" /\ c.op # "idle" /\ c.op # "account" /\ c.at = "settle"
      /\ UNCHANGED <<late, ord, sold, now, lost>>
  BY DEF Settled, Got, server
<1>1. /\ c \in GatewayCall /\ CallOK(c) /\ Tells(c, ord, sold) /\ CheckoutOK(c.co)
      /\ c.order \in 0 .. MaxOrders /\ RegisterOK(reg) /\ reg \in Register /\ key \in 0 .. MaxKeys
  BY <1>0, GotFacts
<1>2. c.order # 0 /\ c.req # 0
  BY <1>0, <1>1 DEF CallOK
<1>3. CASE Ok(s) /\ Then(s, "receipt") /\ UNCHANGED <<reg, key>>
  <2> DEFINE n == Onward(c, "receipt")
  <2>1. call' = [call EXCEPT ![s] = n] /\ reg' = reg /\ key' \in 0 .. MaxKeys
    BY <1>1, <1>3 DEF Then, Send, Onward
  <2>2. ord[c.order].invoice
    BY <1>0, <1>1, <1>3 DEF Tells, Ok
  <2>3. Continues(n, c, "receipt", c.order)
    BY <1>1, OnwardTyped
  <2> HIDE DEF n
  <2> QED BY <1>0, <1>1, <1>2, <2>1, <2>2, <2>3, OnwardStep
<1>4. CASE Return(s) /\ reg' = SetCheckout([c.co EXCEPT !.outcome = "unknown"]) /\ UNCHANGED key
  <2> DEFINE k == [c.co EXCEPT !.outcome = "unknown"]
  <2>1. CheckoutOK(k)
    BY <1>1, OutcomeTyped
  <2>2. reg' = SetCheckout(k) /\ Return(s) /\ key' \in 0 .. MaxKeys
    BY <1>1, <1>4
  <2> HIDE DEF k
  <2>3. RegisterOK(reg') /\ reg'.receipt = reg.receipt
    BY <1>1, <2>1, <2>2, StoreStates
  <2> QED BY <1>0, <2>2, <2>3, ReturnStep
<1>5. CASE /\ Return(s) /\ key + 1 <= MaxKeys /\ key' = key + 1
           /\ reg' = [[reg EXCEPT !.keys.pay = IF reg.keys.req = c.req THEN key + 1 ELSE @]
                         EXCEPT !.checkout = [c.co EXCEPT !.outcome = "error"]]
  <2> DEFINE k == [c.co EXCEPT !.outcome = "error"]
             p == IF reg.keys.req = c.req THEN key + 1 ELSE reg.keys.pay
             m == [reg.keys EXCEPT !.pay = p]
             n == [[reg EXCEPT !.keys = m] EXCEPT !.checkout = k]
  <2>0. key + 1 \in 0 .. MaxKeys /\ key + 1 # 0
    BY <1>1, <1>5, PosPaymentConstants
  <2>1. CheckoutOK(k)
    BY <1>1, OutcomeTyped
  <2>2. reg.keys \in RequestKeys /\ p \in 0 .. MaxKeys
    BY <1>1, <2>0 DEF Register, RequestKeys
  <2>3. m \in RequestKeys /\ m.req = reg.keys.req /\ m.pay = p
    BY <2>2 DEF RequestKeys
  <2>4. m = NoKeys \/ (m.req # 0 /\ m.pay # 0)
    <3>1. CASE reg.keys = NoKeys
      <4>1. p = reg.keys.pay
        BY <1>2, <3>1 DEF NoKeys
      <4>2. m = reg.keys
        BY <2>2, <4>1, SameKey
      <4> QED BY <3>1, <4>2
    <3>2. CASE reg.keys.req # 0 /\ reg.keys.pay # 0
      BY <2>0, <2>3, <3>2
    <3> QED BY <1>1, <3>1, <3>2 DEF RegisterOK
  <2>5. reg' = n /\ Return(s) /\ key' \in 0 .. MaxKeys
    BY <1>5, <2>0
  <2> HIDE DEF k, m
  <2>6. n \in Register /\ n.checkout = k /\ n.keys = m /\ n.split = reg.split /\ n.receipt = reg.receipt
    BY <1>1, <2>1, <2>3 DEF Register, CheckoutOK
  <2> HIDE DEF n
  <2>7. RegisterOK(n)
    BY <1>1, <2>1, <2>4, <2>6 DEF RegisterOK
  <2> QED BY <1>0, <2>5, <2>6, <2>7, ReturnStep
<1>6. CASE Return(s) /\ reg' = ExpireCheckout /\ UNCHANGED key
  <2>1. RegisterOK(reg') /\ reg'.receipt = reg.receipt
    BY <1>1, <1>6, StoreStates
  <2> QED BY <1>0, <1>1, <1>6, <2>1, ReturnStep
<1> QED BY <1>3, <1>4, <1>5, <1>6 DEF Settled

\* payProvider, cancelCheckout and payOnAccount.
LEMMA InitiatedStep == ASSUME PosIInv, NEW s \in Slot, Initiated(s) PROVE PosIInv'
<1> DEFINE c == call[s]
<1>0. c.ans # Waiting /\ UNCHANGED <<late, ord, sold, now, lost>> /\ key' = key /\ Return(s)
  BY DEF Initiated, Got, Quiet, server
<1>1. CheckoutOK(c.co) /\ c.co \in Checkout /\ RegisterOK(reg) /\ key' \in 0 .. MaxKeys
  BY <1>0, GotFacts
<1>2. now \in 0 .. MaxTime
  BY DEF PosIInv, ClockOK
<1> DEFINE k == IF Ok(s) THEN [c.co EXCEPT !.attempt = now, !.outcome = "none"]
                ELSE [c.co EXCEPT !.outcome = "error"]
<1>3. CheckoutOK(k)
  <2>0. now \in -1 .. MaxTime
    BY <1>2, PosPaymentConstants
  <2>1. k \in Checkout
    <3>1. CASE Ok(s)
      BY <1>1, <2>0, <3>1 DEF Checkout
    <3>2. CASE ~Ok(s)
      BY <1>1, <3>2 DEF Checkout
    <3> QED BY <3>1, <3>2
  <2>2. k.order = c.co.order /\ k.cart = c.co.cart
    BY <1>1 DEF Checkout
  <2> QED BY <1>1, <2>1, <2>2 DEF CheckoutOK
<1>4. reg' = SetCheckout(k)
  BY DEF Initiated
<1> HIDE DEF k
<1>5. RegisterOK(reg') /\ reg'.receipt = reg.receipt
  BY <1>1, <1>3, <1>4, StoreStates
<1> QED BY <1>0, <1>1, <1>5, ReturnStep

LEMMA CancelledStep == ASSUME PosIInv, NEW s \in Slot, Cancelled(s) \/ AccountSold(s) PROVE PosIInv'
<1> DEFINE c == call[s]
           n == [reg EXCEPT !.checkout = NoCheckout, !.keys = NoKeys]
<1>0. /\ c.ans # Waiting /\ c.op \in {"back", "account"} /\ c.op # "idle" /\ c.op # "begin"
      /\ UNCHANGED <<late, ord, sold, now, lost>> /\ key' = key
  BY DEF Cancelled, AccountSold, Got, Quiet, server
<1>1. /\ c \in GatewayCall /\ CallOK(c) /\ Tells(c, ord, sold) /\ c.order \in 0 .. MaxOrders
      /\ RegisterOK(reg) /\ key' \in 0 .. MaxKeys
  BY <1>0, GotFacts
<1>2. c.order # 0
  BY <1>0, <1>1 DEF CallOK
<1>3. RegisterOK(n) /\ n.receipt = reg.receipt
  BY <1>1, StoreStates
<1>4. CASE Cancelled(s) /\ Ok(s) /\ c.op = "account"
  <2> DEFINE m == Onward(c, "account")
  <2>1. call' = [call EXCEPT ![s] = m] /\ reg' = n
    BY <1>4 DEF Cancelled, Then, Send, Onward
  <2>2. Continues(m, c, "account", c.order)
    BY <1>1, OnwardTyped
  <2> HIDE DEF m, n
  <2> QED BY <1>0, <1>1, <1>2, <1>3, <2>1, <2>2, OnwardStep
<1>5. CASE Cancelled(s) /\ ~(Ok(s) /\ c.op = "account")
  <2>1. Return(s) /\ reg' \in {reg, n}
    BY <1>5 DEF Cancelled
  <2> HIDE DEF n
  <2>2. RegisterOK(reg') /\ reg'.receipt = reg.receipt
    BY <1>1, <1>3, <2>1
  <2> QED BY <1>0, <1>1, <2>1, <2>2, ReturnStep
<1>6. CASE AccountSold(s) /\ Ok(s)
  <2> DEFINE m == Onward(c, "receipt")
  <2>1. call' = [call EXCEPT ![s] = m] /\ reg' = reg /\ c.at = "account" /\ c.op = "account"
    BY <1>6 DEF AccountSold, Then, Send, Onward, Got
  <2>2. Continues(m, c, "receipt", c.order)
    BY <1>1, OnwardTyped
  <2>3. c.cart \in sold
    BY <1>1, <1>6, <2>1 DEF Tells, Ok
  <2> HIDE DEF m
  <2> QED BY <1>0, <1>1, <1>2, <2>1, <2>2, <2>3, OnwardStep
<1>7. CASE AccountSold(s) /\ ~Ok(s)
  <2>1. Return(s) /\ reg' = reg
    BY <1>7 DEF AccountSold
  <2> QED BY <1>0, <1>1, <2>1, ReturnStep
<1> QED BY <1>4, <1>5, <1>6, <1>7

\* applySplit: the panel shows the answered session, or the receipt is loaded.
LEMMA ApplySplitStep ==
    ASSUME PosIInv, UNCHANGED <<late, ord, sold, now, lost>>, key' \in 0 .. MaxKeys,
           NEW s \in Slot, call[s].ans # Waiting, Ok(s), call[s].op = "split",
           call[s].at \in {"startSplit", "reduce", "retry", "leg"},
           NEW base, RegisterOK(base), base.receipt = reg.receipt, ApplySplit(s, base)
    PROVE  PosIInv'
<1> DEFINE c == call[s]
           v == View(c.ans.order, c.ans.row)
           shown == [base EXCEPT !.split = v]
           fails == [shown EXCEPT !.checkout = [shown.checkout EXCEPT !.outcome = "unknown"]]
<1>1. /\ c \in GatewayCall /\ Tells(c, ord, sold) /\ RowOK(c.ans.row)
      /\ c.ans.order \in 0 .. MaxOrders
  BY GotFacts
<1>2. c.ans.order # 0 /\ (c.ans.row.invoice => ord[c.ans.order].invoice)
  BY <1>1 DEF Tells, Ok
<1>3. v \in SplitView /\ v.order # 0
  BY <1>1, <1>2, ViewTyped
<1>4. base \in Register /\ CheckoutOK(base.checkout)
  BY DEF RegisterOK
<1> HIDE DEF v
<1>5. /\ shown \in Register /\ shown.checkout = base.checkout /\ shown.keys = base.keys
      /\ shown.split = v /\ shown.receipt = base.receipt
  BY <1>3, <1>4 DEF Register
<1>6. RegisterOK(shown) /\ shown.receipt = reg.receipt
  BY <1>3, <1>5 DEF RegisterOK
<1>7. RegisterOK(fails) /\ fails.receipt = reg.receipt
  <2> HIDE DEF shown
  <2> DEFINE k == [shown.checkout EXCEPT !.outcome = "unknown"]
  <2>1. CheckoutOK(k)
    BY <1>4, <1>5, OutcomeTyped
  <2> HIDE DEF k
  <2>2. /\ fails \in Register /\ fails.checkout = k /\ fails.keys = shown.keys
        /\ fails.split = shown.split /\ fails.receipt = shown.receipt
    BY <1>5, <2>1 DEF Register, CheckoutOK, k
  <2> QED BY <1>6, <2>1, <2>2 DEF RegisterOK
<1>8. CASE SplitDone(c.ans.row)
  <2> DEFINE n == About(c, "receipt", c.ans.order)
  <2>1. call' = [call EXCEPT ![s] = n] /\ reg' = shown
    BY <1>8 DEF ApplySplit, Send, About, v
  <2>2. ord[c.ans.order].invoice
    BY <1>2, <1>8 DEF SplitDone
  <2>3. Continues(n, c, "receipt", c.ans.order)
    BY <1>1, OnwardTyped
  <2> HIDE DEF n, shown
  <2> QED BY <1>1, <1>2, <1>6, <2>1, <2>2, <2>3, OnwardStep
<1>9. CASE ~SplitDone(c.ans.row)
  <2>1. Return(s) /\ reg' \in {shown, fails}
    BY <1>9 DEF ApplySplit, v
  <2> HIDE DEF shown, fails
  <2>2. RegisterOK(reg') /\ reg'.receipt = reg.receipt
    BY <1>6, <1>7, <2>1
  <2> QED BY <2>1, <2>2, ReturnStep
<1> QED BY <1>8, <1>9

LEMMA SplitStep ==
    ASSUME PosIInv, NEW s \in Slot, SplitAnswered(s) \/ LegAnswered(s) \/ SplitCancelled(s)
    PROVE  PosIInv'
<1>0. /\ call[s].ans # Waiting /\ UNCHANGED <<late, ord, sold, now, lost>> /\ key' = key
      /\ RegisterOK(reg) /\ reg \in Register /\ key' \in 0 .. MaxKeys
  <2>1. call[s].ans # Waiting /\ UNCHANGED <<late, ord, sold, now, lost>> /\ key' = key
    BY DEF SplitAnswered, LegAnswered, SplitCancelled, Got, Quiet, server
  <2> QED BY <2>1, GotFacts
<1>1. CASE SplitAnswered(s)
  <2>1. call[s].op = "split" /\ call[s].at \in {"startSplit", "reduce", "retry", "leg"}
    BY <1>1 DEF SplitAnswered, Got
  <2>2. CASE Ok(s)
    <3>1. ApplySplit(s, reg)
      BY <1>1, <2>2 DEF SplitAnswered
    <3> QED BY <1>0, <2>1, <2>2, <3>1, ApplySplitStep
  <2>3. CASE ~Ok(s)
    <3>1. Return(s) /\ reg' = reg
      BY <1>1, <2>3 DEF SplitAnswered
    <3> QED BY <1>0, <3>1, ReturnStep
  <2> QED BY <2>2, <2>3
<1>2. CASE LegAnswered(s)
  <2>1. call[s].op = "split" /\ call[s].at \in {"startSplit", "reduce", "retry", "leg"}
    BY <1>2 DEF LegAnswered, Got
  <2>2. CASE Ok(s)
    <3> DEFINE n == [reg EXCEPT !.legKey = 0, !.part = @ + 1]
    <3>1. ApplySplit(s, n)
      BY <1>2, <2>2 DEF LegAnswered
    <3>2. reg.part + 1 \in Nat /\ 0 \in 0 .. MaxKeys
      BY <1>0, PosPaymentConstants DEF Register
    <3>3. /\ n \in Register /\ n.checkout = reg.checkout /\ n.keys = reg.keys /\ n.split = reg.split
          /\ n.receipt = reg.receipt
      BY <1>0, <3>2 DEF Register
    <3> HIDE DEF n
    <3>4. RegisterOK(n)
      BY <1>0, <3>3 DEF RegisterOK
    <3> QED BY <1>0, <2>1, <2>2, <3>1, <3>3, <3>4, ApplySplitStep
  <2>3. CASE ~Ok(s)
    <3> DEFINE k == IF call[s].ans.kind = "net" THEN reg.legKey ELSE 0
               n == [reg EXCEPT !.legKey = k]
    <3>1. Return(s) /\ reg' = n
      BY <1>2, <2>3 DEF LegAnswered
    <3>2. k \in 0 .. MaxKeys
      BY <1>0, PosPaymentConstants DEF Register
    <3> HIDE DEF k
    <3>3. /\ n \in Register /\ n.checkout = reg.checkout /\ n.keys = reg.keys /\ n.split = reg.split
          /\ n.receipt = reg.receipt
      BY <1>0, <3>2 DEF Register
    <3> HIDE DEF n
    <3>4. RegisterOK(n)
      BY <1>0, <3>3 DEF RegisterOK
    <3> QED BY <1>0, <3>1, <3>3, <3>4, ReturnStep
  <2> QED BY <2>2, <2>3
<1>3. CASE SplitCancelled(s)
  <2> DEFINE n == [reg EXCEPT !.split = NoSplit, !.checkout = NoCheckout,
                              !.keys = NoKeys, !.legKey = 0, !.part = @ + 1]
  <2>1. Return(s) /\ reg' \in {reg, n}
    BY <1>3 DEF SplitCancelled
  <2>2. NoCheckout \in Checkout /\ reg.part + 1 \in Nat /\ 0 \in 0 .. MaxKeys
    BY <1>0, EmptyRecords, PosPaymentConstants DEF CheckoutOK, Register
  <2>3. n \in Register
    BY <1>0, <2>2, EmptyRecords DEF Register
  <2>4. n.checkout = NoCheckout /\ n.keys = NoKeys /\ n.split = NoSplit /\ n.receipt = reg.receipt
    BY <1>0 DEF Register
  <2> HIDE DEF n
  <2>5. RegisterOK(n)
    BY <2>3, <2>4, EmptyRecords DEF RegisterOK
  <2>6. RegisterOK(reg') /\ reg'.receipt = reg.receipt
    BY <1>0, <2>1, <2>4, <2>5
  <2> QED BY <1>0, <2>1, <2>6, ReturnStep
<1> QED BY <1>1, <1>2, <1>3

\* The recovery screen.
LEMMA ResolvedStep == ASSUME PosIInv, NEW s \in Slot, Resolved(s) PROVE PosIInv'
<1> DEFINE n == [reg EXCEPT !.checkout = NoCheckout, !.keys = NoKeys]
<1>1. /\ call[s].ans # Waiting /\ UNCHANGED <<late, ord, sold, now, lost>> /\ key' = key
      /\ Return(s) /\ reg' \in {reg, n}
  BY DEF Resolved, Got, Quiet, server
<1>2. RegisterOK(reg) /\ key' \in 0 .. MaxKeys
  BY <1>1, GotFacts
<1>3. RegisterOK(n) /\ n.receipt = reg.receipt
  BY <1>2, StoreStates
<1> HIDE DEF n
<1>4. RegisterOK(reg') /\ reg'.receipt = reg.receipt
  BY <1>1, <1>2, <1>3
<1> QED BY <1>1, <1>2, <1>4, ReturnStep

\* The checkout a refresh sets.
Approved(co, st) == [co EXCEPT !.exp = st.exp, !.outcome = "approved"]

LEMMA RefreshTyped ==
    ASSUME NEW co, CheckoutOK(co), NEW st \in Row
    PROVE  CheckoutOK(Refresh(co, st)) /\ CheckoutOK(Approved(co, st))
<1>1. co \in Checkout /\ st.exp \in 0 .. MaxTime /\ -1 \in -1 .. MaxTime
  BY PosPaymentConstants DEF CheckoutOK, Row
<1>2. ASSUME NEW x \in {"unknown", "declined", "approved"}
      PROVE  /\ CheckoutOK([co EXCEPT !.exp = st.exp, !.outcome = x])
             /\ CheckoutOK([co EXCEPT !.exp = st.exp, !.attempt = -1, !.outcome = x])
             /\ CheckoutOK([co EXCEPT !.exp = st.exp])
  <2> DEFINE k == [co EXCEPT !.exp = st.exp, !.outcome = x]
             l == [co EXCEPT !.exp = st.exp, !.attempt = -1, !.outcome = x]
             m == [co EXCEPT !.exp = st.exp]
  <2>1. k \in Checkout /\ k.order = co.order /\ k.cart = co.cart
    BY <1>1 DEF Checkout
  <2>2. l \in Checkout /\ l.order = co.order /\ l.cart = co.cart
    BY <1>1 DEF Checkout
  <2>3. m \in Checkout /\ m.order = co.order /\ m.cart = co.cart
    BY <1>1 DEF Checkout
  <2> QED BY <2>1, <2>2, <2>3 DEF CheckoutOK
<1> QED BY <1>2 DEF Refresh, Approved

\* refreshCheckout.
LEMMA RefreshStep == ASSUME PosIInv, NEW s \in Slot, RefreshRead(s) PROVE PosIInv'
<1> DEFINE c == call[s]
           k == Approved(c.co, c.ans.row)
           l == Refresh(c.co, c.ans.row)
<1>0. /\ c.ans # Waiting /\ c.op \in {"poll", "timer"} /\ c.op # "idle" /\ c.op # "account"
      /\ c.op # "begin" /\ c.at = "status" /\ UNCHANGED <<late, ord, sold, now, lost>> /\ key' = key
  BY DEF RefreshRead, Got, server
<1>1. /\ c \in GatewayCall /\ CallOK(c) /\ Tells(c, ord, sold) /\ CheckoutOK(c.co)
      /\ c.order \in 0 .. MaxOrders /\ RegisterOK(reg) /\ key' \in 0 .. MaxKeys /\ c.ans.row \in Row
  BY <1>0, GotFacts
<1>2. CheckoutOK(k) /\ CheckoutOK(l)
  BY <1>1, RefreshTyped
<1>3. CASE Ok(s) /\ PostedRow(c.ans.row) /\ Then(s, "receipt") /\ reg' = SetCheckout(k)
  <2> DEFINE n == Onward(c, "receipt")
  <2>1. call' = [call EXCEPT ![s] = n]
    BY <1>3 DEF Then, Send, Onward
  <2>2. c.order # 0 /\ ord[c.order].invoice
    BY <1>0, <1>1, <1>3 DEF Tells, Ok, PostedRow
  <2>3. Continues(n, c, "receipt", c.order)
    BY <1>1, OnwardTyped
  <2> HIDE DEF n, k
  <2>4. RegisterOK(reg') /\ reg'.receipt = reg.receipt
    BY <1>1, <1>2, <1>3, StoreStates
  <2> QED BY <1>0, <1>1, <2>1, <2>2, <2>3, <2>4, OnwardStep
<1>4. CASE Return(s) /\ reg' \in {ExpireCheckout, SetCheckout(l), reg}
  <2> HIDE DEF l
  <2>1. RegisterOK(reg') /\ reg'.receipt = reg.receipt
    BY <1>1, <1>2, <1>4, StoreStates
  <2> QED BY <1>0, <1>1, <1>4, <2>1, ReturnStep
<1> QED BY <1>3, <1>4 DEF RefreshRead, Approved

\* finishSale: the receipt is of a sale the server posted.
LEMMA FinishedStep == ASSUME PosIInv, NEW s \in Slot, Finished(s) PROVE PosIInv'
<1> DEFINE c == call[s]
           of == IF c.op = "account" THEN c.cart ELSE ord[c.order].cart
<1>0. /\ c.ans # Waiting /\ c.at = "receipt" /\ Return(s)
      /\ UNCHANGED <<late, ord, sold, now, lost>> /\ key' = key
  BY DEF Finished, server
<1>1. PICK shown \in BOOLEAN : reg' = FinishSale(of, shown)
  BY DEF Finished
<1>2. /\ Tells(c, ord, sold) /\ c.order \in 0 .. MaxOrders /\ RegisterOK(reg) /\ key' \in 0 .. MaxKeys
  BY <1>0, GotFacts
<1>3. of \in sold
  <2>1. CASE c.op = "account"
    BY <1>0, <1>2, <2>1 DEF Tells
  <2>2. CASE c.op # "account"
    <3>1. c.order \in Order /\ ord[c.order].invoice
      BY <1>0, <1>2, <2>2, PosPaymentConstants DEF Tells, Order
    <3> QED BY <2>2, <3>1 DEF PosIInv, ServerOK
  <2> QED BY <2>1, <2>2
<1>4. of \in 0 .. MaxCarts
  BY <1>3 DEF PosIInv, ServerOK
<1> HIDE DEF of
<1>5. RegisterOK(reg') /\ reg'.receipt \in {0, reg.receipt} \cup sold
  BY <1>1, <1>2, <1>3, <1>4, StoreStates
<1> QED BY <1>0, <1>2, <1>5, ReturnStep

LEMMA AnsweredStep == ASSUME PosIInv, NEW s \in Slot, Answered(s) PROVE PosIInv'
BY BeginStep, SettledStep, InitiatedStep, CancelledStep, SplitStep, ResolvedStep, RefreshStep,
   FinishedStep DEF Answered

----------------------------------------------------------------------------
\* The theorem.

\* Only the server and the world write the order rows.
LEMMA AnsweredKeeps == ASSUME NEW s \in Slot, Answered(s) PROVE UNCHANGED <<ord, sold>>
BY DEF Answered, BeginPrepared, BeginRead, BeginFound, PayPrepared, Settled, Initiated, Cancelled,
       AccountSold, SplitAnswered, LegAnswered, SplitCancelled, Resolved, RefreshRead, Finished,
       Quiet, server

LEMMA OperatorKeeps == Operator => UNCHANGED <<ord, sold>>
BY DEF Operator, NewSale, CloseReceipt, BeginCheckout, Pay, PayOnAccount, StartSplit, AddSplitPart,
       ReduceBasket, CancelSplit, CancelCheckout, Resolve, Quiet, server

LEMMA PosNext == PosIInv /\ Sale!SaleInv /\ [Next]_vars => PosIInv' /\ SaleNext
<1> SUFFICES ASSUME PosIInv, Sale!SaleInv, [Next]_vars PROVE PosIInv' /\ SaleNext
  OBVIOUS
<1>1. CASE Operator
  BY <1>1, OperatorStep, OperatorKeeps, SameSale
<1>2. ASSUME NEW s \in Slot, Serve(s) PROVE PosIInv' /\ SaleNext
  BY <1>2, ServeStep
<1>3. ASSUME NEW s \in Slot, Lose(s) \/ Answered(s) PROVE PosIInv' /\ SaleNext
  <2>1. UNCHANGED <<ord, sold>>
    BY <1>3, AnsweredKeeps DEF Lose, server
  <2> QED BY <1>3, <2>1, LoseStep, AnsweredStep, SameSale
<1>4. ASSUME NEW q \in late, ServeLate(q) PROVE PosIInv' /\ SaleNext
  BY <1>4, ServeLateStep
<1>5. ASSUME NEW w \in Watches, Poll(w) \/ ExpiryTimer(w) PROVE PosIInv' /\ SaleNext
  <2>1. UNCHANGED <<ord, sold>>
    BY <1>5 DEF Poll, ExpiryTimer, Quiet, server
  <2> QED BY <1>5, <2>1, WatchStep, SameSale
<1>6. ASSUME NEW o \in Order, ProviderPaid(o) \/ ProviderDeclined(o) \/ Sweep(o)
      PROVE  PosIInv' /\ SaleNext
  BY <1>6, WorldStep
<1>7. CASE Tick
  <2>1. UNCHANGED <<ord, sold>>
    BY <1>7 DEF Tick, server
  <2> QED BY <1>7, <2>1, TickStep, SameSale
<1>8. CASE UNCHANGED vars
  <2>1. /\ UNCHANGED <<reg, call, late, ord, sold, now, lost, key>>
        /\ reg' = reg /\ RegisterOK(reg) /\ reg.receipt \in {0, reg.receipt} \cup sold
    BY <1>8 DEF vars, PosIInv
  <2> QED BY <2>1, StoreStep, SameSale
<1> QED BY <1>1, <1>2, <1>3, <1>4, <1>5, <1>6, <1>7, <1>8 DEF Next

LEMMA PosTyped == PosIInv => TypeOK
<1> SUFFICES ASSUME PosIInv PROVE TypeOK
  OBVIOUS
<1>1. /\ reg \in Register /\ reg.checkout \in Checkout /\ reg.split \in SplitView
      /\ ord \in [Order -> Row]
  BY DEF PosIInv, RegisterOK, Register, ServerOK
<1>2. /\ reg.cart \in 0 .. MaxCarts /\ reg.receipt \in 0 .. MaxCarts /\ reg.legKey \in 0 .. MaxKeys
      /\ reg.checkout.order \in 0 .. MaxOrders /\ reg.checkout.exp \in 0 .. MaxTime
      /\ reg.checkout.outcome \in {"none", "approved", "declined", "error", "unknown"}
      /\ reg.split.order \in 0 .. MaxOrders /\ reg.split.got \in 0 .. Parts
  BY <1>1 DEF Register, Checkout, SplitView
<1>3. \A o \in Order : ord[o].state \in OrderState
  BY <1>1 DEF Row
<1> QED BY <1>2, <1>3 DEF TypeOK, OrderState

LEMMA SaleBegins == Init => Sale!Init
<1> SUFFICES ASSUME Init PROVE Sale!Init
  OBVIOUS
<1>1. \A o \in Order : ord[o].cart = 0 /\ ~ord[o].invoice /\ ord[o].state = "none" /\ ~ord[o].settled
  BY DEF Init, NoRow
<1>2. [o \in Order |-> RowStage(ord[o])] = [o \in Order |-> "none"]
  BY <1>1 DEF RowStage
<1>3. [o \in Order |-> ord[o].cart] \in [Order -> 0 .. MaxCarts] /\ {o \in Order : ord[o].settled} = {}
  BY <1>1, PosPaymentConstants
<1> QED BY <1>2, <1>3 DEF Sale!Init, Init

LEMMA PosInductive == Spec => [](PosIInv /\ Sale!SaleInv)
<1>1. Init => PosIInv /\ Sale!SaleInv
  BY PosInit, SaleBegins DEF Sale!Init, Sale!SaleInv, Sale!SaleTypeOK, Sale!OneLiveOrder,
                             Sale!OneInvoice, Sale!PaidOrderKept
<1>2. PosIInv /\ Sale!SaleInv /\ [Next]_vars => (PosIInv /\ Sale!SaleInv)'
  BY PosNext, Sale!SaleStep DEF SaleNext
<1> QED BY <1>1, <1>2, PTL DEF Spec

(***************************************************************************)
(* The register's records stay typed, and the "Sale complete" screen shows *)
(* only sales the server has posted: whatever calls overlap (payments, a   *)
(* dialog closed meanwhile, refreshes by the interval and the timer),      *)
(* whichever answers are lost and however late their requests arrive.      *)
(***************************************************************************)
THEOREM RegisterSafe == Spec => [](TypeOK /\ ReceiptIsPosted)
<1>1. PosIInv => TypeOK /\ ReceiptIsPosted
  BY PosTyped DEF PosIInv
<1> QED BY <1>1, PosInductive, PTL

(***************************************************************************)
(* The server's functions the till calls, the providers and the sweep move *)
(* the orders of a cart by the rules of CartSale only, in whatever order   *)
(* requests arrive, the late ones too.                                     *)
(***************************************************************************)
THEOREM RegisterImplementsSale == Spec => Sale!Spec
<1>1. PosIInv /\ Sale!SaleInv /\ [Next]_vars => [Sale!Next]_(Sale!vars)
  BY PosNext DEF SaleNext
<1> QED BY <1>1, SaleBegins, PosInductive, PTL DEF Spec, Sale!Spec

(***************************************************************************)
(* So a cart never has two orders that may become its invoice, is invoiced *)
(* once, and no settlement is left with an order that was let go; an       *)
(* invoice and a settlement are final.                                     *)
(***************************************************************************)
THEOREM RegisterSaleKept == Spec => []Sale!SaleInv /\ Sale!SaleIsFinal
BY RegisterImplementsSale, Sale!SaleKept, Sale!SaleFinal, PTL

----------------------------------------------------------------------------
(***************************************************************************)
(* Parts of a payment.  A part keeps its key until the register learns     *)
(* what became of it, so of the keys that were ever sent for one part at   *)
(* most one can still be recorded, or is.  The others are spent: they were *)
(* refused by a session that takes no parts any more.                      *)
(***************************************************************************)
LegRequests == {q \in late \cup {call[s] : s \in Slot} : q.at = "leg"}

\* What the argument rests on: the requests under way for one part are for one
\* order, and the cart of that order has not gone on to another order.
OneSession ==
    \A q \in LegRequests : /\ ~Blocked(q.order)
                           /\ \A r \in LegRequests : q.part = r.part => q.order = r.order

SplitEnded(o)   == ord[o].split \notin {"none", "open"}
Unrecorded(k)   == \A o \in Order : \A l \in ord[o].legs : l.key # k
Recorded(k, p)  == \E o \in Order : \E l \in ord[o].legs : l.key = k /\ l.part = p
Requested(k, p) == \E q \in LegRequests : q.key = k /\ q.part = p
KeptKey(k, p)   == k # 0 /\ k = reg.legKey /\ p = reg.part
Used(k, p)      == Recorded(k, p) \/ Requested(k, p) \/ KeptKey(k, p)

\* Key k will not be recorded.
Refuses(k) ==
    Unrecorded(k) /\ \A q \in LegRequests : q.key = k /\ q.ans = Waiting => SplitEnded(q.order)
Spent(k) == k # reg.legKey /\ Refuses(k)

KeyOnce ==
    \A o, p \in Order : \A l \in ord[o].legs, m \in ord[p].legs : l.key = m.key => o = p /\ l = m

KeyRange ==
    /\ \A k, p : Recorded(k, p) \/ Requested(k, p) => k \in 1 .. key /\ p \in Nat /\ p <= reg.part
    /\ reg.legKey \in 0 .. key /\ reg.part \in Nat /\ key \in Nat

KeysOK ==
    /\ KeyOnce /\ KeyRange
    /\ \A k, p, r : Used(k, p) /\ Used(k, r) => p = r
    /\ \A k : Used(k, reg.part) => k = reg.legKey \/ Spent(k)
    /\ \A k, m, p : Used(k, p) /\ Used(m, p) => k = m \/ Spent(k) \/ Spent(m)

\* A step after which there are no new keys, parts or requests.
NoNewPart ==
    /\ \A o \in Order : ord'[o].legs = ord[o].legs /\ (SplitEnded(o) => SplitEnded(o)')
    /\ \A q \in LegRequests' : \E r \in LegRequests :
           /\ r.key = q.key /\ r.part = q.part /\ r.order = q.order /\ r.order \in Order
           /\ q.ans = Waiting => r.ans = Waiting
    /\ key' \in Nat /\ key <= key'

LEMMA SpentStays ==
    ASSUME NoNewPart, NEW k, Refuses(k)
    PROVE  Refuses(k)'
BY DEF NoNewPart, Refuses, Unrecorded

LEMMA UsedBefore ==
    ASSUME NoNewPart, NEW k, NEW p, Recorded(k, p)' \/ Requested(k, p)'
    PROVE  Recorded(k, p) \/ Requested(k, p)
BY DEF NoNewPart, Recorded, Requested

\* Such a step keeps the keys in order; the register may keep its key, go on to the
\* next part, or drop a key that is refused.
LEMMA KeysKept ==
    ASSUME KeysOK, NoNewPart,
           \/ reg'.legKey = reg.legKey /\ reg'.part = reg.part
           \/ reg'.legKey = 0 /\ reg'.part = reg.part + 1
           \/ reg'.legKey = 0 /\ reg'.part = reg.part /\ Refuses(reg.legKey)
    PROVE  KeysOK'
<1>1. KeyOnce'
  BY DEF KeysOK, KeyOnce, NoNewPart
<1>2. KeyRange'
  <2>1. reg.part <= reg'.part /\ reg'.part \in Nat /\ reg'.legKey \in 0 .. key'
    BY DEF KeysOK, KeyRange, NoNewPart
  <2>2. ASSUME NEW k, NEW p, Recorded(k, p)' \/ Requested(k, p)'
        PROVE  k \in 1 .. key' /\ p \in Nat /\ p <= reg'.part
    BY <2>1, <2>2, UsedBefore DEF KeysOK, KeyRange, NoNewPart
  <2> QED BY <2>1, <2>2 DEF KeyRange, NoNewPart
<1>3. ASSUME NEW k, NEW p, Used(k, p)' PROVE Used(k, p) /\ (p = reg'.part => reg'.part = reg.part)
  <2>1. CASE Recorded(k, p)' \/ Requested(k, p)'
    BY <2>1, UsedBefore DEF Used, KeysOK, KeyRange
  <2>2. CASE KeptKey(k, p)'
    BY <2>2 DEF Used, KeptKey
  <2> QED BY <1>3, <2>1, <2>2 DEF Used
<1>4. ASSUME NEW k, Spent(k), k # 0 PROVE Spent(k)'
  BY <1>4, SpentStays DEF Spent
<1>5. ASSUME NEW k, NEW p, Used(k, p)' PROVE k # 0
  BY <1>5, UsedBefore DEF Used, KeptKey, KeysOK, KeyRange
<1>6. ASSUME NEW k, Used(k, reg.part)' PROVE k = reg'.legKey \/ Spent(k)'
  <2>1. Used(k, reg.part) /\ reg'.part = reg.part /\ k # 0
    BY <1>3, <1>5, <1>6
  <2>2. CASE k = reg.legKey /\ k # reg'.legKey
    <3>1. Refuses(k)
      BY <2>1, <2>2 DEF KeysOK, KeyRange
    <3> QED BY <2>2, <3>1, SpentStays DEF Spent
  <2> QED BY <1>4, <2>1, <2>2 DEF KeysOK
<1>7. \A k, p, r : Used(k, p)' /\ Used(k, r)' => p = r
  BY <1>3 DEF KeysOK
<1>8. ASSUME NEW k, NEW m, NEW p, Used(k, p)', Used(m, p)' PROVE k = m \/ Spent(k)' \/ Spent(m)'
  BY <1>3, <1>4, <1>5, <1>8 DEF KeysOK
<1> QED BY <1>1, <1>2, <1>6, <1>7, <1>8 DEF KeysOK

\* The register asks for a part: again with its key, or with a new one.
LEMMA KeyAsked ==
    ASSUME KeysOK, UNCHANGED ord, NEW c,
           \A q \in LegRequests' : q \in LegRequests \/ q = c,
           c.key = reg'.legKey, c.part = reg.part, reg'.part = reg.part,
           \/ reg.legKey # 0 /\ reg'.legKey = reg.legKey /\ key' = key
           \/ reg.legKey = 0 /\ reg'.legKey = key + 1 /\ key' = key + 1
    PROVE  KeysOK'
<1> DEFINE k0 == reg'.legKey
<1>0. k0 # 0 /\ k0 \in 1 .. key' /\ key <= key' /\ key' \in Nat
  BY DEF KeysOK, KeyRange
<1>1. KeyOnce'
  BY DEF KeysOK, KeyOnce
<1>2. ASSUME NEW k, NEW p, Recorded(k, p)' \/ Requested(k, p)'
      PROVE  Recorded(k, p) \/ Requested(k, p) \/ (k = k0 /\ p = reg.part)
  BY <1>2 DEF Recorded, Requested
<1>3. KeyRange'
  BY <1>0, <1>2 DEF KeysOK, KeyRange
<1>4. ASSUME NEW k, NEW p, Used(k, p)' PROVE Used(k, p) \/ (k = k0 /\ p = reg.part)
  BY <1>2, <1>4 DEF Used, KeptKey
<1>5. ASSUME NEW k, NEW p, Used(k, p), k = k0 PROVE p = reg.part
  <2>1. CASE reg.legKey # 0
    <3>1. Used(k0, reg.part)
      BY <2>1 DEF Used, KeptKey
    <3> QED BY <1>5, <3>1 DEF KeysOK
  <2>2. CASE reg.legKey = 0
    BY <1>5, <2>2 DEF KeysOK, KeyRange, Used, KeptKey
  <2> QED BY <2>1, <2>2
<1>6. ASSUME NEW k, Spent(k), k # k0 PROVE Spent(k)'
  BY <1>6 DEF Spent, Refuses, Unrecorded, SplitEnded
<1>7. \A k, p, r : Used(k, p)' /\ Used(k, r)' => p = r
  BY <1>4, <1>5 DEF KeysOK
<1>8. ASSUME NEW k, Used(k, reg.part)' PROVE k = k0 \/ Spent(k)'
  <2>1. CASE k # k0
    <3>1. Used(k, reg.part) /\ k # 0
      BY <1>4, <1>8, <2>1 DEF Used, KeptKey, KeysOK, KeyRange
    <3>2. Spent(k)
      BY <2>1, <3>1 DEF KeysOK
    <3> QED BY <1>6, <2>1, <3>2
  <2> QED BY <2>1
<1>9. ASSUME NEW k, NEW m, NEW p, Used(k, p)', Used(m, p)' PROVE k = m \/ Spent(k)' \/ Spent(m)'
  <2>1. CASE p = reg.part
    BY <1>8, <1>9, <2>1
  <2>2. CASE p # reg.part
    <3>1. Used(k, p) /\ Used(m, p) /\ k # k0 /\ m # k0
      BY <1>4, <1>5, <1>9, <2>2
    <3> QED BY <1>6, <3>1 DEF KeysOK
  <2> QED BY <2>1, <2>2
<1> QED BY <1>1, <1>3, <1>7, <1>8, <1>9 DEF KeysOK

\* A session records a part that was asked for.
LEMMA KeyRecorded ==
    ASSUME KeysOK, NEW q \in LegRequests, q.ans = Waiting, q.order \in Order, ~SplitEnded(q.order),
           Unrecorded(q.key), UNCHANGED <<reg, key>>,
           \A r \in LegRequests' : \E x \in LegRequests :
               /\ x.key = r.key /\ x.part = r.part /\ x.order = r.order /\ x.order \in Order
               /\ r.ans = Waiting => x.ans = Waiting,
           \A o \in Order \ {q.order} : ord'[o].legs = ord[o].legs,
           ord'[q.order].legs = ord[q.order].legs \cup {[key |-> q.key, part |-> q.part]},
           \A o \in Order : SplitEnded(o) => SplitEnded(o)'
    PROVE  KeysOK'
<1>1. Requested(q.key, q.part) /\ Used(q.key, q.part)
  BY DEF Requested, Used
<1>2. ASSUME NEW o \in Order, NEW l \in ord'[o].legs
      PROVE  l \in ord[o].legs \/ (o = q.order /\ l = [key |-> q.key, part |-> q.part])
  BY <1>2
<1>3. KeyOnce'
  BY <1>2 DEF KeysOK, KeyOnce, Unrecorded
<1>4. ASSUME NEW k, NEW p, Recorded(k, p)' \/ Requested(k, p)' PROVE Recorded(k, p) \/ Requested(k, p)
  BY <1>1, <1>2, <1>4 DEF Recorded, Requested
<1>5. KeyRange'
  BY <1>4 DEF KeysOK, KeyRange
<1>6. ASSUME NEW k, NEW p, Used(k, p)' PROVE Used(k, p)
  BY <1>4, <1>6 DEF Used, KeptKey
<1>7. ASSUME NEW k, Spent(k) PROVE Spent(k)'
  <2>1. k # q.key
    BY <1>7 DEF Spent, Refuses
  <2>2. Unrecorded(k)'
    BY <1>2, <1>7, <2>1 DEF Spent, Refuses, Unrecorded
  <2> QED BY <1>7, <2>2 DEF Spent, Refuses
<1> QED BY <1>3, <1>5, <1>6, <1>7 DEF KeysOK

----------------------------------------------------------------------------
\* What the server does to parts and sessions.

\* Without a session there are no parts; one that takes parts still lacks some.
PartsOf(r) == /\ r.split = "none" => r.legs = {}
              /\ r.split = "open" => Cardinality(r.legs) < Parts
SplitsOK == \A o \in Order : PartsOf(ord[o])

\* A session stays, and does not take parts again.
GoesOn(o, r) ==
    /\ r.split = "none" => ord[o].split = "none"
    /\ SplitEnded(o) => r.split \notin {"none", "open"}
    /\ PartsOf(r)

\* Row r has the parts of the order in row o.
Keeps(o, r) ==
    /\ r.legs = ord[o].legs
    /\ r.split \in {ord[o].split} \cup (SplitState \ {"none", "open"})
       \/ (ord[o].split = "none" /\ r.split = "open")

\* A part is known already, refused for good, or recorded.
PartServed(q, e) ==
    \/ e.ord = ord /\ e.ans.kind = "ok"
    \/ e.ord = ord /\ Unrecorded(q.key) /\ SplitEnded(q.order)
    \/ /\ Unrecorded(q.key) /\ ~SplitEnded(q.order) /\ e.ans.kind = "ok"
       /\ e.ord[q.order].legs = ord[q.order].legs \cup {[key |-> q.key, part |-> q.part]}
       /\ \A o \in Order \ {q.order} : e.ord[o].legs = ord[o].legs

PartsServed(q, e) ==
    /\ \A o \in Order : GoesOn(o, e.ord[o]) /\ (q.at # "leg" => e.ord[o].legs = ord[o].legs)
    /\ e.ans.kind = "ok" =>
          /\ e.ans.row.split # "none" => e.ans.order \in Order /\ e.ord[e.ans.order].split # "none"
          /\ q.at = "findSplit" => e.ans.order = q.order
    /\ q.at = "leg" => e.ans.kind \in {"ok", "refused"} /\ PartServed(q, e)

LEMMA KeepsGoesOn ==
    ASSUME SplitsOK, NEW o \in Order, NEW r, Keeps(o, r)
    PROVE  GoesOn(o, r)
<1>1. CASE r.split = ord[o].split
  BY <1>1 DEF SplitsOK, PartsOf, Keeps, GoesOn, SplitEnded
<1>2. CASE r.split \notin {"none", "open"}
  BY <1>2 DEF PartsOf, GoesOn
<1>3. CASE ord[o].split = "none" /\ r.split = "open"
  <2>1. r.legs = {} /\ Cardinality(r.legs) < Parts
    BY <1>3, PosPaymentConstants, FS_EmptySet DEF SplitsOK, PartsOf, Keeps
  <2> QED BY <1>3, <2>1 DEF PartsOf, GoesOn, SplitEnded
<1> QED BY <1>1, <1>2, <1>3 DEF Keeps

LEMMA SaysParts ==
    ASSUME SplitsOK, NEW q, q.at # "leg", NEW k, k # "ok"
    PROVE  PartsServed(q, Says(k))
<1> DEFINE e == Says(k)
<1>1. e.ord = ord /\ e.ans = [Waiting EXCEPT !.kind = k]
  BY DEF Says
<1>2. e.ans.kind = k
  BY <1>1 DEF Waiting
<1> HIDE DEF e
<1>3. \A o \in Order : GoesOn(o, ord[o])
  BY DEF SplitsOK, GoesOn, SplitEnded
<1>4. PartsServed(q, e)
  BY <1>1, <1>2, <1>3 DEF PartsServed
<1> QED BY <1>4 DEF e

LEMMA WriteParts ==
    ASSUME SplitsOK, ServerOK, NEW q, q.at # "leg", NEW o \in Order, NEW r, Keeps(o, r),
           q.at = "findSplit" => o = q.order
    PROVE  PartsServed(q, Writes(o, r))
<1> DEFINE e == Writes(o, r)
<1>1. e.ord = [ord EXCEPT ![o] = r] /\ e.ans = [kind |-> "ok", order |-> o, row |-> r]
  BY DEF Writes
<1> HIDE DEF e
<1>2. e.ord[o] = r /\ \A x \in Order \ {o} : e.ord[x] = ord[x]
  BY <1>1 DEF ServerOK
<1>3. e.ans.kind = "ok" /\ e.ans.order = o /\ e.ans.row = r
  BY <1>1
<1>4. \A x \in Order : GoesOn(x, e.ord[x]) /\ e.ord[x].legs = ord[x].legs
  <2>1. \A x \in Order : GoesOn(x, ord[x])
    BY DEF SplitsOK, GoesOn, SplitEnded
  <2> QED BY <1>2, <2>1, KeepsGoesOn DEF Keeps
<1>5. PartsServed(q, e)
  BY <1>2, <1>3, <1>4 DEF PartsServed
<1> QED BY <1>5 DEF e

\* Release, Refreshed and Posted leave the parts and the session alone.
LEMMA PartFields ==
    ASSUME NEW r \in Row
    PROVE  /\ \A t \in Closed : /\ Release(r, t) \in Row
                                /\ Release(r, t).legs = r.legs /\ Release(r, t).split = r.split
           /\ Refreshed(r).legs = r.legs /\ Refreshed(r).split = r.split
           /\ ClockOK => Refreshed(r) \in Row
           /\ Posted(r) \in Row /\ Posted(r).legs = r.legs /\ Posted(r).split = r.split
<1>1. ASSUME NEW t \in Closed
      PROVE  Release(r, t) \in Row /\ Release(r, t).legs = r.legs /\ Release(r, t).split = r.split
  <2>1. t \in OrderState
    BY DEF OrderState
  <2> DEFINE n == [r EXCEPT !.state = t, !.locks = FALSE, !.held = FALSE]
  <2>2. n \in Row /\ n.legs = r.legs /\ n.split = r.split
    BY <2>1 DEF Row
  <2>3. Release(r, t) = IF r.settled THEN r ELSE n
    BY DEF Release
  <2> HIDE DEF n
  <2> QED BY <2>2, <2>3
<1>2. /\ Refreshed(r).legs = r.legs /\ Refreshed(r).split = r.split
      /\ ClockOK => Refreshed(r) \in Row
  <2> DEFINE s == IF r.legs = {} THEN "awaiting_payment" ELSE "payment_processing"
             i == IF r.intent = "none" THEN r.intent ELSE "loose"
             x == IF r.legs = {} THEN r.exp ELSE Later(r.exp)
             n == [r EXCEPT !.state = s, !.intent = i, !.exp = x]
  <2>1. Refreshed(r) = IF r.settled \/ r.split \notin {"open", "failed"} THEN r ELSE n
    BY DEF Refreshed
  <2>2. s \in OrderState /\ i \in {"none", "active", "loose"} /\ (ClockOK => x \in 0 .. MaxTime)
    BY DeadlineTyped DEF Row, OrderState, Open
  <2> HIDE DEF s, i, x
  <2>3. n.legs = r.legs /\ n.split = r.split /\ (ClockOK => n \in Row)
    BY <2>2 DEF Row
  <2> HIDE DEF n
  <2> QED BY <2>1, <2>3
<1>3. Posted(r) \in Row /\ Posted(r).legs = r.legs /\ Posted(r).split = r.split
  BY DEF Posted, Row, OrderState
<1> QED BY <1>1, <1>2, <1>3

LEMMA FinalizeKeeps ==
    ASSUME NEW o, NEW r \in Row, NEW e \in Finalize(o, r)
    PROVE  \E n : e = Writes(o, n) /\ n.legs = r.legs /\ n.split \in SplitState \ {"none", "open"}
<1>1. CASE e = Writes(o, [Posted(r) EXCEPT !.split = "settled"])
  <2> DEFINE n == [Posted(r) EXCEPT !.split = "settled"]
  <2>1. Posted(r) \in Row /\ Posted(r).legs = r.legs
    BY PartFields
  <2>2. n.legs = r.legs /\ n.split = "settled"
    BY <2>1 DEF Row
  <2> HIDE DEF n
  <2> QED BY <1>1, <2>2 DEF SplitState, n
<1>2. CASE e = Writes(o, [r EXCEPT !.split = "failed", !.state = "payment_processing"])
  <2> DEFINE n == [r EXCEPT !.split = "failed", !.state = "payment_processing"]
  <2>1. n.legs = r.legs /\ n.split = "failed"
    BY DEF Row
  <2> HIDE DEF n
  <2> QED BY <1>2, <2>1 DEF SplitState, n
<1> QED BY <1>1, <1>2 DEF Finalize

\* prepare_pos_commerce_checkout: a lapsed order keeps its parts, a new one has none.
LEMMA PrepareParts ==
    ASSUME ServerOK, SplitsOK, NEW q, q.at = "prepare", NEW e \in Prepare(q)
    PROVE  PartsServed(q, e)
<1> DEFINE own     == {o \in OfCart(q.cart) : ord[o].locks /\ Active(o)}
           current == {o \in own : ord[o].exp > now}
           same    == {o \in OfCart(q.cart) : ord[o].req = q.req}
           free    == {o \in Order : ord[o].cart = 0}
           closed  == [o \in Order |-> IF o \in own \ current
                                       THEN Release(ord[o], "payment_expired") ELSE ord[o]]
           give(f, o) == [ord |-> f, sold |-> sold, ans |-> [kind |-> "ok", order |-> o, row |-> f[o]]]
           new     == [NoRow EXCEPT !.cart = q.cart, !.req = q.req, !.state = "awaiting_payment",
                                    !.exp = now + TTL, !.locks = TRUE, !.held = TRUE]
           lowest  == CHOOSE x \in free : \A y \in free : x <= y
           alone   == ~\E o \in OfCart(q.cart) : Live(o) /\ closed[o] = ord[o]
<1>1. CASE e \in Refused
  BY <1>1, SaysParts DEF Refused
<1>2. \A o \in Order : Keeps(o, ord[o]) /\ Keeps(o, closed[o])
  <2>1. \A o \in Order : ord[o] \in Row
    BY DEF ServerOK
  <2>2. \A o \in Order : closed[o].legs = ord[o].legs /\ closed[o].split = ord[o].split
    <3>1. "payment_expired" \in Closed
      BY DEF Closed
    <3>2. \A o \in Order : LET x == Release(ord[o], "payment_expired")
                           IN x.legs = ord[o].legs /\ x.split = ord[o].split
      BY <2>1, <3>1, PartFields
    <3> HIDE DEF own, current
    <3> QED BY <3>2
  <2> HIDE DEF closed
  <2> QED BY <2>2 DEF Keeps
<1>3. ASSUME NEW f, NEW o \in Order, e = give(f, o), \A x \in Order : Keeps(x, f[x])
      PROVE  PartsServed(q, e)
  <2>1. \A x \in Order : GoesOn(x, f[x]) /\ f[x].legs = ord[x].legs
    BY <1>3, KeepsGoesOn DEF Keeps
  <2>2. e.ord = f /\ e.ans.order = o /\ e.ans.row = f[o]
    BY <1>3
  <2> HIDE DEF give
  <2> QED BY <2>1, <2>2 DEF PartsServed
<1>4. CASE \E o \in current : e = give(ord, o)
  BY <1>2, <1>3, <1>4 DEF OfCart
<1>5. CASE \E o \in same : e = give(closed, o)
  <2> HIDE DEF closed, give
  <2> QED BY <1>2, <1>3, <1>5 DEF OfCart
<1>6. CASE free # {} /\ e = give([closed EXCEPT ![lowest] = new], lowest)
  <2>1. lowest \in free
    <3> HIDE DEF closed, new, alone
    <3>1. free \subseteq Nat /\ free # {}
      BY <1>6, PosPaymentConstants DEF Order
    <3> HIDE DEF free
    <3> QED BY <3>1, LowestNumber
  <2>2. lowest \in Order /\ ord[lowest].cart = 0
    BY <2>1
  <2> HIDE DEF lowest
  <2>3. new.legs = {} /\ new.split = "none"
    BY DEF NoRow
  <2>4. Keeps(lowest, new)
    <3>1. ord[lowest].split = "none" /\ ord[lowest].legs = {}
      BY <2>2 DEF ServerOK, RowOK, SplitsOK, PartsOf
    <3> HIDE DEF new
    <3> QED BY <2>3, <3>1 DEF Keeps
  <2> DEFINE f == [closed EXCEPT ![lowest] = new]
  <2>5. f[lowest] = new /\ \A x \in Order \ {lowest} : f[x] = closed[x]
    <3> HIDE DEF new, own, current
    <3> QED BY <2>2
  <2>6. \A x \in Order : Keeps(x, f[x])
    <3> HIDE DEF f, new, closed
    <3> QED BY <1>2, <2>4, <2>5
  <2>7. e = give(f, lowest)
    BY <1>6 DEF lowest
  <2> HIDE DEF give, f
  <2> QED BY <1>3, <2>2, <2>6, <2>7
<1>7. e \in Refused \/ (\E o \in current : e = give(ord, o)) \/ (\E o \in same : e = give(closed, o))
       \/ (free # {} /\ e = give([closed EXCEPT ![lowest] = new], lowest))
  <2>1. e \in IF q.cart \in sold THEN Refused
             ELSE IF current # {} THEN {give(ord, x) : x \in current}
             ELSE IF same # {} THEN {give(closed, x) : x \in same}
             ELSE IF ~alone THEN Refused
             ELSE IF free = {} \/ now + TTL > MaxTime THEN Refused
             ELSE {give([closed EXCEPT ![lowest] = new], lowest)}
    BY DEF Prepare
  <2> HIDE DEF give, closed, new, same, free, alone, lowest, current
  <2> QED BY <2>1
<1> QED BY <1>1, <1>4, <1>5, <1>6, <1>7

\* add_pos_split_payment_leg.
LEMMA LegParts ==
    ASSUME ServerOK, ClockOK, SplitsOK, NEW q, CallOK(q), q.op # "idle", q.at = "leg",
           ord[q.order].split # "none", ~Blocked(q.order), NEW e \in AddLeg(q)
    PROVE  PartsServed(q, e)
<1> DEFINE r     == ord[q.order]
           owner == {o \in Order : \E l \in ord[o].legs : l.key = q.key}
           tag   == [key |-> q.key, part |-> q.part]
           more  == [r EXCEPT !.legs = @ \cup {tag}]
           next  == Refreshed(more)
<1>1. q.order \in Order /\ q.key \in 0 .. MaxKeys /\ q.part \in Nat
  BY PosPaymentConstants DEF CallOK, GatewayCall, Order
<1>2. RowOK(r) /\ r \in Row /\ PartsOf(r) /\ r.split # "none" /\ Cardinality(r.legs) \in Nat
  BY <1>1, FS_CardinalityType DEF ServerOK, SplitsOK, RowOK
<1>3. owner = {} <=> Unrecorded(q.key)
  BY DEF Unrecorded
<1>4. \A o \in Order : GoesOn(o, ord[o])
  BY DEF SplitsOK, GoesOn, SplitEnded
<1>5. CASE \E o \in owner : e = Writes(o, ord[o])
  <2>1. PICK o \in Order : o \in owner /\ e = Writes(o, ord[o])
    BY <1>5
  <2>2. e.ord = [ord EXCEPT ![o] = ord[o]] /\ e.ans = [kind |-> "ok", order |-> o, row |-> ord[o]]
    BY <2>1 DEF Writes
  <2>3. e.ord = ord
    BY <2>2 DEF ServerOK
  <2>4. e.ans.kind = "ok" /\ e.ans.order = o /\ e.ans.row = ord[o]
    BY <2>2
  <2> QED BY <1>4, <2>3, <2>4 DEF PartsServed, PartServed
<1>6. CASE Unrecorded(q.key) /\ SplitEnded(q.order) /\ e \in Refused
  <2>1. e.ord = ord /\ e.ans.kind = "refused"
    BY <1>6 DEF Refused, Says, Waiting
  <2> QED BY <1>4, <1>6, <2>1 DEF PartsServed, PartServed
<1>7. ASSUME NEW n, e = Writes(q.order, n), n.legs = r.legs \cup {tag}, Unrecorded(q.key),
             r.split = "open", n.split # "none", n.split = "open" => Cardinality(n.legs) < Parts
      PROVE  PartsServed(q, e)
  <2>1. e.ord = [ord EXCEPT ![q.order] = n] /\ e.ans = [kind |-> "ok", order |-> q.order, row |-> n]
    BY <1>7 DEF Writes
  <2>2. e.ord[q.order] = n /\ \A x \in Order \ {q.order} : e.ord[x] = ord[x]
    BY <1>1, <2>1 DEF ServerOK
  <2>3. e.ans.kind = "ok" /\ e.ans.order = q.order /\ e.ans.row = n
    BY <2>1
  <2>4. ~SplitEnded(q.order) /\ GoesOn(q.order, n)
    BY <1>7 DEF GoesOn, PartsOf, SplitEnded
  <2> HIDE DEF r
  <2>5. PartServed(q, e)
    BY <1>7, <2>2, <2>3, <2>4 DEF PartServed, r
  <2> QED BY <1>1, <1>4, <1>7, <2>2, <2>3, <2>4, <2>5 DEF PartsServed
<1>8. next \in Row /\ next.legs = r.legs \cup {tag} /\ next.split = r.split
  <2>1. r.cart # 0
    BY <1>2 DEF RowOK
  <2>2. more \in Row /\ more.legs = r.legs \cup {tag} /\ more.split = r.split
    BY <1>1, <1>2 DEF Row
  <2> HIDE DEF more
  <2>3. next.legs = more.legs /\ next.split = more.split
    BY <2>2, PartFields
  <2>4. next \in Row
    BY <2>2, PartFields
  <2> HIDE DEF next, r
  <2> QED BY <2>2, <2>3, <2>4
<1>9. CASE /\ Unrecorded(q.key) /\ r.split = "open" /\ Cardinality(next.legs) < Parts
           /\ e = Writes(q.order, next)
  <2> HIDE DEF next, r
  <2> QED BY <1>7, <1>8, <1>9
<1>10. CASE Unrecorded(q.key) /\ r.split = "open" /\ e \in Finalize(q.order, next)
  <2> HIDE DEF next, r
  <2>1. PICK n : /\ e = Writes(q.order, n) /\ n.legs = next.legs
                 /\ n.split \in SplitState \ {"none", "open"}
    BY <1>8, <1>10, FinalizeKeeps
  <2> QED BY <1>7, <1>8, <1>10, <2>1
<1>11. \/ \E o \in owner : e = Writes(o, ord[o])
       \/ owner = {} /\ (r.split # "open" \/ Cardinality(r.legs) >= Parts) /\ e \in Refused
       \/ owner = {} /\ r.split = "open" /\ Cardinality(next.legs) < Parts /\ e = Writes(q.order, next)
       \/ owner = {} /\ r.split = "open" /\ e \in Finalize(q.order, next)
  <2>1. e \in IF owner # {} THEN {Writes(o, ord[o]) : o \in owner}
              ELSE IF r.split # "open" \/ Cardinality(r.legs) >= Parts \/ Blocked(q.order)
              THEN Refused
              ELSE IF Cardinality(next.legs) < Parts THEN {Writes(q.order, next)}
              ELSE Finalize(q.order, next)
    BY DEF AddLeg
  <2> HIDE DEF r, next, owner
  <2> QED BY <2>1
<1>12. r.split # "open" \/ Cardinality(r.legs) >= Parts => SplitEnded(q.order)
  <2>1. \A a \in Nat : a < Parts => ~(a >= Parts)
    BY PosPaymentConstants
  <2> QED BY <1>2, <2>1 DEF PartsOf, SplitEnded
<1> HIDE DEF r, next, owner
<1> QED BY <1>3, <1>5, <1>6, <1>9, <1>10, <1>11, <1>12

\* What a session does with a row of its own.
LEMMA FinalizeParts ==
    ASSUME ServerOK, SplitsOK, NEW q, q.at \notin {"leg", "findSplit"}, NEW o \in Order, NEW r \in Row,
           r.legs = ord[o].legs, NEW e \in Finalize(o, r)
    PROVE  PartsServed(q, e)
<1>1. PICK n : e = Writes(o, n) /\ n.legs = r.legs /\ n.split \in SplitState \ {"none", "open"}
  BY FinalizeKeeps
<1> QED BY <1>1, WriteParts DEF Keeps

\* Every other request that writes a row.
LEMMA RowParts ==
    ASSUME ServerOK, ClockOK, SplitsOK, NEW q, CallOK(q), q.op # "idle",
           q.at \in {"settle", "provider", "cancel", "release", "startSplit", "reduce", "retry",
                     "cancelSplit", "repair"},
           NEW e \in Effects(q)
    PROVE  PartsServed(q, e)
<1> DEFINE r == ord[q.order]
<1>1. q.order \in Order /\ q.key \in 0 .. MaxKeys /\ q.at \notin {"leg", "findSplit"}
  BY PosPaymentConstants DEF CallOK, GatewayCall, Order
<1>2. r \in Row /\ "cancelled" \in Closed
  BY <1>1 DEF ServerOK, Closed
<1>3. CASE e \in Refused \/ e = Says("expired")
  BY <1>1, <1>3, SaysParts DEF Refused
<1>4. ASSUME NEW n, n.legs = r.legs, n.split = r.split, e = Writes(q.order, n)
      PROVE  PartsServed(q, e)
  BY <1>1, <1>4, WriteParts DEF Keeps
<1> HIDE DEF r
<1>5. CASE q.at = "settle"
  <2> DEFINE n == [Posted(r) EXCEPT !.pay = q.key]
  <2>1. n.legs = r.legs /\ n.split = r.split
    BY <1>2, PartFields DEF Row
  <2>2. e \in Refused \/ e = Says("expired") \/ e = Writes(q.order, r) \/ e = Writes(q.order, n)
    BY <1>5 DEF Effects, Settle, r
  <2> HIDE DEF n
  <2> QED BY <1>3, <1>4, <2>1, <2>2
<1>6. CASE q.at = "provider"
  <2> DEFINE n == [r EXCEPT !.state = "payment_processing", !.intent = "active"]
  <2>1. n.legs = r.legs /\ n.split = r.split
    BY <1>2 DEF Row
  <2>2. e \in Refused \/ e = Writes(q.order, r) \/ e = Writes(q.order, n)
    BY <1>6 DEF Effects, Initiate, r
  <2> HIDE DEF n
  <2> QED BY <1>3, <1>4, <2>1, <2>2
<1>7. CASE q.at \in {"cancel", "release"}
  <2>1. e \in Refused \/ e = Writes(q.order, Release(r, "cancelled"))
    BY <1>7 DEF Effects, Cancel, r
  <2> QED BY <1>2, <1>3, <1>4, <2>1, PartFields
<1>8. CASE q.at = "startSplit"
  <2> DEFINE s == IF r.split = "none" THEN "open" ELSE r.split
             x == Later(r.exp)
             n == [r EXCEPT !.split = s, !.state = "payment_processing", !.exp = x]
  <2>1. x \in 0 .. MaxTime /\ s \in SplitState
    BY <1>2, DeadlineTyped DEF Row, SplitState
  <2>2. s = r.split \/ (r.split = "none" /\ s = "open")
    OBVIOUS
  <2>3. e \in Refused \/ e = Writes(q.order, Refreshed(n))
    BY <1>8 DEF Effects, StartSession, r
  <2> HIDE DEF s, x
  <2>4. n \in Row /\ n.legs = r.legs /\ n.split = s
    BY <1>2, <2>1 DEF Row, OrderState, Open
  <2> HIDE DEF n
  <2>5. Refreshed(n).legs = r.legs /\ Refreshed(n).split = s
    BY <2>4, PartFields
  <2>6. Keeps(q.order, Refreshed(n))
    BY <2>2, <2>5 DEF Keeps, r
  <2> QED BY <1>1, <1>3, <2>3, <2>6, WriteParts
<1>9. CASE q.at = "reduce"
  <2> DEFINE x == Later(r.exp)
             n == [r EXCEPT !.exp = x, !.held = TRUE]
  <2>1. x \in 0 .. MaxTime
    BY <1>2, DeadlineTyped DEF Row
  <2>2. e \in Refused \/ e \in Finalize(q.order, Refreshed(n))
    BY <1>9 DEF Effects, AcceptReduced, r
  <2> HIDE DEF x
  <2>3. n \in Row /\ n.legs = r.legs
    BY <1>2, <2>1 DEF Row
  <2> HIDE DEF n
  <2>4. Refreshed(n) \in Row /\ Refreshed(n).legs = r.legs
    BY <2>3, PartFields
  <2> QED BY <1>1, <1>3, <2>2, <2>4, FinalizeParts DEF r
<1>10. CASE q.at = "retry"
  <2>1. e \in Refused \/ e \in Finalize(q.order, Refreshed(r))
    BY <1>10 DEF Effects, RetrySession, r
  <2>2. Refreshed(r) \in Row /\ Refreshed(r).legs = r.legs
    BY <1>2, PartFields
  <2> QED BY <1>1, <1>3, <2>1, <2>2, FinalizeParts DEF r
<1>11. CASE q.at = "cancelSplit"
  <2> DEFINE m == Release(Refreshed(r), "cancelled")
             n == [m EXCEPT !.split = "cancelled"]
  <2>1. Refreshed(r) \in Row /\ Refreshed(r).legs = r.legs
    BY <1>2, PartFields
  <2>2. m \in Row /\ m.legs = r.legs
    BY <1>2, <2>1, PartFields
  <2>3. e \in Refused \/ e = Writes(q.order, n)
    BY <1>11 DEF Effects, CancelSession, r
  <2> HIDE DEF m
  <2>4. n.legs = r.legs /\ n.split = "cancelled"
    BY <2>2 DEF Row
  <2> HIDE DEF n
  <2>5. Keeps(q.order, n)
    BY <2>4 DEF Keeps, r, SplitState
  <2> QED BY <1>1, <1>3, <2>3, <2>5, WriteParts
<1>12. CASE q.at = "repair"
  <2> DEFINE x == Deadline(TTL)
             m == [r EXCEPT !.exp = x]
  <2>1. x \in 0 .. MaxTime
    BY DeadlineTyped DEF TTL
  <2>2. e \in Refused \/ e = Writes(q.order, Posted(m))
    BY <1>12 DEF Effects, Repair, r
  <2> HIDE DEF x
  <2>3. m \in Row /\ m.legs = r.legs /\ m.split = r.split
    BY <1>2, <2>1 DEF Row
  <2> HIDE DEF m
  <2>4. Posted(m).legs = r.legs /\ Posted(m).split = r.split
    BY <2>3, PartFields
  <2> QED BY <1>3, <1>4, <2>2, <2>4
<1> QED BY <1>5, <1>6, <1>7, <1>8, <1>9, <1>10, <1>11, <1>12

\* Every request.
LEMMA EffectsParts ==
    ASSUME ServerOK, ClockOK, SplitsOK, NEW q, CallOK(q), q.op # "idle",
           q.at = "leg" => ord[q.order].split # "none" /\ ~Blocked(q.order), NEW e \in Effects(q)
    PROVE  PartsServed(q, e)
<1>1. CASE q.at = "prepare"
  BY <1>1, PrepareParts DEF Effects
<1>2. CASE q.at = "leg"
  BY <1>2, LegParts DEF Effects
<1>3. CASE q.at \in {"settle", "provider", "cancel", "release", "startSplit", "reduce", "retry",
                     "cancelSplit", "repair"}
  BY <1>3, RowParts
<1>4. CASE q.at = "account"
  <2>1. CASE e \in Refused
    BY <1>4, <2>1, SaysParts DEF Refused
  <2>2. CASE e = [ord |-> ord, sold |-> sold \cup {q.cart}, ans |-> [Waiting EXCEPT !.kind = "ok"]]
    <3>1. e.ord = ord /\ e.ans.row.split = "none"
      BY <2>2 DEF Waiting, NoRow
    <3>2. \A o \in Order : GoesOn(o, ord[o])
      BY DEF SplitsOK, GoesOn, SplitEnded
    <3> QED BY <1>4, <3>1, <3>2 DEF PartsServed
  <2> QED BY <1>4, <2>1, <2>2 DEF Effects, OnAccount
<1>5. CASE q.at \notin {"prepare", "settle", "provider", "cancel", "release", "account", "startSplit",
                        "leg", "reduce", "retry", "cancelSplit", "repair"}
  <2>1. q.order \in Order
    BY <1>5, PosPaymentConstants DEF CallOK, GatewayCall, Order
  <2>2. e = Writes(q.order, ord[q.order])
    BY <1>5, <2>1, PosPaymentConstants DEF Effects, Read, Order
  <2> QED BY <1>5, <2>1, <2>2, WriteParts DEF Keeps
<1> QED BY <1>1, <1>2, <1>3, <1>4, <1>5

----------------------------------------------------------------------------
\* The invariant that keeps parts apart, and its steps.

\* The answer a part gets: it is refused only by a session that has ended.
LegCallOK(s) ==
    call[s].at = "leg" =>
        /\ s = "pay" /\ call[s].op # "idle" /\ reg.legKey \in {0, call[s].key}
        /\ call[s].ans = Waiting \/ call[s].ans.kind \in {"ok", "refused", "net"}
        /\ call[s].ans.kind = "refused" => SplitEnded(call[s].order) /\ Unrecorded(call[s].key)

\* An answer that shows a session is about an order that has one.
AnswerKept(s) ==
    call[s].ans.kind = "ok" =>
        /\ call[s].ans.row.split # "none" =>
              call[s].ans.order \in Order /\ ord[call[s].ans.order].split # "none"
        /\ call[s].at = "findSplit" => call[s].ans.order = call[s].order

SplitShownOK == reg.split.status # "none" => ord[reg.split.order].split # "none"

PartInv ==
    /\ KeysOK /\ SplitsOK /\ SplitShownOK
    /\ \A s \in Slot : LegCallOK(s) /\ AnswerKept(s)
    /\ \A q \in LegRequests : ord[q.order].split # "none"
    /\ \A q \in late : q.ans = Waiting

LEMMA PartBegins == Init => PartInv
<1> SUFFICES ASSUME Init PROVE PartInv
  OBVIOUS
<1>1. \A o \in Order : ord[o] = NoRow
  BY DEF Init
<1>2. \A s \in Slot : call[s] = NoCall
  BY DEF Init
<1>3. NoRow.split = "none" /\ NoRow.legs = {} /\ NoCall.at = "idle" /\ NoCall.ans.kind = "wait"
  BY DEF NoRow, NoCall, Waiting
<1>4. LegRequests = {} /\ late = {}
  BY <1>2, <1>3 DEF LegRequests, Init
<1>5. \A k, p : ~Recorded(k, p) /\ ~Requested(k, p)
  BY <1>1, <1>3, <1>4 DEF Recorded, Requested
<1>6. reg.legKey = 0 /\ reg.part = 1 /\ key = 0 /\ reg.split.status = "none"
  BY DEF Init, NoSplit
<1>7. KeysOK
  <2>1. KeyOnce
    BY <1>1, <1>3 DEF KeyOnce
  <2>2. KeyRange /\ \A k, p : ~Used(k, p)
    BY <1>5, <1>6 DEF KeyRange, Used, KeptKey
  <2> QED BY <2>1, <2>2 DEF KeysOK
<1>8. SplitsOK /\ SplitShownOK
  BY <1>1, <1>3, <1>6 DEF SplitsOK, PartsOf, SplitShownOK
<1>9. \A s \in Slot : LegCallOK(s) /\ AnswerKept(s)
  BY <1>2, <1>3 DEF LegCallOK, AnswerKept
<1> QED BY <1>4, <1>7, <1>8, <1>9 DEF PartInv

\* Requests for parts are typed.
LEMMA LegTyped ==
    ASSUME PosIInv, PartInv, NEW q \in LegRequests
    PROVE  CallOK(q) /\ q.op # "idle" /\ q.at = "leg" /\ q.order \in Order
<1>1. CallOK(q) /\ q.op # "idle" /\ q.at = "leg"
  BY DEF LegRequests, PosIInv, CallsOK, LateOK, PartInv, LegCallOK
<1> QED BY <1>1, PosPaymentConstants DEF CallOK, GatewayCall, Order

\* A step of the register in which no part is asked for: a slot may get another
\* call, and the key of the part is kept, done with, or dropped when refused.
LEMMA CalmStep ==
    ASSUME PosIInv, PartInv, UNCHANGED <<ord, late>>, NEW s \in Slot, NEW c,
           call' = call \/ (c.at # "leg" /\ c.ans = Waiting /\ call' = [call EXCEPT ![s] = c]),
           \/ reg'.legKey = reg.legKey /\ reg'.part = reg.part
           \/ reg'.legKey = 0 /\ reg'.part = reg.part + 1
           \/ reg'.legKey = 0 /\ reg'.part = reg.part /\ Refuses(reg.legKey),
           SplitShownOK', key' \in Nat, key <= key'
    PROVE  PartInv'
<1>1. \A w \in Slot : call'[w] = call[w] \/ (call'[w].at # "leg" /\ call'[w].ans.kind = "wait")
  BY DEF PosIInv, CallsOK, Waiting
<1>2. \A q \in LegRequests' : q \in LegRequests
  BY <1>1 DEF LegRequests
<1>3. NoNewPart
  BY <1>2, LegTyped DEF NoNewPart, SplitEnded
<1>4. KeysOK'
  BY <1>3, KeysKept DEF PartInv
<1>5. SplitsOK' /\ (\A q \in LegRequests' : ord'[q.order].split # "none") /\ (\A q \in late' : q.ans = Waiting)
  BY <1>2 DEF PartInv, SplitsOK, PartsOf
<1>6. ASSUME NEW w \in Slot PROVE LegCallOK(w)' /\ AnswerKept(w)'
  BY <1>1 DEF PartInv, LegCallOK, AnswerKept, SplitEnded, Unrecorded
<1> QED BY <1>4, <1>5, <1>6 DEF PartInv

\* A session that has ended stays so.
LEMMA SessionsGoOn ==
    ASSUME \A o \in Order : GoesOn(o, ord'[o])
    PROVE  /\ SplitsOK'
           /\ \A o \in Order : SplitEnded(o) => SplitEnded(o)'
           /\ \A o \in Order : ord[o].split # "none" => ord'[o].split # "none"
BY DEF GoesOn, SplitsOK, SplitEnded, PartsOf

\* A step of the server in which no part is recorded.
LEMMA ServerKeepsParts ==
    ASSUME PosIInv, PartInv, UNCHANGED <<reg, key>>,
           \A o \in Order : GoesOn(o, ord'[o]) /\ ord'[o].legs = ord[o].legs,
           \A q \in LegRequests' : \E r \in LegRequests :
               /\ r.key = q.key /\ r.part = q.part /\ r.order = q.order
               /\ q.ans = Waiting => r.ans = Waiting,
           \A s \in Slot : LegCallOK(s)' /\ AnswerKept(s)',
           \A q \in late' : q.ans = Waiting
    PROVE  PartInv'
<1>1. /\ SplitsOK'
      /\ \A o \in Order : SplitEnded(o) => SplitEnded(o)'
      /\ \A o \in Order : ord[o].split # "none" => ord'[o].split # "none"
  BY SessionsGoOn
<1>2. NoNewPart
  BY <1>1, LegTyped DEF NoNewPart, PosIInv, ClockOK
<1>3. KeysOK'
  BY <1>2, KeysKept DEF PartInv
<1>4. SplitShownOK'
  <2>1. reg.split = NoSplit \/ reg.split.order \in Order
    BY PosPaymentConstants DEF PosIInv, RegisterOK, Register, SplitView, Order
  <2> QED BY <1>1, <2>1 DEF PartInv, SplitShownOK, NoSplit
<1>5. \A q \in LegRequests' : ord'[q.order].split # "none"
  BY <1>1, LegTyped DEF PartInv
<1> QED BY <1>1, <1>3, <1>4, <1>5 DEF PartInv

\* Two requests with one key are for one order.
LEMMA OneKeyOneOrder ==
    ASSUME PartInv, OneSession, NEW q \in LegRequests, NEW r \in LegRequests, q.key = r.key
    PROVE  q.order = r.order
<1>1. Used(q.key, q.part) /\ Used(q.key, r.part)
  BY DEF Used, Requested
<1> QED BY <1>1 DEF PartInv, KeysOK, OneSession

\* A key that was refused will not be recorded.
LEMMA RefusedKey ==
    ASSUME PartInv, OneSession, NEW s \in Slot, call[s].at = "leg", call[s].ans.kind = "refused"
    PROVE  Refuses(call[s].key)
<1>1. call[s] \in LegRequests /\ SplitEnded(call[s].order) /\ Unrecorded(call[s].key)
  BY DEF LegRequests, PartInv, LegCallOK
<1> QED BY <1>1, OneKeyOneOrder DEF Refuses

\* A part is recorded: no refused key is the key of that part.
LEMMA RecordStep ==
    ASSUME PosIInv, PartInv, OneSession, UNCHANGED <<reg, key>>,
           NEW q \in LegRequests, q.ans = Waiting, NEW e, PartsServed(q, e), ord' = e.ord,
           \A r \in LegRequests' : \E x \in LegRequests :
               /\ x.key = r.key /\ x.part = r.part /\ x.order = r.order
               /\ r.ans = Waiting => x.ans = Waiting,
           \A s \in Slot : AnswerKept(s)',
           \A s \in Slot : \/ call[s].at = "leg" /\ call[s].ans.kind = "refused" /\ UNCHANGED call[s]
                           \/ LegCallOK(s)',
           \A r \in late' : r.ans = Waiting,
           Unrecorded(q.key), ~SplitEnded(q.order),
           e.ord[q.order].legs = ord[q.order].legs \cup {[key |-> q.key, part |-> q.part]},
           \A o \in Order \ {q.order} : e.ord[o].legs = ord[o].legs
    PROVE  PartInv'
<1>0. q.order \in Order
  BY LegTyped
<1>1. /\ SplitsOK'
      /\ \A o \in Order : SplitEnded(o) => SplitEnded(o)'
      /\ \A o \in Order : ord[o].split # "none" => ord'[o].split # "none"
  BY SessionsGoOn DEF PartsServed
<1>2. KeysOK'
  <2>1. \A r \in LegRequests' : \E x \in LegRequests :
               /\ x.key = r.key /\ x.part = r.part /\ x.order = r.order /\ x.order \in Order
               /\ r.ans = Waiting => x.ans = Waiting
    BY LegTyped
  <2> QED BY <1>0, <1>1, <2>1, KeyRecorded DEF PartInv
<1>3. SplitShownOK'
  <2>1. reg.split = NoSplit \/ reg.split.order \in Order
    BY PosPaymentConstants DEF PosIInv, RegisterOK, Register, SplitView, Order
  <2> QED BY <1>1, <2>1 DEF PartInv, SplitShownOK, NoSplit
<1>4. \A r \in LegRequests' : ord'[r.order].split # "none"
  BY <1>1, LegTyped DEF PartInv
<1>5. ASSUME NEW s \in Slot, call[s].at = "leg", call[s].ans.kind = "refused", UNCHANGED call[s]
      PROVE  LegCallOK(s)'
  <2>1. call[s] \in LegRequests /\ call[s].order \in Order
    BY <1>5, LegTyped DEF LegRequests
  <2>2. SplitEnded(call[s].order) /\ Unrecorded(call[s].key)
    BY <1>5 DEF PartInv, LegCallOK
  <2>3. call[s].key # q.key
    BY <2>1, <2>2, OneKeyOneOrder
  <2>4. Unrecorded(call[s].key)'
    BY <1>0, <1>5, <2>2, <2>3 DEF Unrecorded
  <2>5. SplitEnded(call[s].order)'
    BY <1>1, <1>5, <2>1, <2>2
  <2> QED BY <1>5, <2>4, <2>5 DEF PartInv, LegCallOK
<1>6. \A s \in Slot : LegCallOK(s)' /\ AnswerKept(s)'
  BY <1>5
<1> QED BY <1>1, <1>2, <1>3, <1>4, <1>6 DEF PartInv

\* The server runs a request: of a slot, or one whose answer was given up.
LEMMA ServePart ==
    ASSUME PosIInv, PartInv, OneSession, NEW s \in Slot, Serve(s)
    PROVE  PartInv'
<1> DEFINE q == call[s]
<1>1. q.op # "idle" /\ q.ans = Waiting /\ CallOK(q)
  BY DEF Serve, Idle, PosIInv, CallsOK
<1>2. q.at = "leg" => q \in LegRequests /\ s = "pay" /\ ord[q.order].split # "none" /\ ~Blocked(q.order)
  BY DEF LegRequests, PartInv, LegCallOK, OneSession
<1>3. PICK e \in Effects(q) : ord' = e.ord /\ call' = [call EXCEPT ![s].ans = e.ans]
  BY DEF Serve
<1>4. PartsServed(q, e)
  BY <1>1, <1>2, EffectsParts DEF PosIInv, PartInv
<1>6. /\ call'[s].at = q.at /\ call'[s].op = q.op /\ call'[s].key = q.key /\ call'[s].part = q.part
      /\ call'[s].order = q.order /\ call'[s].ans = e.ans
      /\ \A w \in Slot \ {s} : call'[w] = call[w]
  BY <1>1, <1>3 DEF PosIInv, CallsOK, CallOK, GatewayCall
<1>7. UNCHANGED <<reg, late, key>> /\ q.ans.kind = "wait"
  BY <1>1 DEF Serve, Waiting
<1>8. q.at = "leg" => e.ans # Waiting
  BY <1>4 DEF PartsServed, Waiting
<1>9. \A o \in Order : ord[o].split # "none" => ord'[o].split # "none"
  BY <1>3, <1>4, SessionsGoOn DEF PartsServed
<1>10. \A w \in Slot : AnswerKept(w)'
  <2>1. AnswerKept(s)'
    BY <1>3, <1>4, <1>6 DEF AnswerKept, PartsServed
  <2>2. ASSUME NEW w \in Slot \ {s} PROVE AnswerKept(w)'
    BY <1>6, <1>9, <2>2 DEF AnswerKept, PartInv
  <2> QED BY <2>1, <2>2
<1> HIDE DEF q
<1>11. \A r \in LegRequests' : \E x \in LegRequests :
          /\ x.key = r.key /\ x.part = r.part /\ x.order = r.order
          /\ r.ans = Waiting => x.ans = Waiting
  <2> SUFFICES ASSUME NEW r \in LegRequests'
               PROVE  \E x \in LegRequests : /\ x.key = r.key /\ x.part = r.part /\ x.order = r.order
                                             /\ r.ans = Waiting => x.ans = Waiting
    OBVIOUS
  <2>1. r \in LegRequests \/ (r = call'[s] /\ r.at = "leg")
    BY <1>6, <1>7 DEF LegRequests
  <2>2. CASE r = call'[s] /\ r.at = "leg"
    BY <1>2, <1>6, <1>8, <2>2
  <2> QED BY <2>1, <2>2
<1>12. \A r \in late' : r.ans = Waiting
  BY <1>7 DEF PartInv
<1>13. CASE \A o \in Order : ord'[o].legs = ord[o].legs
  <2>1. /\ \A o \in Order : SplitEnded(o) => SplitEnded(o)'
        /\ \A o \in Order : GoesOn(o, ord'[o])
    BY <1>3, <1>4, SessionsGoOn DEF PartsServed
  <2>2. ASSUME NEW w \in Slot \ {s} PROVE LegCallOK(w)'
    <3>1. call[w].at = "leg" => call[w].order \in Order
      BY LegTyped DEF LegRequests
    <3> QED BY <1>6, <1>7, <1>13, <2>1, <2>2, <3>1 DEF LegCallOK, PartInv, Unrecorded
  <2>3. LegCallOK(s)'
    <3>1. q.at = "leg" => e.ans.kind \in {"ok", "refused"} /\ PartServed(q, e) /\ q.order \in Order
      BY <1>2, <1>4, LegTyped DEF PartsServed
    <3>2. q.at = "leg" /\ e.ans.kind = "refused" => SplitEnded(q.order) /\ Unrecorded(q.key)
      BY <3>1 DEF PartServed
    <3>3. LegCallOK(s)
      BY DEF PartInv
    <3> QED BY <1>6, <1>7, <1>13, <2>1, <3>1, <3>2, <3>3 DEF LegCallOK, Unrecorded, q
  <2> QED BY <1>7, <1>10, <1>11, <1>12, <1>13, <2>1, <2>2, <2>3, ServerKeepsParts
<1>14. CASE /\ q.at = "leg" /\ Unrecorded(q.key) /\ ~SplitEnded(q.order) /\ e.ans.kind = "ok"
            /\ e.ord[q.order].legs = ord[q.order].legs \cup {[key |-> q.key, part |-> q.part]}
            /\ \A o \in Order \ {q.order} : e.ord[o].legs = ord[o].legs
  <2>1. ASSUME NEW w \in Slot \ {s} PROVE LegCallOK(w)'
    BY <1>2, <1>6, <1>14, <2>1 DEF LegCallOK, PartInv
  <2>2. LegCallOK(s)'
    BY <1>6, <1>7, <1>14 DEF LegCallOK, PartInv, q
  <2> QED BY <1>1, <1>2, <1>3, <1>4, <1>7, <1>10, <1>11, <1>12, <1>14, <2>1, <2>2, RecordStep DEF q
<1> QED BY <1>3, <1>4, <1>13, <1>14 DEF PartsServed, PartServed

LEMMA ServeLatePart ==
    ASSUME PosIInv, PartInv, OneSession, NEW q \in late, ServeLate(q)
    PROVE  PartInv'
<1>1. q.op # "idle" /\ CallOK(q) /\ q.ans = Waiting
  BY DEF PosIInv, LateOK, PartInv
<1>2. q.at = "leg" => q \in LegRequests /\ ord[q.order].split # "none" /\ ~Blocked(q.order)
  BY DEF LegRequests, PartInv, OneSession
<1>3. PICK e \in Effects(q) : ord' = e.ord
  BY DEF ServeLate
<1>4. PartsServed(q, e)
  BY <1>1, <1>2, EffectsParts DEF PosIInv, PartInv
<1>5. UNCHANGED <<reg, call, key>> /\ late' \subseteq late
  BY DEF ServeLate
<1>6. /\ \A o \in Order : GoesOn(o, ord'[o])
      /\ \A o \in Order : SplitEnded(o) => SplitEnded(o)'
      /\ \A o \in Order : ord[o].split # "none" => ord'[o].split # "none"
  BY <1>3, <1>4, SessionsGoOn DEF PartsServed
<1>7. \A w \in Slot : AnswerKept(w)'
  BY <1>5, <1>6 DEF AnswerKept, PartInv
<1>8. \A r \in LegRequests' : r \in LegRequests
  BY <1>5 DEF LegRequests
<1>9. \A r \in late' : r.ans = Waiting
  BY <1>5 DEF PartInv
<1>10. CASE \A o \in Order : ord'[o].legs = ord[o].legs
  <2>1. ASSUME NEW w \in Slot PROVE LegCallOK(w)'
    <3>1. call[w].at = "leg" => call[w].order \in Order
      BY LegTyped DEF LegRequests
    <3> QED BY <1>5, <1>6, <1>10, <3>1 DEF LegCallOK, PartInv, Unrecorded
  <2> QED BY <1>5, <1>6, <1>7, <1>8, <1>9, <1>10, <2>1, ServerKeepsParts
<1>11. CASE /\ q.at = "leg" /\ Unrecorded(q.key) /\ ~SplitEnded(q.order)
            /\ e.ord[q.order].legs = ord[q.order].legs \cup {[key |-> q.key, part |-> q.part]}
            /\ \A o \in Order \ {q.order} : e.ord[o].legs = ord[o].legs
  <2>1. ASSUME NEW w \in Slot
        PROVE  \/ call[w].at = "leg" /\ call[w].ans.kind = "refused" /\ UNCHANGED call[w]
               \/ LegCallOK(w)'
    BY <1>5 DEF LegCallOK, PartInv
  <2> QED BY <1>1, <1>2, <1>3, <1>4, <1>5, <1>7, <1>8, <1>9, <1>11, <2>1, RecordStep
<1> QED BY <1>3, <1>4, <1>10, <1>11 DEF PartsServed, PartServed

\* An answer is lost.
LEMMA LosePart ==
    ASSUME PosIInv, PartInv, Lossy \subseteq {"net"}, NEW s \in Slot, Lose(s)
    PROVE  PartInv'
<1>1. PICK k \in Lossy : call' = [call EXCEPT ![s].ans = [Waiting EXCEPT !.kind = k]]
  BY DEF Lose
<1>2. k = "net" /\ [Waiting EXCEPT !.kind = k].kind = "net" /\ [Waiting EXCEPT !.kind = k] # Waiting
  BY DEF Waiting
<1>3. call[s] \in GatewayCall
  BY DEF PosIInv, CallsOK
<1>4. /\ call'[s].at = call[s].at /\ call'[s].op = call[s].op /\ call'[s].key = call[s].key
      /\ call'[s].part = call[s].part /\ call'[s].order = call[s].order
      /\ call'[s].ans.kind = "net" /\ call'[s].ans # Waiting
      /\ \A w \in Slot \ {s} : call'[w] = call[w]
  <2> DEFINE a == [Waiting EXCEPT !.kind = k]
  <2>1. call' = [call EXCEPT ![s].ans = a] /\ a.kind = "net" /\ a # Waiting
    BY <1>1, <1>2
  <2> HIDE DEF a
  <2> QED BY <1>3, <2>1 DEF PosIInv, CallsOK, GatewayCall
<1>5. UNCHANGED <<reg, ord, key>> /\ (late' = late \/ (late' = late \cup {call[s]} /\ call[s].ans = Waiting))
  BY DEF Lose, server
<1>6. ASSUME NEW r \in LegRequests'
      PROVE  \E x \in LegRequests : /\ x.key = r.key /\ x.part = r.part /\ x.order = r.order
                                    /\ r.ans = Waiting => x.ans = Waiting
  <2>1. r \in LegRequests \/ (r = call'[s] /\ r.at = "leg")
    BY <1>4, <1>5 DEF LegRequests
  <2>2. CASE r = call'[s] /\ r.at = "leg"
    <3>1. call[s] \in LegRequests
      BY <1>4, <2>2 DEF LegRequests
    <3> QED BY <1>4, <2>2, <3>1
  <2> QED BY <2>1, <2>2
<1>7. \A o \in Order : GoesOn(o, ord'[o]) /\ ord'[o].legs = ord[o].legs
  BY <1>5 DEF PartInv, SplitsOK, GoesOn, SplitEnded
<1>8. \A r \in late' : r.ans = Waiting
  BY <1>5 DEF PartInv
<1>9. ASSUME NEW w \in Slot PROVE LegCallOK(w)' /\ AnswerKept(w)'
  BY <1>4, <1>5 DEF PartInv, LegCallOK, AnswerKept, SplitEnded, Unrecorded
<1> QED BY <1>5, <1>6, <1>7, <1>8, <1>9, ServerKeepsParts

\* The rows keep their parts and nobody else moves.
LEMMA RowsKept ==
    ASSUME PosIInv, PartInv, UNCHANGED <<reg, call, late, key>>, \A o \in Order : Keeps(o, ord'[o])
    PROVE  PartInv'
<1>1. \A o \in Order : GoesOn(o, ord'[o]) /\ ord'[o].legs = ord[o].legs
  BY KeepsGoesOn DEF PartInv, Keeps
<1>2. /\ \A o \in Order : SplitEnded(o) => SplitEnded(o)'
      /\ \A o \in Order : ord[o].split # "none" => ord'[o].split # "none"
  BY <1>1, SessionsGoOn
<1>3. ASSUME NEW w \in Slot PROVE LegCallOK(w)' /\ AnswerKept(w)'
  <2>1. call[w].at = "leg" => call[w].order \in Order
    BY LegTyped DEF LegRequests
  <2> QED BY <1>1, <1>2, <2>1 DEF LegCallOK, AnswerKept, PartInv, Unrecorded
<1>4. \A r \in LegRequests' : r \in LegRequests
  BY DEF LegRequests
<1> QED BY <1>1, <1>3, <1>4, ServerKeepsParts DEF PartInv

\* The server's own steps, and time.
LEMMA WorldPart ==
    ASSUME PosIInv, PartInv, NEW o \in Order, ProviderPaid(o) \/ ProviderDeclined(o) \/ Sweep(o)
    PROVE  PartInv'
<1> DEFINE r == [ord[o] EXCEPT !.intent = "none"]
           t == [r EXCEPT !.state = "allocation_pending", !.settled = TRUE]
           s == IF ~r.settled /\ r.state \in Open THEN "payment_failed" ELSE r.state
           f == [r EXCEPT !.state = s]
<1>1. UNCHANGED <<reg, call, late, key>> /\ ord[o] \in Row
  BY DEF ProviderPaid, ProviderDeclined, Sweep, PosIInv, ServerOK
<1>2. r \in Row /\ r.legs = ord[o].legs /\ r.split = ord[o].split
  BY <1>1 DEF Row
<1>3. t.legs = r.legs /\ t.split = r.split /\ f.legs = r.legs /\ f.split = r.split
  <2> HIDE DEF r, s
  <2> QED BY <1>2 DEF Row
<1>4. ASSUME NEW n, ord' = [ord EXCEPT ![o] = n], n.legs = ord[o].legs, n.split = ord[o].split
      PROVE  PartInv'
  <2>1. ord'[o] = n /\ \A x \in Order \ {o} : ord'[x] = ord[x]
    BY <1>4 DEF PosIInv, ServerOK
  <2>2. \A x \in Order : Keeps(x, ord'[x])
    BY <1>4, <2>1 DEF Keeps
  <2> QED BY <1>1, <2>2, RowsKept
<1>5. CASE ProviderPaid(o)
  <2>1. CASE ord' = [ord EXCEPT ![o] = r]
    <3> HIDE DEF r
    <3> QED BY <1>2, <1>4, <2>1
  <2>2. CASE ord' = [ord EXCEPT ![o] = Posted(r)]
    <3> HIDE DEF r
    <3> QED BY <1>2, <1>4, <2>2, PartFields
  <2>3. CASE ord' = [ord EXCEPT ![o] = t]
    <3> HIDE DEF r, t
    <3> QED BY <1>2, <1>3, <1>4, <2>3
  <2>4. \/ ord' = [ord EXCEPT ![o] = r] \/ ord' = [ord EXCEPT ![o] = Posted(r)]
        \/ ord' = [ord EXCEPT ![o] = t]
    BY <1>5 DEF ProviderPaid
  <2> HIDE DEF r, t
  <2> QED BY <2>1, <2>2, <2>3, <2>4
<1>6. CASE ProviderDeclined(o)
  <2>1. ord' = [ord EXCEPT ![o] = f]
    BY <1>6 DEF ProviderDeclined
  <2> HIDE DEF r, f
  <2> QED BY <1>2, <1>3, <1>4, <2>1
<1>7. CASE Sweep(o)
  <2> HIDE DEF r, t, f
  <2>1. ord' = [ord EXCEPT ![o] = Release(ord[o], "payment_expired")] /\ "payment_expired" \in Closed
    BY <1>7 DEF Sweep, Closed
  <2> QED BY <1>1, <1>4, <2>1, PartFields
<1> HIDE DEF r, t, f
<1> QED BY <1>5, <1>6, <1>7

LEMMA TickPart == ASSUME PosIInv, PartInv, Tick PROVE PartInv'
<1>1. UNCHANGED <<reg, call, late, key, ord>>
  BY DEF Tick, server
<1> QED BY <1>1, RowsKept DEF Keeps

\* The store goes on with the same part; the panel shows the same session or none.
PartsKept(r) == r.legKey = reg.legKey /\ r.part = reg.part /\ r.split \in {reg.split, NoSplit}

\* The steps of the register that are about something else.
LEMMA KeepStep ==
    ASSUME PosIInv, PartInv, UNCHANGED <<ord, late>>, NEW s \in Slot, NEW c,
           call' = call \/ (c.at # "leg" /\ c.ans = Waiting /\ call' = [call EXCEPT ![s] = c]),
           PartsKept(reg'), key' \in {key, key + 1, key + 2}
    PROVE  PartInv'
<1>1. SplitShownOK'
  BY DEF PartInv, SplitShownOK, PartsKept, NoSplit
<1>2. key' \in Nat /\ key <= key'
  BY PosPaymentConstants DEF PosIInv, ClockOK
<1>3. reg'.legKey = reg.legKey /\ reg'.part = reg.part
  BY DEF PartsKept
<1> QED BY <1>1, <1>2, <1>3, CalmStep

LEMMA ReturnPart ==
    ASSUME PosIInv, PartInv, UNCHANGED <<ord, late, key>>, NEW s \in Slot, Return(s), PartsKept(reg')
    PROVE  PartInv'
<1>1. NoCall.at # "leg" /\ NoCall.ans = Waiting /\ call' = [call EXCEPT ![s] = NoCall]
  BY DEF NoCall, Return, Send
<1> QED BY <1>1, KeepStep

LEMMA OnwardPart ==
    ASSUME PosIInv, PartInv, UNCHANGED <<ord, late, key>>, NEW s \in Slot,
           NEW o \in 0 .. MaxOrders,
           NEW at \in {"status", "findSplit", "settle", "provider", "account", "receipt"},
           call' = [call EXCEPT ![s] = Onward(call[s], at)]
             \/ call' = [call EXCEPT ![s] = About(call[s], at, o)],
           PartsKept(reg')
    PROVE  PartInv'
<1>1. /\ Continues(Onward(call[s], at), call[s], at, call[s].order)
      /\ Continues(About(call[s], at, o), call[s], at, o)
  BY OnwardTyped DEF PosIInv, CallsOK
<1> QED BY <1>1, KeepStep DEF Continues

\* What the store's helpers do to the part.
LEMMA StoreParts ==
    ASSUME RegisterOK(reg)
    PROVE  /\ \A co : PartsKept(SetCheckout(co))
           /\ PartsKept(ExpireCheckout)
           /\ PartsKept([reg EXCEPT !.checkout = NoCheckout, !.keys = NoKeys])
           /\ \A c, b : /\ FinishSale(c, b).legKey = 0 /\ FinishSale(c, b).part = reg.part + 1
                        /\ FinishSale(c, b).split = NoSplit
<1>1. reg \in Register
  BY DEF RegisterOK
<1>2. ASSUME NEW co PROVE PartsKept(SetCheckout(co))
  BY <1>1 DEF PartsKept, SetCheckout, Register
<1>3. PartsKept(ExpireCheckout)
  BY <1>1 DEF PartsKept, ExpireCheckout, Register
<1>4. PartsKept([reg EXCEPT !.checkout = NoCheckout, !.keys = NoKeys])
  BY <1>1 DEF PartsKept, Register
<1>5. ASSUME NEW c, NEW b
      PROVE  /\ FinishSale(c, b).legKey = 0 /\ FinishSale(c, b).part = reg.part + 1
             /\ FinishSale(c, b).split = NoSplit
  BY <1>1 DEF FinishSale, Register
<1> QED BY <1>2, <1>3, <1>4, <1>5

\* The operator, except for asking for a part.
LEMMA SentPart ==
    ASSUME PosIInv, PartInv, UNCHANGED <<reg, key, Quiet>>, NEW s \in Slot,
           NEW op \in AwaitOps, NEW at \in AwaitAts \ {"leg"}, Send(s, Await(op, at))
    PROVE  PartInv'
<1> DEFINE c == Await(op, at)
<1>1. c.at # "leg" /\ c.ans = Waiting /\ call' = [call EXCEPT ![s] = c]
  BY AwaitTyped DEF PosIInv, Send
<1>2. UNCHANGED <<ord, late>> /\ PartsKept(reg') /\ key' = key
  BY DEF Quiet, server, PartsKept
<1> HIDE DEF c
<1> QED BY <1>1, <1>2, KeepStep

LEMMA OperatorPart ==
    ASSUME PosIInv, PartInv, Operator, ~AddSplitPart
    PROVE  PartInv'
<1>0. /\ RegisterOK(reg) /\ reg \in Register /\ "pay" \in Slot /\ "back" \in Slot
  BY DEF PosIInv, RegisterOK, Slot
<1>1. ASSUME NewSale \/ CloseReceipt PROVE PartInv'
  <2>1. PartsKept(reg')
    <3>1. CASE NewSale
      BY <1>0, <3>1 DEF NewSale, PartsKept, Register
    <3>2. CASE CloseReceipt
      BY <1>0, <3>2 DEF CloseReceipt, PartsKept, Register
    <3> QED BY <1>1, <3>1, <3>2
  <2>2. call' = call /\ UNCHANGED <<ord, late>> /\ key' = key
    BY <1>1 DEF NewSale, CloseReceipt, server
  <2> QED BY <1>0, <2>1, <2>2, KeepStep
<1>2. ASSUME BeginCheckout PROVE PartInv'
  <2> DEFINE a == Await("begin", "prepare")
             k == [cart |-> reg.cart, req |-> key + 1, pay |-> key + 2]
             c == [a EXCEPT !.req = k.req]
             n == [reg EXCEPT !.keys = k]
  <2>1. a \in GatewayCall /\ a.at = "prepare" /\ a.ans = Waiting
    <3>1. "begin" \in AwaitOps /\ "prepare" \in AwaitAts
      BY DEF AwaitOps, AwaitAts
    <3> QED BY <1>0, <3>1, AwaitTyped
  <2>2. UNCHANGED <<ord, late>>
    BY <1>2 DEF BeginCheckout, Quiet, server
  <2>3. \/ reg' = reg /\ key' = key /\ call' = [call EXCEPT !["pay"] = a]
        \/ key' = key + 2 /\ reg' = n /\ call' = [call EXCEPT !["pay"] = c]
    BY <1>2 DEF BeginCheckout, Send
  <2> HIDE DEF a, k
  <2>4. PartsKept(n) /\ PartsKept(reg)
    BY <1>0 DEF PartsKept, Register
  <2>5. c.at = "prepare" /\ c.ans = Waiting
    BY <2>1 DEF GatewayCall
  <2> HIDE DEF c, n
  <2>6. PartsKept(reg') /\ key' \in {key, key + 1, key + 2}
    BY <2>3, <2>4
  <2> QED BY <1>0, <2>1, <2>2, <2>3, <2>5, <2>6, KeepStep
<1>3. ASSUME NEW op \in {"manual", "provider"}, Pay(op) PROVE PartInv'
  <2> DEFINE a == Await(op, "prepare")
             c == [a EXCEPT !.cart = reg.checkout.cart, !.key = reg.keys.pay]
  <2>1. a \in GatewayCall /\ a.at = "prepare" /\ a.ans = Waiting
    <3>1. op \in AwaitOps /\ "prepare" \in AwaitAts
      BY DEF AwaitOps, AwaitAts
    <3> QED BY <1>0, <3>1, AwaitTyped
  <2>2. UNCHANGED <<ord, late, reg, key>> /\ call' = [call EXCEPT !["pay"] = c]
    BY <1>3 DEF Pay, Send, Quiet, server
  <2> HIDE DEF a
  <2>3. c.at = "prepare" /\ c.ans = Waiting
    BY <2>1 DEF GatewayCall
  <2> HIDE DEF c
  <2>4. PartsKept(reg')
    BY <2>2 DEF PartsKept
  <2> QED BY <1>0, <2>2, <2>3, <2>4, KeepStep
<1>4. ASSUME NEW s \in Slot, NEW at \in {"reduce", "cancelSplit"}, NEW op \in {"split", "stop"},
             SplitShown, Send(s, SplitCall(op, at)), UNCHANGED <<reg, key, Quiet>>
      PROVE  PartInv'
  <2> DEFINE c == SplitCall(op, at)
  <2>1. c.at = at /\ c.ans = Waiting
    BY <1>0, <1>4, SplitCallTyped
  <2>2. UNCHANGED <<ord, late>> /\ PartsKept(reg') /\ key' = key /\ call' = [call EXCEPT ![s] = c]
    BY <1>4 DEF Quiet, server, PartsKept, Send
  <2> HIDE DEF c
  <2> QED BY <2>1, <2>2, KeepStep
<1>5. ASSUME ReduceBasket \/ \E s \in Slot : CancelSplit(s) PROVE PartInv'
  BY <1>0, <1>4, <1>5 DEF ReduceBasket, CancelSplit
<1>6. ASSUME PayOnAccount \/ StartSplit \/ CancelCheckout PROVE PartInv'
  <2>1. /\ {"account", "split", "back"} \subseteq AwaitOps
        /\ {"cancel", "startSplit"} \subseteq AwaitAts \ {"leg"}
    BY DEF AwaitOps, AwaitAts
  <2>2. CASE PayOnAccount
    BY <1>0, <2>1, <2>2, SentPart DEF PayOnAccount
  <2>3. CASE StartSplit
    BY <1>0, <2>1, <2>3, SentPart DEF StartSplit
  <2>4. CASE CancelCheckout
    BY <1>0, <2>1, <2>4, SentPart DEF CancelCheckout
  <2> QED BY <1>6, <2>2, <2>3, <2>4
<1>7. ASSUME NEW at \in {"release", "repair", "retry", "cancelSplit"}, Resolve(at) PROVE PartInv'
  <2>1. PICK op \in {"split", "resolve"} : Send("pay", Await(op, at))
    BY <1>7 DEF Resolve
  <2>2. UNCHANGED <<reg, key, Quiet>> /\ op \in AwaitOps /\ at \in AwaitAts \ {"leg"}
    BY <1>7 DEF Resolve, AwaitOps, AwaitAts
  <2> QED BY <1>0, <2>1, <2>2, SentPart
<1> QED BY <1>1, <1>2, <1>3, <1>5, <1>6, <1>7 DEF Operator

LEMMA WatchPart == ASSUME PosIInv, PartInv, NEW w \in Watches, Poll(w) \/ ExpiryTimer(w) PROVE PartInv'
<1>1. w \in Slot /\ {"poll", "timer"} \subseteq AwaitOps /\ "status" \in AwaitAts \ {"leg"}
  BY DEF Slot, AwaitOps, AwaitAts
<1>2. CASE Poll(w)
  BY <1>1, <1>2, SentPart DEF Poll
<1>3. CASE ExpiryTimer(w)
  BY <1>1, <1>3, SentPart DEF ExpiryTimer
<1> QED BY <1>2, <1>3

\* The operator asks for a part.
LEMMA AskedPart ==
    ASSUME PosIInv, PartInv, AddSplitPart
    PROVE  PartInv'
<1> DEFINE k == IF reg.legKey # 0 THEN reg.legKey ELSE key + 1
           n == [reg EXCEPT !.legKey = k]
           b == SplitCall("split", "leg")
           c == [b EXCEPT !.key = k, !.part = reg.part]
<1>0. RegisterOK(reg) /\ reg \in Register /\ "pay" \in Slot /\ key \in Nat
  BY PosPaymentConstants DEF PosIInv, RegisterOK, Slot, ClockOK
<1>1. /\ reg' = n /\ call' = [call EXCEPT !["pay"] = c] /\ UNCHANGED <<ord, late>>
      /\ key' = IF reg.legKey # 0 THEN key ELSE key + 1
      /\ SplitShown /\ reg.split.status = "open" /\ Idle("pay") /\ k <= MaxKeys
  BY DEF AddSplitPart, Busy, Send, Quiet, server
<1>2. b \in GatewayCall /\ b.op = "split" /\ b.at = "leg" /\ b.ans = Waiting
  BY <1>0, <1>1, SplitCallTyped
<1>3. b.order = reg.split.order
  <2> DEFINE a == Await("split", "leg")
  <2>1. a \in GatewayCall
    <3>1. "split" \in AwaitOps /\ "leg" \in AwaitAts
      BY DEF AwaitOps, AwaitAts
    <3> QED BY <1>0, <3>1, AwaitTyped
  <2>2. b = [a EXCEPT !.order = reg.split.order]
    BY DEF SplitCall
  <2> HIDE DEF a
  <2> QED BY <2>1, <2>2 DEF GatewayCall
<1>4. /\ k # 0
      /\ \/ reg.legKey # 0 /\ k = reg.legKey /\ key' = key
         \/ reg.legKey = 0 /\ k = key + 1 /\ key' = key + 1
  BY <1>0, <1>1
<1> HIDE DEF k, b
<1>5. /\ c.at = "leg" /\ c.op = "split" /\ c.ans = Waiting /\ c.key = k /\ c.part = reg.part
      /\ c.order = reg.split.order
  BY <1>2, <1>3 DEF GatewayCall
<1>6. n.legKey = k /\ n.part = reg.part /\ n.split = reg.split
  BY <1>0 DEF Register
<1> HIDE DEF n, c
<1>7. call'["pay"] = c /\ \A w \in Slot \ {"pay"} : call'[w] = call[w]
  BY <1>0, <1>1 DEF PosIInv, CallsOK
<1>8. \A q \in LegRequests' : q \in LegRequests \/ q = c
  BY <1>1, <1>7 DEF LegRequests
<1>9. KeysOK'
  BY <1>1, <1>4, <1>5, <1>6, <1>8, KeyAsked DEF PartInv
<1>10. SplitsOK' /\ SplitShownOK' /\ \A q \in late' : q.ans = Waiting
  BY <1>1, <1>6 DEF PartInv, SplitsOK, PartsOf, SplitShownOK
<1>11. \A q \in LegRequests' : ord'[q.order].split # "none"
  BY <1>1, <1>5, <1>8 DEF PartInv, SplitShownOK
<1>12. ASSUME NEW w \in Slot PROVE LegCallOK(w)' /\ AnswerKept(w)'
  <2>1. CASE w = "pay"
    BY <1>1, <1>5, <1>6, <1>7, <2>1 DEF LegCallOK, AnswerKept, Waiting
  <2>2. CASE w # "pay"
    BY <1>1, <1>7, <2>2 DEF PartInv, LegCallOK, AnswerKept
  <2> QED BY <2>1, <2>2
<1> QED BY <1>9, <1>10, <1>11, <1>12 DEF PartInv

\* A session is shown after an answer.
LEMMA ShownPart ==
    ASSUME PosIInv, PartInv, UNCHANGED <<ord, late, key>>, NEW s \in Slot,
           call[s].at # "findSplit" \/ call[s].ans.order = call[s].order,
           call[s].ans.kind = "ok",
           reg'.split = View(call[s].ans.order, call[s].ans.row),
           \/ reg'.legKey = reg.legKey /\ reg'.part = reg.part
           \/ reg'.legKey = 0 /\ reg'.part = reg.part + 1,
           \/ Return(s)
           \/ call' = [call EXCEPT ![s] = About(call[s], "receipt", call[s].ans.order)]
    PROVE  PartInv'
<1>1. SplitShownOK'
  BY DEF SplitShownOK, View, PartInv, AnswerKept
<1>2. key' \in Nat /\ key <= key'
  BY PosPaymentConstants DEF PosIInv, ClockOK
<1>3. CASE Return(s)
  <2>1. NoCall.at # "leg" /\ NoCall.ans = Waiting /\ call' = [call EXCEPT ![s] = NoCall]
    BY <1>3 DEF NoCall, Return, Send
  <2> QED BY <1>1, <1>2, <2>1, CalmStep
<1>4. CASE call' = [call EXCEPT ![s] = About(call[s], "receipt", call[s].ans.order)]
  <2> DEFINE n == About(call[s], "receipt", call[s].ans.order)
  <2>1. n.at # "leg" /\ n.ans = Waiting
    <3>1. call[s] \in GatewayCall /\ call[s].ans.order \in 0 .. MaxOrders
      BY DEF PosIInv, CallsOK, GatewayCall, Answer
    <3> QED BY <3>1, OnwardTyped DEF Continues
  <2>2. call' = [call EXCEPT ![s] = n]
    BY <1>4
  <2> HIDE DEF n
  <2> QED BY <1>1, <1>2, <2>1, <2>2, CalmStep
<1> QED BY <1>3, <1>4

LEMMA ApplySplitPart ==
    ASSUME PosIInv, PartInv, UNCHANGED <<ord, late, key>>, NEW s \in Slot, Ok(s), call[s].at # "findSplit",
           NEW base \in Register, ApplySplit(s, base),
           \/ base.legKey = reg.legKey /\ base.part = reg.part
           \/ base.legKey = 0 /\ base.part = reg.part + 1
    PROVE  PartInv'
<1> DEFINE a == call[s].ans
           v == View(a.order, a.row)
           shown == [base EXCEPT !.split = v]
           fails == [shown EXCEPT !.checkout = [shown.checkout EXCEPT !.outcome = "unknown"]]
<1>1. \/ reg' = shown /\ call' = [call EXCEPT ![s] = About(call[s], "receipt", a.order)]
      \/ reg' \in {shown, fails} /\ Return(s)
  BY DEF ApplySplit, Send, About
<1>2. v \in SplitView
  <2>1. RowOK(a.row) /\ a.order \in 0 .. MaxOrders
    BY DEF PosIInv, CallsOK, CallOK, GatewayCall, Answer
  <2> QED BY <2>1, ViewTyped
<1> HIDE DEF v
<1>3. shown \in Register /\ shown.split = v /\ shown.legKey = base.legKey /\ shown.part = base.part
  BY <1>2 DEF Register
<1>4. fails.split = v /\ fails.legKey = base.legKey /\ fails.part = base.part
  <2> HIDE DEF shown
  <2> QED BY <1>3 DEF Register
<1> HIDE DEF shown, fails
<1>5. reg'.split = v /\ reg'.legKey = base.legKey /\ reg'.part = base.part
  BY <1>1, <1>3, <1>4
<1> QED BY <1>1, <1>5, ShownPart DEF v, Ok

\* A part's answer: confirmed, kept after a lost answer, or dropped when refused.
LEMMA LegAnsweredPart ==
    ASSUME PosIInv, PartInv, OneSession, NEW s \in Slot, LegAnswered(s)
    PROVE  PartInv'
<1>0. /\ call[s].at = "leg" /\ call[s].ans # Waiting /\ UNCHANGED <<ord, late, key>>
      /\ reg \in Register
  BY DEF LegAnswered, Got, Quiet, server, PosIInv, RegisterOK
<1>1. CASE Ok(s)
  <2> DEFINE n == [reg EXCEPT !.legKey = 0, !.part = @ + 1]
  <2>1. ApplySplit(s, n)
    BY <1>1 DEF LegAnswered
  <2>2. reg.part + 1 \in Nat /\ 0 \in 0 .. MaxKeys
    BY <1>0, PosPaymentConstants DEF Register
  <2>3. n \in Register /\ n.legKey = 0 /\ n.part = reg.part + 1
    BY <1>0, <2>2 DEF Register
  <2> HIDE DEF n
  <2> QED BY <1>0, <1>1, <2>1, <2>3, ApplySplitPart
<1>2. CASE ~Ok(s)
  <2> DEFINE k == IF call[s].ans.kind = "net" THEN reg.legKey ELSE 0
             n == [reg EXCEPT !.legKey = k]
  <2>1. reg' = n /\ Return(s)
    BY <1>2 DEF LegAnswered
  <2>2. n.legKey = k /\ n.part = reg.part /\ n.split = reg.split
    BY <1>0 DEF Register
  <2> HIDE DEF n
  <2>3. CASE k = reg.legKey
    <3>1. PartsKept(reg')
      BY <2>1, <2>2, <2>3 DEF PartsKept
    <3> QED BY <1>0, <2>1, <3>1, ReturnPart
  <2>4. CASE k # reg.legKey
    <3>1. call[s].ans.kind = "refused" /\ reg.legKey = call[s].key /\ k = 0
      BY <1>0, <1>2, <2>4 DEF PartInv, LegCallOK, Ok
    <3>2. Refuses(reg.legKey)
      BY <1>0, <3>1, RefusedKey
    <3>3. NoCall.at # "leg" /\ NoCall.ans = Waiting /\ call' = [call EXCEPT ![s] = NoCall]
      BY <2>1 DEF NoCall, Return, Send
    <3>4. reg'.legKey = 0 /\ reg'.part = reg.part /\ SplitShownOK' /\ key' \in Nat /\ key <= key'
      BY <1>0, <2>1, <2>2, <3>1, PosPaymentConstants DEF PartInv, SplitShownOK, PosIInv, ClockOK
    <3> QED BY <1>0, <3>2, <3>3, <3>4, CalmStep
  <2> QED BY <2>3, <2>4
<1> QED BY <1>1, <1>2

\* Every answer.
LEMMA AnsweredPart ==
    ASSUME PosIInv, PartInv, OneSession, NEW s \in Slot, Answered(s)
    PROVE  PartInv'
<1> DEFINE c == call[s]
<1>0. /\ RegisterOK(reg) /\ reg \in Register /\ PartsKept(reg)
      /\ \A co : PartsKept(SetCheckout(co))
      /\ PartsKept(ExpireCheckout) /\ PartsKept([reg EXCEPT !.checkout = NoCheckout, !.keys = NoKeys])
  BY StoreParts DEF PosIInv, RegisterOK, PartsKept
<1>1. c \in GatewayCall /\ c.ans.order \in 0 .. MaxOrders
  BY DEF PosIInv, CallsOK, GatewayCall, Answer
<1>2. ASSUME UNCHANGED <<ord, late, key>>, PartsKept(reg'),
             NEW at \in {"status", "findSplit", "settle", "provider", "account", "receipt"},
             \/ Return(s) \/ Then(s, at)
             \/ Send(s, [c EXCEPT !.at = at, !.order = c.ans.order, !.ans = Waiting])
      PROVE  PartInv'
  <2>1. CASE Return(s)
    BY <1>2, <2>1, ReturnPart
  <2>2. CASE Then(s, at)
    <3>1. call' = [call EXCEPT ![s] = Onward(call[s], at)]
      BY <2>2 DEF Then, Send, Onward
    <3> QED BY <1>1, <1>2, <3>1, OnwardPart
  <2>3. CASE Send(s, [c EXCEPT !.at = at, !.order = c.ans.order, !.ans = Waiting])
    <3>1. call' = [call EXCEPT ![s] = About(call[s], at, c.ans.order)]
      BY <2>3 DEF Send, About
    <3> QED BY <1>1, <1>2, <3>1, OnwardPart
  <2> QED BY <1>2, <2>1, <2>2, <2>3
<1>3. CASE BeginPrepared(s) \/ PayPrepared(s) \/ AccountSold(s)
  <2>1. UNCHANGED <<ord, late, key>> /\ PartsKept(reg')
    BY <1>0, <1>3 DEF BeginPrepared, PayPrepared, AccountSold, Quiet, server, PartsKept
  <2>2. CASE BeginPrepared(s)
    BY <1>2, <2>1, <2>2 DEF BeginPrepared
  <2>3. CASE PayPrepared(s)
    BY <1>2, <2>1, <2>3 DEF PayPrepared
  <2>4. CASE AccountSold(s)
    BY <1>2, <2>1, <2>4 DEF AccountSold
  <2> QED BY <1>3, <2>2, <2>3, <2>4
<1>4. CASE BeginRead(s)
  <2>1. /\ UNCHANGED <<ord, late, key>> /\ (Return(s) \/ Then(s, "findSplit"))
        /\ reg' = reg \/ \E co : reg' = SetCheckout(co)
    BY <1>4 DEF BeginRead, Quiet, server
  <2>2. PartsKept(reg')
    BY <1>0, <2>1
  <2> QED BY <1>2, <2>1, <2>2
<1>5. CASE BeginFound(s)
  <2> DEFINE v == IF Ok(s) /\ c.ans.row.split # "none" THEN View(c.order, c.ans.row) ELSE NoSplit
             n == [reg EXCEPT !.split = v]
  <2>1. reg' = n /\ Return(s) /\ UNCHANGED <<ord, late, key>> /\ c.at = "findSplit"
    BY <1>5 DEF BeginFound, Quiet, server, Got
  <2>2. n.split = v /\ n.legKey = reg.legKey /\ n.part = reg.part
    BY <1>0 DEF Register
  <2> HIDE DEF n
  <2>3. CASE Ok(s) /\ c.ans.row.split # "none"
    <3>1. c.ans.order = c.order /\ c.ans.kind = "ok"
      BY <2>1, <2>3 DEF PartInv, AnswerKept, Ok
    <3>2. reg'.split = View(c.ans.order, c.ans.row)
      BY <2>1, <2>2, <2>3, <3>1
    <3> QED BY <2>1, <2>2, <3>1, <3>2, ShownPart
  <2>4. CASE ~(Ok(s) /\ c.ans.row.split # "none")
    <3>1. PartsKept(reg')
      BY <2>1, <2>2, <2>4 DEF PartsKept
    <3> QED BY <2>1, <3>1, ReturnPart
  <2> QED BY <2>3, <2>4
<1>6. CASE Settled(s)
  <2>1. UNCHANGED <<ord, late>> /\ (Return(s) \/ Then(s, "receipt")) /\ key' \in {key, key + 1}
    BY <1>6 DEF Settled, server
  <2>2. PartsKept(reg')
    <3> DEFINE p == IF reg.keys.req = c.req THEN key + 1 ELSE reg.keys.pay
               k == [reg.keys EXCEPT !.pay = p]
               co == [c.co EXCEPT !.outcome = "error"]
               n == [reg EXCEPT !.keys = k, !.checkout = co]
    <3>1. PartsKept(n)
      <4> HIDE DEF k, co
      <4> QED BY <1>0 DEF PartsKept, Register
    <3>2. reg' = reg \/ (\E x : reg' = SetCheckout(x)) \/ reg' = ExpireCheckout \/ reg' = n
      BY <1>0, <1>6, SameKey DEF Settled, Register
    <3> HIDE DEF n
    <3> QED BY <1>0, <3>1, <3>2
  <2>3. PICK n : n.at # "leg" /\ n.ans = Waiting /\ call' = [call EXCEPT ![s] = n]
    <3>1. NoCall.at # "leg" /\ NoCall.ans = Waiting
      BY DEF NoCall
    <3>2. Onward(c, "receipt").at # "leg" /\ Onward(c, "receipt").ans = Waiting
      BY <1>1, OnwardTyped DEF Continues
    <3> HIDE DEF c
    <3> QED BY <2>1, <3>1, <3>2 DEF Return, Send, Then, Onward, c
  <2> QED BY <2>1, <2>2, <2>3, KeepStep
<1>7. CASE Initiated(s)
  <2>1. UNCHANGED <<ord, late, key>> /\ Return(s) /\ \E co : reg' = SetCheckout(co)
    BY <1>7 DEF Initiated, Quiet, server
  <2> QED BY <1>0, <2>1, ReturnPart
<1>8. CASE Cancelled(s)
  <2> DEFINE n == [reg EXCEPT !.checkout = NoCheckout, !.keys = NoKeys]
  <2>1. UNCHANGED <<ord, late, key>> /\ (Return(s) \/ Then(s, "account")) /\ (reg' = reg \/ reg' = n)
    BY <1>8 DEF Cancelled, Quiet, server
  <2> HIDE DEF n
  <2>2. PartsKept(reg')
    BY <1>0, <2>1 DEF n
  <2> QED BY <1>2, <2>1, <2>2
<1>9. CASE SplitAnswered(s)
  <2>1. UNCHANGED <<ord, late, key>> /\ c.at # "findSplit"
    BY <1>9 DEF SplitAnswered, Got, Quiet, server
  <2>2. CASE Ok(s)
    <3>1. ApplySplit(s, reg)
      BY <1>9, <2>2 DEF SplitAnswered
    <3> QED BY <1>0, <2>1, <2>2, <3>1, ApplySplitPart
  <2>3. CASE ~Ok(s)
    <3>1. Return(s) /\ reg' = reg
      BY <1>9, <2>3 DEF SplitAnswered
    <3> QED BY <1>0, <2>1, <3>1, ReturnPart DEF PartsKept
  <2> QED BY <2>2, <2>3
<1>10. CASE LegAnswered(s)
  BY <1>10, LegAnsweredPart
<1>11. ASSUME UNCHANGED <<ord, late, key>>, Return(s), reg'.legKey = 0, reg'.part = reg.part + 1,
              reg'.split = NoSplit
       PROVE  PartInv'
  <2>1. NoCall.at # "leg" /\ NoCall.ans = Waiting /\ call' = [call EXCEPT ![s] = NoCall]
    BY <1>11 DEF NoCall, Return, Send
  <2>2. SplitShownOK' /\ key' \in Nat /\ key <= key'
    BY <1>11, PosPaymentConstants DEF SplitShownOK, NoSplit, PosIInv, ClockOK
  <2> QED BY <1>11, <2>1, <2>2, CalmStep
<1>12. CASE SplitCancelled(s)
  <2> DEFINE n == [reg EXCEPT !.split = NoSplit, !.checkout = NoCheckout,
                              !.keys = NoKeys, !.legKey = 0, !.part = @ + 1]
  <2>1. UNCHANGED <<ord, late, key>> /\ Return(s) /\ (reg' = reg \/ reg' = n)
    BY <1>12 DEF SplitCancelled, Quiet, server
  <2>2. n.legKey = 0 /\ n.part = reg.part + 1 /\ n.split = NoSplit
    BY <1>0 DEF Register
  <2> HIDE DEF n
  <2>3. CASE reg' = reg
    BY <2>1, <2>3, ReturnPart DEF PartsKept
  <2>4. CASE reg' = n
    BY <1>11, <2>1, <2>2, <2>4
  <2> QED BY <2>1, <2>3, <2>4
<1>13. CASE Resolved(s)
  <2> DEFINE n == [reg EXCEPT !.checkout = NoCheckout, !.keys = NoKeys]
  <2>1. UNCHANGED <<ord, late, key>> /\ Return(s) /\ (reg' = reg \/ reg' = n)
    BY <1>13 DEF Resolved, Quiet, server
  <2> HIDE DEF n
  <2>2. PartsKept(reg')
    BY <1>0, <2>1 DEF n
  <2> QED BY <2>1, <2>2, ReturnPart
<1>14. CASE RefreshRead(s)
  <2>1. /\ UNCHANGED <<ord, late, key>> /\ (Return(s) \/ Then(s, "receipt"))
        /\ reg' = reg \/ reg' = ExpireCheckout \/ \E co : reg' = SetCheckout(co)
    BY <1>14 DEF RefreshRead, server
  <2>2. PartsKept(reg')
    BY <1>0, <2>1
  <2> QED BY <1>2, <2>1, <2>2
<1>15. CASE Finished(s)
  <2>1. PICK of, shown : reg' = FinishSale(of, shown)
    BY <1>15 DEF Finished
  <2>2. UNCHANGED <<ord, late, key>> /\ Return(s)
    BY <1>15 DEF Finished, server
  <2> QED BY <1>0, <1>11, <2>1, <2>2, StoreParts
<1> QED BY <1>3, <1>4, <1>5, <1>6, <1>7, <1>8, <1>9, <1>10, <1>12, <1>13, <1>14, <1>15 DEF Answered

\* Every step keeps the invariant.
LEMMA PartStep ==
    ASSUME Lossy \subseteq {"net"}
    PROVE  PosIInv /\ PartInv /\ OneSession /\ [Next]_vars => PartInv'
<1> SUFFICES ASSUME PosIInv, PartInv, OneSession, [Next]_vars PROVE PartInv'
  OBVIOUS
<1>1. CASE Operator
  <2>1. CASE AddSplitPart
    BY <2>1, AskedPart
  <2>2. CASE ~AddSplitPart
    BY <1>1, <2>2, OperatorPart
  <2> QED BY <2>1, <2>2
<1>2. ASSUME NEW s \in Slot, Serve(s) \/ Lose(s) \/ Answered(s) PROVE PartInv'
  BY <1>2, ServePart, LosePart, AnsweredPart
<1>3. ASSUME NEW q \in late, ServeLate(q) PROVE PartInv'
  BY <1>3, ServeLatePart
<1>4. ASSUME NEW w \in Watches, Poll(w) \/ ExpiryTimer(w) PROVE PartInv'
  BY <1>4, WatchPart
<1>5. ASSUME NEW o \in Order, ProviderPaid(o) \/ ProviderDeclined(o) \/ Sweep(o) PROVE PartInv'
  BY <1>5, WorldPart
<1>6. CASE Tick
  BY <1>6, TickPart
<1>7. CASE UNCHANGED vars
  <2>1. UNCHANGED <<reg, call, late, key, ord>>
    BY <1>7 DEF vars
  <2> QED BY <2>1, RowsKept DEF Keeps
<1> QED BY <1>1, <1>2, <1>3, <1>4, <1>5, <1>6, <1>7 DEF Next

\* A recorded part is recorded with the one key that is not spent.
LEMMA PartsApart == PartInv => PartTakenOnce
<1> SUFFICES ASSUME PartInv, NEW o \in Order, NEW p \in Order,
                    NEW l \in ord[o].legs, NEW m \in ord[p].legs, l.part = m.part
             PROVE  o = p /\ l.key = m.key
  BY DEF PartTakenOnce
<1>1. Used(l.key, l.part) /\ Used(m.key, l.part) /\ ~Spent(l.key) /\ ~Spent(m.key)
  BY DEF Used, Recorded, Spent, Refuses, Unrecorded
<1>2. l.key = m.key
  BY <1>1 DEF PartInv, KeysOK
<1> QED BY <1>2 DEF PartInv, KeysOK, KeyOnce

(***************************************************************************)
(* addSplitPart and its key (splitLegKey): whatever answers are lost and   *)
(* however late requests arrive, with any number of refreshes, orders and  *)
(* sales, a part the operator takes is recorded once, as long as a lost    *)
(* answer is recognised as one and the requests under way for a part are   *)
(* for one order whose cart has not gone on to another (OneSession).       *)
(***************************************************************************)
THEOREM PartsTakenOnce ==
    ASSUME Lossy \subseteq {"net"}
    PROVE  Spec /\ []OneSession => []PartTakenOnce
<1>1. Init => PartInv
  BY PartBegins
<1>2. PosIInv /\ PartInv /\ OneSession /\ [Next]_vars => PartInv'
  BY PartStep
<1>3. PartInv => PartTakenOnce
  BY PartsApart
<1>4. Spec => []PosIInv
  BY PosInductive, PTL
<1> QED BY <1>1, <1>2, <1>3, <1>4, PTL DEF Spec

\* With one order the hypothesis holds of every behaviour.
LEMMA OneOrder == ASSUME MaxOrders = 1 PROVE PosIInv /\ PartInv => OneSession
<1> SUFFICES ASSUME PosIInv, PartInv PROVE OneSession
  OBVIOUS
<1>1. Order = {1}
  BY DEF Order
<1>2. \A q \in LegRequests : q.order = 1
  BY <1>1, LegTyped
<1>3. ~Blocked(1)
  BY <1>1 DEF Blocked, OfCart
<1> QED BY <1>2, <1>3 DEF OneSession

(***************************************************************************)
(* A register with one order takes each of its parts once, however many    *)
(* answers are lost.                                                       *)
(***************************************************************************)
THEOREM OneOrderPartsTakenOnce ==
    ASSUME Lossy \subseteq {"net"}, MaxOrders = 1
    PROVE  Spec => []PartTakenOnce
<1>1. Init => PartInv
  BY PartBegins
<1>2. PosIInv /\ PartInv /\ [Next]_vars => PartInv'
  BY PartStep, OneOrder
<1>3. PartInv => PartTakenOnce
  BY PartsApart
<1>4. Spec => []PosIInv
  BY PosInductive, PTL
<1> QED BY <1>1, <1>2, <1>3, <1>4, PTL DEF Spec
=============================================================================
