----------------------------- MODULE PosPayment -----------------------------
(***************************************************************************)
(* Taking payment at the web register: the payment half of the usePos      *)
(* store (use-pos.ts), the buttons of PaymentDialog, SplitPanel and        *)
(* RecoveryScreen that call it, and the order rows of the server as far as *)
(* the store reads and writes them through the gateway.                    *)
(*                                                                         *)
(* Every await of the store is a call in a slot: the server runs it at     *)
(* some moment, the answer (or the loss of it) comes back at another, and  *)
(* the code after the await then runs with what it captured before.  Slot  *)
(* "pay" is the one busy operation of the dialog, slot "back" is the       *)
(* dialog being closed (Modal is not disabled by busy), and the slots in   *)
(* Watches are refreshes started by the interval or by the expiry timer.   *)
(* One step is one run of JavaScript: checkoutRef.current is the value of  *)
(* the last render, that is, of the state before the step.                 *)
(***************************************************************************)
EXTENDS Integers, FiniteSets

CONSTANTS
    Ops,        \* the operations the operator uses in this instance
    Watches,    \* slots for overlapping refreshes
    Parts,      \* the number of equal parts that cover a sale
    Lossy,      \* what a lost answer reads as: "net" matches the store's
                \* /fetch|network|timeout/, "odd" does not (a proxy's page, Safari)
    LossyAt,    \* the gateway functions whose answers may be lost
    Failures,   \* whether posting a paid sale may fail on the server
    MaxCarts, MaxOrders, MaxKeys, MaxLost, MaxTime  \* bounds

ASSUME PosPaymentConstants ==
    /\ Parts \in Nat \ {0} /\ Lossy \subseteq {"net", "odd"}
    /\ Failures \in BOOLEAN
    /\ {MaxCarts, MaxOrders, MaxKeys, MaxLost, MaxTime} \subseteq Nat

VARIABLES
    reg,    \* the register: cart, checkout, keys, split, legKey, receipt
    call,   \* the gateway call each slot awaits
    late,   \* requests whose answer was given up and that may still arrive
    ord,    \* commerce_orders with their intents and split sessions
    sold,   \* carts that are checked out
    now, lost, key  \* the clock, answers lost so far, the last key drawn

vars   == <<reg, call, late, ord, sold, now, lost, key>>
server == <<ord, sold>>

Slot  == {"pay", "back"} \cup Watches
Carts == 1 .. MaxCarts
Order == 1 .. MaxOrders
TTL   == 2   \* reservation_ttl, 20 minutes
Hold  == 3   \* what starting a split extends the deadline to, 60 minutes

\* A row: its provider intent is pending and the order's "active" one, or pending
\* and "loose"; locks: checkout_order_id of its cart; held: its reservations are
\* active; settled: settled_payment_entry_id; pay: the manual payment's request.
NoRow      == [cart |-> 0, req |-> 0, state |-> "none", exp |-> 0, intent |-> "none",
               locks |-> FALSE, held |-> FALSE, settled |-> FALSE, invoice |-> FALSE,
               pay |-> 0, split |-> "none", legs |-> {}]
NoCheckout == [order |-> 0, cart |-> 0, exp |-> 0, attempt |-> -1, outcome |-> "none"]
NoKeys     == [cart |-> 0, req |-> 0, pay |-> 0]
NoSplit    == [order |-> 0, status |-> "none", got |-> 0]
Waiting    == [kind |-> "wait", order |-> 0, row |-> NoRow]
NoCall     == [op |-> "idle", at |-> "idle", co |-> NoCheckout, order |-> 0, cart |-> 0,
               req |-> 0, key |-> 0, part |-> 0, ans |-> Waiting]

Init ==
    /\ reg = [cart |-> 0, opened |-> 0, checkout |-> NoCheckout, keys |-> NoKeys,
              split |-> NoSplit, legKey |-> 0, part |-> 1, receipt |-> 0]
    /\ call = [s \in Slot |-> NoCall]
    /\ late = {} /\ sold = {}
    /\ ord = [o \in Order |-> NoRow]
    /\ now = 0 /\ lost = 0 /\ key = 0

----------------------------------------------------------------------------
\* The server: what each gateway function may do to the order rows.

Open   == {"awaiting_payment", "payment_processing", "payment_failed"}
Closed == {"payment_expired", "cancelled"}
OfCart(c) == {o \in Order : ord[o].cart = c}
Active(o) == ord[o].state \in Open /\ ~ord[o].invoice

\* The rows of commerce_orders_one_live_cart_uidx.  An update that would make o
\* one of them is refused while its cart has another.
Live(o)    == ord[o].state \notin Closed \cup {"none"} /\ ~ord[o].invoice
Blocked(o) == ord[o].state \in Closed /\ ~ord[o].invoice
              /\ \E x \in OfCart(ord[o].cart) \ {o} : Live(x)

Says(k)     == [ord |-> ord, sold |-> sold, ans |-> [Waiting EXCEPT !.kind = k]]
Refused     == {Says("refused")}
Writes(o,r) == [ord |-> [ord EXCEPT ![o] = r], sold |-> sold \cup IF r.invoice THEN {r.cart} ELSE {},
                ans |-> [kind |-> "ok", order |-> o, row |-> r]]

\* now() + d; no hold runs past the end of the modelled time (bound).
Deadline(d) == IF now + d <= MaxTime THEN now + d ELSE MaxTime
\* reservation_expires_at = greatest(it, now() + 60 minutes).
Later(e) == IF e > Deadline(Hold) THEN e ELSE Deadline(Hold)

\* release_commerce_order, which leaves a settled order alone.
Release(r, terminal) ==
    IF r.settled THEN r ELSE [r EXCEPT !.state = terminal, !.locks = FALSE, !.held = FALSE]

\* finalize_commerce_order: the row can be posted, and what it then is.
CanPost(r) == r.state \in Open /\ ~r.invoice /\ r.exp > now /\ r.held /\ r.cart \notin sold
\* Mutation: the order takes the payment entry's state.
PostedAsEntry(r) == [r EXCEPT !.state = "posted", !.settled = TRUE, !.invoice = TRUE,
                              !.held = FALSE]

Posted(r) == [r EXCEPT !.state = "paid", !.settled = TRUE, !.invoice = TRUE, !.held = FALSE]

\* prepare_pos_commerce_checkout: the unexpired order that locks the cart, whatever
\* the request; a lapsed one is released; then the order of this request, even a
\* closed one; else a new order, unless the cart has a live one (unique index).
Prepare(q) ==
    LET own     == {o \in OfCart(q.cart) : ord[o].locks /\ Active(o)}
        current == {o \in own : ord[o].exp > now}
        same    == {o \in OfCart(q.cart) : ord[o].req = q.req}
        free    == {o \in Order : ord[o].cart = 0}
        closed  == [o \in Order |-> IF o \in own \ current
                                    THEN Release(ord[o], "payment_expired") ELSE ord[o]]
        give(f, o) == [ord |-> f, sold |-> sold, ans |-> [kind |-> "ok", order |-> o, row |-> f[o]]]
        new     == [NoRow EXCEPT !.cart = q.cart, !.req = q.req, !.state = "awaiting_payment",
                                 !.exp = now + TTL, !.locks = TRUE, !.held = TRUE]
    IN IF q.cart \in sold THEN Refused
       ELSE IF current # {} THEN {give(ord, o) : o \in current}
       ELSE IF same # {} THEN {give(closed, o) : o \in same}
       ELSE IF \E o \in OfCart(q.cart) : Live(o) /\ closed[o] = ord[o] THEN Refused
       ELSE IF free = {} \/ now + TTL > MaxTime THEN Refused   \* bounds
       ELSE LET o == CHOOSE x \in free : \A y \in free : x <= y
            IN {give([closed EXCEPT ![o] = new], o)}

\* settle_pos_commerce_tenders: idempotent in the payment request.
Settle(q) ==
    LET r == ord[q.order] IN
    IF r.pay = q.key THEN {Writes(q.order, r)}
    ELSE IF r.settled THEN Refused
    ELSE IF r.exp <= now THEN {Says("expired")}
    ELSE IF r.state \notin {"awaiting_payment", "payment_failed"} \/ ~CanPost(r) THEN Refused
    ELSE {Writes(q.order, [Posted(r) EXCEPT !.pay = q.key])} \cup IF Failures THEN Refused ELSE {}

\* startProvider.  create_pos_*_intent gives the pending intent of the order, or a
\* new one; the *-initiate functions of the repository do not read the
\* pos_commerce_order_id they are sent and refuse.  Both answers are possible.
Initiate(q) ==
    LET r == ord[q.order] IN
    IF r.settled \/ r.exp <= now \/ (r.state = "payment_processing" /\ r.intent # "active")
    THEN Refused
    ELSE IF r.intent # "none" THEN {Writes(q.order, r)} \cup Refused
    ELSE IF Blocked(q.order) THEN Refused
    ELSE {Writes(q.order, [r EXCEPT !.state = "payment_processing", !.intent = "active"])}
         \cup Refused

\* cancel_pos_commerce_checkout.
Cancel(q) ==
    LET r == ord[q.order] IN
    IF r.cart = 0 \/ r.settled \/ r.intent = "active" \/ r.legs # {} THEN Refused
    ELSE {Writes(q.order, Release(r, "cancelled"))}

\* checkout_pos_cart_on_account: an unlocked open cart is invoiced without an order.
OnAccount(q) ==
    IF q.cart \in sold \/ \E o \in OfCart(q.cart) : ord[o].locks THEN Refused
    ELSE {[ord |-> ord, sold |-> sold \cup {q.cart}, ans |-> [Waiting EXCEPT !.kind = "ok"]]}
         \cup IF Failures THEN Refused ELSE {}

\* refresh_pos_split_payment_session: an unsettled order of a session that still
\* runs follows the money taken, even a closed order (Blocked is the callers'
\* guard); it no longer points at a provider intent.
Refreshed(r) ==
    IF r.settled \/ r.split \notin {"open", "failed"} THEN r
    ELSE [r EXCEPT !.state = IF r.legs = {} THEN "awaiting_payment" ELSE "payment_processing",
                   !.intent = IF @ = "none" THEN @ ELSE "loose",
                   !.exp = IF r.legs = {} THEN @ ELSE Later(@)]

\* start_pos_split_payment: creates or finds the session and extends the hold.
StartSession(q) ==
    LET r == ord[q.order] IN
    IF ~Active(q.order) \/ r.settled THEN Refused
    ELSE {Writes(q.order, Refreshed([r EXCEPT !.split = IF @ = "none" THEN "open" ELSE @,
                                              !.state = "payment_processing", !.exp = Later(@)]))}

\* finalize_pos_split_payment_session: posted, or finalization_failed.
Finalize(o, r) ==
    (IF CanPost(r) THEN {Writes(o, [Posted(r) EXCEPT !.split = "settled"])} ELSE {})
    \cup (IF Failures \/ ~CanPost(r)
          THEN {Writes(o, [r EXCEPT !.split = "failed", !.state = "payment_processing"])} ELSE {})

\* add_pos_split_payment_leg: a known request id answers with its own session;
\* otherwise the part is captured and a covered sale is posted.  A failed
\* session is covered by what it has (also a reduced one).
AddLeg(q) ==
    LET r     == ord[q.order]
        owner == {o \in Order : \E l \in ord[o].legs : l.key = q.key}
        next  == Refreshed([r EXCEPT !.legs = @ \cup {[key |-> q.key, part |-> q.part]}])
    IN IF owner # {} THEN {Writes(o, ord[o]) : o \in owner}
       ELSE IF r.split # "open" \/ Cardinality(r.legs) >= Parts \/ Blocked(q.order) THEN Refused
       ELSE IF Cardinality(next.legs) < Parts THEN {Writes(q.order, next)}
       ELSE Finalize(q.order, next)

\* accept_pos_split_affordable_items: what is paid for is reserved again and
\* becomes the sale.
AcceptReduced(q) ==
    LET r == ord[q.order] IN
    IF r.split \notin {"open", "failed"} \/ r.legs = {} \/ Blocked(q.order) THEN Refused
    ELSE Finalize(q.order, Refreshed([r EXCEPT !.exp = Later(@), !.held = TRUE]))
         \cup IF Failures THEN Refused ELSE {}

RetrySession(q) ==
    LET r == ord[q.order] IN
    IF r.split # "failed" \/ Blocked(q.order) THEN Refused
    ELSE Finalize(q.order, Refreshed(r))

\* request_pos_split_cancellation: stock released, captured parts await refund.
CancelSession(q) ==
    LET r == ord[q.order] IN
    IF r.split \in {"none", "settled"} \/ (r.split # "cancelled" /\ Blocked(q.order)) THEN Refused
    ELSE {Writes(q.order, [Release(Refreshed(r), "cancelled") EXCEPT !.split = "cancelled"])}

\* repair_pos_paid_order.
Repair(q) ==
    LET r == ord[q.order] IN
    IF r.state = "allocation_pending" /\ r.settled /\ ~r.invoice /\ r.cart \notin sold
    THEN {Writes(q.order, Posted([r EXCEPT !.exp = Deadline(TTL)]))}
         \cup IF Failures THEN Refused ELSE {}
    ELSE Refused

\* get_pos_payment_status, find_pos_split_payment, the receipt: reads.
Read(q) == IF q.order = 0 THEN {Says("ok")} ELSE {Writes(q.order, ord[q.order])}

Effects(q) ==
    CASE q.at = "prepare"     -> Prepare(q)
      [] q.at = "settle"      -> Settle(q)
      [] q.at = "provider"    -> Initiate(q)
      [] q.at \in {"cancel", "release"} -> Cancel(q)
      [] q.at = "account"     -> OnAccount(q)
      [] q.at = "startSplit"  -> StartSession(q)
      [] q.at = "leg"         -> AddLeg(q)
      [] q.at = "reduce"      -> AcceptReduced(q)
      [] q.at = "retry"       -> RetrySession(q)
      [] q.at = "cancelSplit" -> CancelSession(q)
      [] q.at = "repair"      -> Repair(q)
      [] OTHER                -> Read(q)
----------------------------------------------------------------------------
\* Calls: sending, serving, losing.

Idle(s) == call[s].op = "idle"

\* pos.busy disables the dialog's buttons.  It is one flag, cleared by whichever
\* of two overlapping operations ends first; here it stays until both end.
Busy == ~Idle("pay") \/ ~Idle("back")

Send(s, c) == call' = [call EXCEPT ![s] = c]
Return(s)  == Send(s, NoCall)
Then(s, at) == Send(s, [call[s] EXCEPT !.at = at, !.ans = Waiting])
Await(op, at) == [NoCall EXCEPT !.op = op, !.at = at, !.co = reg.checkout,
                                !.order = reg.checkout.order, !.cart = reg.cart,
                                !.req = reg.keys.req]

Serve(s) ==
    /\ ~Idle(s) /\ call[s].ans = Waiting
    /\ \E e \in Effects(call[s]) :
         /\ ord' = e.ord /\ sold' = e.sold
         /\ call' = [call EXCEPT ![s].ans = e.ans]
    /\ UNCHANGED <<reg, late, now, lost, key>>

\* The answer never reaches the register: the request may have been served,
\* may be served later, or may be gone.
Lose(s) ==
    /\ ~Idle(s) /\ call[s].at \in LossyAt /\ call[s].ans.kind \in {"wait", "ok"} /\ lost < MaxLost
    /\ \E k \in Lossy : call' = [call EXCEPT ![s].ans = [Waiting EXCEPT !.kind = k]]
    /\ late' = IF call[s].ans = Waiting THEN late \cup {call[s]} ELSE late
    /\ lost' = lost + 1
    /\ UNCHANGED <<reg, server, now, key>>

ServeLate(q) ==
    /\ q \in late
    /\ late' = late \ {q}
    /\ \E e \in Effects(q) : ord' = e.ord /\ sold' = e.sold
    /\ UNCHANGED <<reg, call, now, lost, key>>

----------------------------------------------------------------------------
\* The store's helpers: new register states.
\* part numbers what the operator takes next: another sale takes another part.

FinishSale(c, shown) ==
    [reg EXCEPT !.receipt = IF shown THEN c ELSE 0, !.checkout = NoCheckout, !.split = NoSplit,
                !.legKey = 0, !.part = @ + 1, !.keys = NoKeys, !.cart = 0]
ExpireCheckout == [reg EXCEPT !.checkout = NoCheckout, !.split = NoSplit, !.keys = NoKeys]
SetCheckout(co) == [reg EXCEPT !.checkout = co]
\* splitFromRow: what the panel shows of a session.
View(o, r) == [order |-> o, status |-> r.split, got |-> Cardinality(r.legs)]
\* SplitSession.finalInvoiceId with status settled, refund_review or refund_pending.
SplitDone(r) == r.invoice /\ r.split = "settled"

InFlight == reg.checkout.attempt # -1 /\ reg.checkout.outcome = "none"
Choosing == reg.checkout.order # 0 /\ ~InFlight /\ reg.checkout.outcome # "unknown"
            /\ reg.split = NoSplit /\ reg.receipt = 0
Quiet    == <<late, server, now, lost>>

\* The first part added to an empty sale opens a cart (guardEditable: no checkout).
NewSale ==
    /\ reg.cart = 0 /\ reg.checkout = NoCheckout /\ reg.receipt = 0 /\ reg.opened < MaxCarts
    /\ reg' = [reg EXCEPT !.cart = reg.opened + 1, !.opened = @ + 1]
    /\ UNCHANGED <<call, late, server, now, lost, key>>

CloseReceipt ==
    /\ reg.receipt # 0
    /\ reg' = [reg EXCEPT !.receipt = 0]
    /\ UNCHANGED <<call, late, server, now, lost, key>>

----------------------------------------------------------------------------
\* What the operator starts in the payment dialog.

BeginCheckout ==
    /\ ~Busy /\ reg.cart # 0 /\ reg.receipt = 0 /\ reg.checkout = NoCheckout
    /\ IF reg.keys.cart = reg.cart
       THEN UNCHANGED <<reg, key>> /\ Send("pay", Await("begin", "prepare"))
       ELSE LET k == [cart |-> reg.cart, req |-> key + 1, pay |-> key + 2] IN
            /\ key + 2 <= MaxKeys /\ key' = key + 2
            /\ reg' = [reg EXCEPT !.keys = k]
            /\ Send("pay", [Await("begin", "prepare") EXCEPT !.req = k.req])
    /\ UNCHANGED Quiet

\* payManual and payProvider refresh the contacts on the order first.
Pay(op) ==
    /\ op \in Ops \cap {"manual", "provider"}
    /\ ~Busy /\ Choosing /\ reg.keys # NoKeys
    /\ Send("pay", [Await(op, "prepare") EXCEPT !.cart = reg.checkout.cart, !.key = reg.keys.pay])
    /\ UNCHANGED <<reg, key, Quiet>>

PayOnAccount ==
    /\ "account" \in Ops /\ ~Busy /\ Choosing
    /\ Send("pay", Await("account", "cancel"))
    /\ UNCHANGED <<reg, key, Quiet>>

StartSplit ==
    /\ "split" \in Ops /\ ~Busy /\ Choosing
    /\ Send("pay", Await("split", "startSplit"))
    /\ UNCHANGED <<reg, key, Quiet>>

SplitShown == reg.checkout.order # 0 /\ ~InFlight /\ reg.receipt = 0 /\ reg.split # NoSplit
SplitCall(op, at) == [Await(op, at) EXCEPT !.order = reg.split.order]

AddSplitPart ==
    /\ ~Busy /\ SplitShown /\ reg.split.status = "open" /\ reg.split.got < Parts
    /\ LET k == IF reg.legKey # 0 THEN reg.legKey ELSE key + 1 IN
       /\ k <= MaxKeys /\ key' = IF reg.legKey # 0 THEN key ELSE k
       /\ reg' = [reg EXCEPT !.legKey = k]
       /\ Send("pay", [SplitCall("split", "leg") EXCEPT !.key = k, !.part = reg.part])
    /\ UNCHANGED Quiet

ReduceBasket ==
    /\ "reduce" \in Ops /\ ~Busy /\ SplitShown /\ reg.split.status = "open" /\ reg.split.got > 0
    /\ Send("pay", SplitCall("split", "reduce"))
    /\ UNCHANGED <<reg, key, Quiet>>

\* The "Back to sale" button is disabled by busy, closing the Modal is not.
MayGoBack == ("cancel" \in Ops /\ ~Busy) \/ "close" \in Ops

\* The button in the panel; closing the dialog cancels a split without money.
CancelSplit(s) ==
    /\ s \in {"pay", "back"} /\ Idle(s) /\ SplitShown /\ reg.split.status \in {"open", "failed"}
    /\ s = "pay" => ~Busy /\ reg.split.status = "open"
    /\ s = "back" => MayGoBack /\ reg.split.got = 0 /\ reg.checkout.outcome # "unknown"
    /\ Send(s, SplitCall("stop", "cancelSplit"))
    /\ UNCHANGED <<reg, key, Quiet>>

\* "Back to sale", or the dialog closed while an operation is awaited.
CancelCheckout ==
    /\ MayGoBack /\ Idle("back") /\ Choosing
    /\ Send("back", Await("back", "cancel"))
    /\ UNCHANGED <<reg, key, Quiet>>

\* RecoveryScreen, for the register's unknown order: release, repair, post
\* again, or cancel the part payments (through the gateway, not the store).
Resolve(at) ==
    LET o == reg.checkout.order
        r == ord[o] IN
    /\ "resolve" \in Ops /\ ~Busy /\ o # 0 /\ reg.checkout.outcome = "unknown"
    /\ \/ at = "release" /\ ~r.invoice /\ r.split = "none"
          /\ r.state \in {"awaiting_payment", "payment_failed"}
       \/ at = "repair" /\ r.state = "allocation_pending" /\ ~r.invoice
       \/ at \in {"retry", "cancelSplit"} /\ r.split = "failed"
    /\ Send("pay", Await(IF at = "retry" /\ reg.split.order = o THEN "split" ELSE "resolve", at))
    /\ UNCHANGED <<reg, key, Quiet>>

----------------------------------------------------------------------------
\* Refreshes: the 3 s interval, "Check now", and the expiry timer.

Poll(w) ==
    /\ w \in Watches /\ Idle(w) /\ reg.checkout.order # 0 /\ InFlight
    /\ Send(w, Await("poll", "status"))
    /\ UNCHANGED <<reg, key, Quiet>>

\* Mutation: an outcome on screen disarms the timer, as it stops the interval.
ExpiryTimerQuiet(w) ==
    /\ w \in Watches /\ Idle(w) /\ \A v \in Watches : call[v].op # "timer"
    /\ reg.checkout.order # 0 /\ reg.checkout.attempt = -1 /\ reg.checkout.exp <= now
    /\ reg.checkout.outcome = "none"
    /\ Send(w, Await("timer", "status"))
    /\ UNCHANGED <<reg, key, Quiet>>

ExpiryTimer(w) ==
    /\ w \in Watches /\ Idle(w) /\ \A v \in Watches : call[v].op # "timer"
    /\ reg.checkout.order # 0 /\ reg.checkout.attempt = -1 /\ reg.checkout.exp <= now
    /\ Send(w, Await("timer", "status"))
    /\ UNCHANGED <<reg, key, Quiet>>
----------------------------------------------------------------------------
\* The code after each await.  c is the slot's call with what it captured.

Got(s, ops, at) == call[s].op \in ops /\ call[s].at = at /\ call[s].ans # Waiting
Ok(s)  == call[s].ans.kind = "ok"

\* beginCheckout: prepareCheckout, paymentStatus, findSplit.
BeginPrepared(s) ==
    /\ Got(s, {"begin"}, "prepare")
    /\ IF Ok(s)
       THEN Send(s, [call[s] EXCEPT !.at = "status", !.order = call[s].ans.order, !.ans = Waiting])
       ELSE Return(s)
    /\ UNCHANGED <<reg, key, Quiet>>

BeginRead(s) ==
    LET c == call[s] IN
    /\ Got(s, {"begin"}, "status")
    /\ IF Ok(s)
       THEN /\ reg' = SetCheckout([NoCheckout EXCEPT !.order = c.order, !.cart = c.cart,
                                                      !.exp = c.ans.row.exp])
            /\ Then(s, "findSplit")
       ELSE Return(s) /\ UNCHANGED reg
    /\ UNCHANGED <<key, Quiet>>

BeginFound(s) ==
    LET c == call[s] IN
    /\ Got(s, {"begin"}, "findSplit")
    /\ reg' = [reg EXCEPT !.split = IF Ok(s) /\ c.ans.row.split # "none"
                                    THEN View(c.order, c.ans.row) ELSE NoSplit]
    /\ Return(s)
    /\ UNCHANGED <<key, Quiet>>

PayPrepared(s) ==
    /\ Got(s, {"manual", "provider"}, "prepare")
    /\ IF Ok(s) THEN Then(s, IF call[s].op = "manual" THEN "settle" ELSE "provider")
       ELSE Return(s)
    /\ UNCHANGED <<reg, key, Quiet>>

\* payManual: a recognised network failure keeps the payment key.
Settled(s) ==
    LET c     == call[s]
        fresh == key + 1
        rekeyed == [reg EXCEPT !.keys.pay = IF reg.keys.req = c.req THEN fresh ELSE @]
    IN
    /\ Got(s, {"manual"}, "settle")
    /\ \/ Ok(s) /\ Then(s, "receipt") /\ UNCHANGED <<reg, key>>
       \/ /\ c.ans.kind = "net" /\ Return(s)
          /\ reg' = SetCheckout([c.co EXCEPT !.outcome = "unknown"]) /\ UNCHANGED key
       \/ /\ c.ans.kind \in {"refused", "odd"} /\ Return(s)
          /\ fresh <= MaxKeys /\ key' = fresh
          /\ reg' = [rekeyed EXCEPT !.checkout = [c.co EXCEPT !.outcome = "error"]]
       \/ /\ c.ans.kind = "expired" /\ Return(s)
          /\ reg' = ExpireCheckout /\ UNCHANGED key
    /\ UNCHANGED <<late, server, now, lost>>

\* payProvider: the attempt starts, or the dialog shows an error.
Initiated(s) ==
    LET c == call[s] IN
    /\ Got(s, {"provider"}, "provider")
    /\ reg' = SetCheckout(IF Ok(s) THEN [c.co EXCEPT !.attempt = now, !.outcome = "none"]
                          ELSE [c.co EXCEPT !.outcome = "error"])
    /\ Return(s)
    /\ UNCHANGED <<key, Quiet>>

\* cancelCheckout, and the same inside payOnAccount.
Cancelled(s) ==
    /\ Got(s, {"back", "account"}, "cancel")
    /\ IF Ok(s)
       THEN /\ reg' = [reg EXCEPT !.checkout = NoCheckout, !.keys = NoKeys]
            /\ IF call[s].op = "account" THEN Then(s, "account") ELSE Return(s)
       ELSE Return(s) /\ UNCHANGED reg
    /\ UNCHANGED <<key, Quiet>>

AccountSold(s) ==
    /\ Got(s, {"account"}, "account")
    /\ IF Ok(s) THEN Then(s, "receipt") ELSE Return(s)
    /\ UNCHANGED <<reg, key, Quiet>>

\* applySplit of the answered session, after startSplit, reduceBasket or a retry.
ApplySplit(s, base) ==
    LET a == call[s].ans
        shown == [base EXCEPT !.split = View(a.order, a.row)]
    IN
    IF SplitDone(a.row)
    THEN reg' = shown /\ Send(s, [call[s] EXCEPT !.at = "receipt", !.order = a.order, !.ans = Waiting])
    ELSE /\ reg' = IF a.row.split = "failed" /\ reg.checkout.order # 0
                   THEN [shown EXCEPT !.checkout.outcome = "unknown"] ELSE shown
         /\ Return(s)

SplitAnswered(s) ==
    /\ \E at \in {"startSplit", "reduce", "retry"} : Got(s, {"split"}, at)
    /\ IF Ok(s) THEN ApplySplit(s, reg) ELSE Return(s) /\ UNCHANGED reg
    /\ UNCHANGED <<key, Quiet>>

\* Mutation: the key is dropped with every failed answer.
LegAnsweredForgets(s) ==
    LET c == call[s] IN
    /\ Got(s, {"split"}, "leg")
    /\ IF Ok(s) THEN ApplySplit(s, [reg EXCEPT !.legKey = 0, !.part = @ + 1])
       ELSE Return(s) /\ reg' = [reg EXCEPT !.legKey = 0]
    /\ UNCHANGED <<key, Quiet>>

\* addSplitPart: a recognised network failure keeps the part's key.
LegAnswered(s) ==
    LET c == call[s] IN
    /\ Got(s, {"split"}, "leg")
    /\ IF Ok(s) THEN ApplySplit(s, [reg EXCEPT !.legKey = 0, !.part = @ + 1])
       ELSE Return(s) /\ reg' = [reg EXCEPT !.legKey = IF c.ans.kind = "net" THEN @ ELSE 0]
    /\ UNCHANGED <<key, Quiet>>

\* cancelSplit.
SplitCancelled(s) ==
    /\ Got(s, {"stop"}, "cancelSplit")
    /\ reg' = IF Ok(s) THEN [reg EXCEPT !.split = NoSplit, !.checkout = NoCheckout,
                                        !.keys = NoKeys, !.legKey = 0, !.part = @ + 1]
              ELSE reg
    /\ Return(s)
    /\ UNCHANGED <<key, Quiet>>

\* releaseOrder, repairPaidOrder, and the recovery screen's own split cancel:
\* only the first touches the register's checkout.
Resolved(s) ==
    /\ \E at \in {"release", "repair", "retry", "cancelSplit"} : Got(s, {"resolve"}, at)
    /\ reg' = IF Ok(s) /\ call[s].at = "release" /\ reg.checkout.order = call[s].order
              THEN [reg EXCEPT !.checkout = NoCheckout, !.keys = NoKeys] ELSE reg
    /\ Return(s)
    /\ UNCHANGED <<key, Quiet>>

Wait(co) == co.attempt # -1 /\ now > co.attempt   \* PROVIDER_WAIT_MS has passed

\* refreshCheckout's outcome for the captured checkout co and the row st it read:
\* the checkout it sets; "expired" and "approved" are handled by the caller.
Refresh(co, st) ==
    CASE st.state = "allocation_pending" /\ ~st.invoice ->
            [co EXCEPT !.exp = st.exp, !.outcome = "unknown"]
      [] st.state = "payment_failed" /\ co.attempt # -1 ->
            [co EXCEPT !.exp = st.exp, !.attempt = -1, !.outcome = "declined"]
      [] st.state \in {"awaiting_payment", "payment_processing"} /\ Wait(co) ->
            [co EXCEPT !.exp = st.exp, !.outcome = "unknown"]
      [] OTHER -> [co EXCEPT !.exp = st.exp]

\* Mutation: the paid state is enough, the invoice is not asked for.
PostedRowState(st) == st.state \in {"paid", "allocation_pending"}

\* salesInvoiceId, in state paid, allocation_pending or dispatch_ready.
PostedRow(st) == st.invoice /\ st.state \in {"paid", "allocation_pending"}

ClosedRow(st) == st.state \in Closed

\* The check chained to the timer's refresh reads the checkout of the last render.
TimerExpires(c) == c.op = "timer" /\ reg.checkout.order # 0 /\ reg.checkout.exp <= now

RefreshRead(s) ==
    LET c  == call[s]
        st == c.ans.row
        posted == Ok(s) /\ PostedRow(st)
        closed == Ok(s) /\ ClosedRow(st)
    IN
    /\ Got(s, {"poll", "timer"}, "status")
    /\ \/ /\ posted /\ Then(s, "receipt")
          /\ reg' = SetCheckout([c.co EXCEPT !.exp = st.exp, !.outcome = "approved"])
       \/ /\ ~posted /\ Return(s)
          /\ reg' = IF closed \/ TimerExpires(c) THEN ExpireCheckout
                    ELSE IF Ok(s) THEN SetCheckout(Refresh(c.co, st)) ELSE reg
    /\ UNCHANGED <<key, late, server, now, lost>>

\* finishSale after loadReceipt, read or not.
Finished(s) ==
    LET c == call[s]
        of == IF c.op = "account" THEN c.cart ELSE ord[c.order].cart
    IN
    /\ ~Idle(s) /\ c.at = "receipt" /\ c.ans # Waiting
    /\ \E shown \in {TRUE} \cup IF Lossy = {} THEN {} ELSE {FALSE} : reg' = FinishSale(of, shown)
    /\ Return(s)
    /\ UNCHANGED <<key, late, server, now, lost>>

Answered(s) ==
    \/ BeginPrepared(s) \/ BeginRead(s) \/ BeginFound(s) \/ PayPrepared(s) \/ Settled(s)
    \/ Initiated(s) \/ Cancelled(s) \/ AccountSold(s) \/ SplitAnswered(s) \/ LegAnswered(s)
    \/ SplitCancelled(s) \/ Resolved(s) \/ RefreshRead(s) \/ Finished(s)

----------------------------------------------------------------------------
\* The rest of the world.

\* External: the provider reports success (settle_commerce_payment): a settled
\* order keeps its settlement; the sale is posted if it can be.
ProviderPaid(o) ==
    LET r == [ord[o] EXCEPT !.intent = "none"] IN
    /\ ord[o].intent # "none"
    /\ \/ r.settled /\ ord' = [ord EXCEPT ![o] = r] /\ UNCHANGED sold
       \/ /\ ~r.settled /\ CanPost(r)
          /\ ord' = [ord EXCEPT ![o] = Posted(r)] /\ sold' = sold \cup {r.cart}
       \/ /\ ~r.settled /\ (Failures \/ ~CanPost(r)) /\ ~Blocked(o)
          /\ ord' = [ord EXCEPT ![o] = [r EXCEPT !.state = "allocation_pending", !.settled = TRUE]]
          /\ UNCHANGED sold
    /\ UNCHANGED <<reg, call, late, now, lost, key>>

\* External: the provider reports a failure.
ProviderDeclined(o) ==
    LET r == [ord[o] EXCEPT !.intent = "none"] IN
    /\ ord[o].intent # "none"
    /\ ord' = [ord EXCEPT ![o] = [r EXCEPT
            !.state = IF ~r.settled /\ @ \in Open THEN "payment_failed" ELSE @]]
    /\ UNCHANGED <<reg, call, late, sold, now, lost, key>>

\* expire_commerce_checkouts_internal.
Sweep(o) ==
    /\ Active(o) /\ ~ord[o].settled /\ ord[o].exp <= now
    /\ ord' = [ord EXCEPT ![o] = Release(@, "payment_expired")]
    /\ UNCHANGED <<reg, call, late, sold, now, lost, key>>

Tick ==
    /\ now < MaxTime /\ now' = now + 1
    /\ UNCHANGED <<reg, call, late, server, lost, key>>

Operator ==
    \/ NewSale \/ CloseReceipt \/ BeginCheckout
    \/ \E op \in {"manual", "provider"} : Pay(op)
    \/ PayOnAccount \/ StartSplit \/ AddSplitPart \/ ReduceBasket
    \/ \E s \in Slot : CancelSplit(s)
    \/ CancelCheckout
    \/ \E at \in {"release", "repair", "retry", "cancelSplit"} : Resolve(at)

Next ==
    \/ Operator
    \/ \E s \in Slot : Serve(s) \/ Lose(s) \/ Answered(s)
    \/ \E q \in late : ServeLate(q)
    \/ \E w \in Watches : Poll(w) \/ ExpiryTimer(w)
    \/ \E o \in Order : ProviderPaid(o) \/ ProviderDeclined(o) \/ Sweep(o)
    \/ Tick

Spec == Init /\ [][Next]_vars

\* The interval and the expiry timer fire, what they read is answered, and time
\* passes.  Any other request may hang for ever; the operator, the providers and
\* the sweep owe nothing.
Fairness ==
    /\ \A w \in Watches : /\ WF_vars(Poll(w) \/ ExpiryTimer(w))
                          /\ WF_vars(Serve(w) \/ Answered(w))
    /\ WF_vars(Tick)
FairSpec == Spec /\ Fairness
----------------------------------------------------------------------------
\* Properties.

(***************************************************************************)
(* Types; and a deadline the register shows is one an order can have.      *)
(***************************************************************************)
TypeOK ==
    /\ reg.cart \in 0 .. MaxCarts /\ reg.receipt \in 0 .. MaxCarts /\ reg.legKey \in 0 .. MaxKeys
    /\ reg.checkout.order \in 0 .. MaxOrders /\ reg.checkout.exp \in 0 .. MaxTime
    /\ reg.checkout.outcome \in {"none", "approved", "declined", "error", "unknown"}
    /\ reg.split.order \in 0 .. MaxOrders /\ reg.split.got \in 0 .. Parts
    /\ \A o \in Order : ord[o].state \in Open \cup Closed \cup {"none", "paid", "allocation_pending"}

(***************************************************************************)
(* A part the operator takes (again after "did not arrive", until the      *)
(* register confirms it) is recorded by the server once, however answers   *)
(* are lost and requests arrive late (addSplitPart, splitLegKey).  Two     *)
(* things are needed: the store recognises a lost answer as a network      *)
(* failure (with Lossy = {"odd"} it drops the key as after a refusal), and *)
(* no request for the part outlives its order while the cart goes on to    *)
(* another (OneSession in PosPaymentProofs).                               *)
(***************************************************************************)
PartTakenOnce ==
    \A o, p \in Order : \A l \in ord[o].legs, m \in ord[p].legs :
        l.part = m.part => o = p /\ l.key = m.key

(***************************************************************************)
(* The "Sale complete" screen shows only sales the server has posted       *)
(* (refreshCheckout asks for the invoice, not only for the paid state).    *)
(***************************************************************************)
ReceiptIsPosted == reg.receipt # 0 => reg.receipt \in sold

(***************************************************************************)
(* The register sits on order o after a provider attempt ran out of time:  *)
(* neither the interval nor the timer looks at it any more.                *)
(***************************************************************************)
GaveUp(o) == reg.checkout.order = o /\ reg.checkout.attempt # -1 /\ reg.checkout.outcome = "unknown"

(***************************************************************************)
(* A sale the server has posted leaves the register, and a checkout the    *)
(* server has closed unlocks the sale, by the interval, the timer or a     *)
(* retry, unless the register gave up on a provider attempt.               *)
(***************************************************************************)
DoneOrderLeaves ==
    \A o \in Order : (ord[o].invoice \/ ord[o].state \in Closed)
        ~> (reg.checkout.order # o \/ Active(o) \/ GaveUp(o))

=============================================================================
