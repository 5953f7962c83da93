# Verification of the Nissan GTR Auto ERP: orders, payments, messages, dispatch

This directory holds TLA+ models of the order, payment and stock core of the
Nissan GTR Auto ERP and of the processes around it (the payment edge functions,
the web register, the outbox workers, customer signup and delivery dispatch),
TLC configurations that check them on small instances, and TLAPS proofs of the
central results for all values of the constants.

The program is a PostgreSQL schema with its logic in database functions
(`supabase/migrations`: one baseline dump plus small forward migrations), called
by a web client, Android and iOS apps and edge functions. The map in
`PROJECT.json` cites the functions in the files that introduced their present
bodies (`supabase/live-history`, `supabase/migration-history/legacy`): the
baseline is a 50,000-line dump of the same text. Functions that have no file of
their own (dispatch, outboxes) are cited in the baseline. Migrations are named
below by their time stamp. The TypeScript that decides something is in the edge
functions (`supabase/functions`), in `packages/delivery*` and in the register's
store (`apps/web/lib/pos/use-pos.ts`).

## 1. The system

| component | state it keeps | operations | talks to |
|---|---|---|---|
| stock and reservations | `stock_levels`, `inventory_reservations` | `_adjust_stock_level`, `get_inventory_available_quantity`, reservation inserts and updates | everything that sells, delivers or counts |
| commerce checkout | `commerce_orders`, the checkout lock of `pos_carts` | `prepare_customer_checkout`, `prepare_pos_commerce_checkout`, `cancel_pos_commerce_checkout`, `release_commerce_order`, `expire_commerce_checkouts_internal` (pg_cron), `finalize_commerce_order` | stock, payments, till checkout |
| provider payments | `*_payment_intents`, `*_webhook_events` | `create_customer_*_intent`, `create_pos_*_intent`, `mark_*_settled` (called by the edge webhooks) | settlement |
| settlement and recovery | `payment_entries`, `commerce_payment_exceptions` | `settle_commerce_payment`, `post_unapplied_payment_entry`, `repair_pos_paid_order` | checkout, store credit |
| staff tenders | `commerce_manual_payment_requests`, `pos_commerce_tender_settlements` | `settle_commerce_manual_payment`, `settle_pos_commerce_tenders`, `finalize_pos_account_credit_order`, `collect_pos_commerce_order` | settlement, checkout |
| store credit | `store_credit_accounts`, `store_credit_ledger` | `_append_store_credit`, `redeem_store_credit` | settlement, repair, tenders |
| delivery notes | `delivery_notes`, `sales_invoice_lines.qty_fulfilled` | `submit_delivery_note`, `cancel_delivery_note`, trigger `sync_delivery_reservations` | stock, orders |
| till checkout | `pos_carts`, `sales_invoices` | `checkout_pos_cart` | stock; also called by finalization |
| payment edge functions | none of their own; intents in the database, transactions at the providers | `{paynow,contipay,ecocash}-initiate`, `{paynow,contipay,ecocash}-webhook` | clients, providers, `create_customer_*_intent`, `mark_*_settled` |
| web register payments | the `usePos` store: checkout, request keys, split session, receipt | `beginCheckout`, `payManual`, `payProvider`, `payOnAccount`, `startSplit`, `addSplitPart`, `reduceBasket`, `cancelSplit`, `cancelCheckout`, `refreshCheckout`, the expiry timer, the recovery screen | the gateway, hence the functions above |
| split payments | `pos_split_payment_sessions`, legs | start, part, reduced basket, finalization, retry, cancellation; holds, provider legs and refunds are **not modelled** | settlement |
| outbox workers, receipts | `customer_receipt_outbox`, `sms_outbox`, `receipt_pdf_artifacts` | `process-customer-receipts`, `process-sms-outbox` with `claim_*`, `complete_*`, `mark_receipt_pdf_ready` | SMS, e-mail and WhatsApp gateways |
| customer signup | `auth.users`, `customers` | `auth-otp` (request, verify, complete), `request-`/`verify-password-reset` | Supabase Auth |
| delivery dispatch | `delivery_jobs`, `driver_presence`, a cycle's progress | `delivery-dispatch-cycle`, the Temporal `DeliveryDispatchWorkflow`, `assign_delivery_job`, `_try_auto_assign_delivery_job`, the insert trigger, the dispatcher's override | drivers, orders that are picked |
| card terminal, cash on delivery | attempts | ... | settlement; **not modelled yet** |
| offline POS, WhatsApp, payroll, scheduled outreach | queues and jobs | ... | **not modelled yet** |
| ledger, HR, catalog, documents, analytics, bridges, clients | | | not modelled, see section 8 |

How they interact. A cart is *prepared*: an order row is inserted, its
quantities are reserved until a deadline and the cart is locked. The customer
pays through a provider (intent, later a webhook), or staff take cash, store
credit or account credit. Settlement calls finalization, which checks the cart
out: an invoice is posted, a pick-up order's stock is issued and a dispatch
order's reservation becomes an allocation that delivery notes consume. A pg_cron
job expires checkouts whose deadline has passed. A payment that cannot be
applied any more (the order is settled or cannot be finalized) is kept as store
credit, with an exception row, until staff repair the order.

Around this core, the initiate functions create intents and ask a provider for a
transaction, and the webhook functions turn its callbacks into `mark_*_settled`. The
register calls the same database functions through its gateway and watches the
order with an interval and a timer. A posted invoice queues receipt messages that
the workers render, claim and send. An online order that is picked becomes a
delivery job, for which a dispatch cycle or the SQL auto-assignment finds a driver.
Customers sign up through `auth-otp`; an account that is complete has a customer row,
which everything else hangs on.

What is hard here:

* *Interleaving.* Every function is a READ COMMITTED transaction. Most lock the
  order's row; comparisons of stock are only sometimes made under the stock
  row's lock, and `now()` is the start of the transaction.
* *Awaits.* An edge function and the register's store read, await a remote call
  and then write with what they read before; several of them run at once, any
  may stop in between, and an answer may be lost after the call took effect.
* *Delivery.* Providers report late, repeatedly, in different payloads, a
  failure before a success; a webhook whose function raises is answered with
  HTTP 400 and sent again.
* *Ordering.* Expiry, cancellation, re-staging of the cart, late payment, sale
  at the till and repair can follow each other in any order.
* *Liveness.* A cart is locked until its order is paid, cancelled or swept; a
  register must let go of an order that is done; a claimed message must be sent
  or come back; a dispatch cycle must end although its list of drivers changes.

What makes each component correct:

* stock: what is promised is on the shelf; an issue never takes what is promised
  to somebody else; the two records of a delivery agree;
* checkout: a cart is sold once, its lock has an owner that will let go of it,
  invoiced orders and only those have their goods;
* payments: every charge is recorded, every payment is applied or held exactly
  once, a paid order stays paid, store credit is backed by money received;
* edge functions: only money the provider took settles an intent, once; an order
  gets a second intent only after a report that a payment of one of the two did not
  succeed; a payment that stands gets through;
* register: what it shows as sold is sold, a part is taken once, no order that is
  done keeps it occupied;
* outbox: a row is marked sent only if a message went out, never reopened, never
  forgotten, and a recipient is not sent copies without a reason;
* signup: a password only for a verified address, a customer for each account;
* dispatch: only the desk or a race takes a driver past the capacity, a finished job
  stays as it is, "accepted" means assigned, every cycle ends.

## 2. Modules

| module | content |
|---|---|
| `StockReservation` | one stock row and the reservations against it; the abstract specification of what every other part may do to stock |
| `StockReservationProofs` | its theorems |
| `CartSale` | the abstract specification of a cart's orders: staged, closed, revived, settled, invoiced; with its theorems |
| `CommerceCheckout` | carts, orders, intents, webhooks, settlement, staff payments, repair, delivery; contains `StockReservation` as the instance `Stock`, `CartSale` as the instance `Sale`, and refines both |
| `CommerceCheckoutProofs` | its theorems |
| `MCCommerceCheckout` | the constants of the TLC instances (which order is for which cart, which payment for which order) |
| `PosPayment` | the register's payment dialog and store, one step per run of JavaScript between two awaits, with the order rows it works on |
| `PaymentEdge` | the initiate and webhook functions of three providers, and the providers |
| `MessageOutbox` | the two outbox workers, the receipt's PDF and the gateways |
| `CustomerSignup` | signup and password reset on top of Supabase Auth |
| `DeliveryDispatch` | the two kinds of dispatch cycle, the SQL assignment, the desk and the drivers |
| `PosPaymentProofs`, `PaymentEdgeProofs`, `MessageOutboxProofs`, `CustomerSignupProofs`, `DeliveryDispatchProofs` | the theorems of these five, one module each |

The constants of these five are such that a configuration can write them down, and
they are checked directly, without an MC module. Each `...Proofs` module starts with
the inductive invariant and then has one lemma for each action; section 5 says what
they prove.

### StockReservation

| variable | code |
|---|---|
| `physical` | `stock_levels.quantity` |
| `rstate` | `inventory_reservations.state`; `lapsed` is `active` with `expires_at <= now()`, which the availability query no longer counts |
| `rqty`, `rcons` | `reserved_qty`, `consumed_qty` |
| `shipped` | `sales_invoice_lines.qty_fulfilled` |
| `tx` | what a transaction in flight has checked but not yet written |

`ReserveLocked` is the customer checkout (comparison under the stock row's
lock). `PosCheck`/`PosInsert` is the counter checkout, which compares without
that lock; `PosReserve` is the same function undisturbed. `StartFinalize`
followed by `FinalizeImmediate`/`FinalizeDispatch` is a settlement whose `now()`
is older than the deadline it is compared with; `StartRepair` followed by
`RepairImmediate`/`RepairDispatch` is the repair with its unlocked comparison.
`Rollback` is a raise inside such a transaction. The constant `Stale` says for
which reservations transactions may take that long; for the others they are one
step. `Release`, `Lapse`, `SubmitDelivery`, `CancelDelivery`, `Receive` and
`Issue` are one step each: they write under the row lock they compare under.

### CartSale

| variable | code |
|---|---|
| `stage` | of an order: not there, *live* (the rows of `commerce_orders_one_live_cart_uidx`), *closed* (expired or cancelled), *invoiced* (`finalized_at`) |
| `of`, `paid` | `cart_id`; orders with a `settled_payment_entry_id` |
| `sold` | carts that are checked out, by an order or without one |

What both users of the table `commerce_orders` must keep to, `CommerceCheckout` (the
customer's checkout, webhooks, repair) and `PosPayment` (the tills with their split
payments): `Stage`, `Close`, `Reopen`, `Settle`, `Invoice`, `SellCart`. A closed order
may come back when money arrives for it or a payment of it is started, unless the
unique index sees another live order of the cart (`Alone`). The promises follow from
these rules alone: one live order and one invoice per cart, a settled order is never
let go, an invoice and a settlement are final.

### CommerceCheckout

The variables are columns (named in the module). One action per function:
`Prepare`, `Sweep`, `Cancel`, `CreateCustomerIntent`, `CreatePosIntent`,
`PaidWebhook` and `FailedWebhook` (`mark_*_settled`), `ManualPayment`,
`TenderPayment`, `AccountCredit`, `Repair`, `SpendCredit`, `Collect`, `Deliver`,
`CancelDelivery`, `SellCart`, `EditCart`, `MoveStock`. `Lapse` is the clock and
`Charge` is the provider (external). `settle_commerce_payment` is the three
operators `SettleDuplicate`, `SettleApplied` and `SettleUnfinalized`;
`finalize_commerce_order` is `Finalize`; `release_commerce_order` is
`ReleaseOrder`.

A function that raises changes nothing and is not a step. Note that
`create_customer_*_intent` releases an expired order and then raises: the
release is rolled back, so there is no such step either.

### PosPayment

| variable | code |
|---|---|
| `reg` | the store's refs and state: cart, `checkout`, `checkoutKeys`, `split`, `splitLegKey`, the receipt on screen |
| `call` | one record per awaited gateway call, with what its closure captured: slot `pay` for the busy operation, `back` for the dialog being closed meanwhile, `Watches` for refreshes |
| `late` | requests whose answer was given up and that the server may still execute |
| `ord`, `sold` | `commerce_orders` with intent and split session, carts that are invoiced |

An operation starts (`BeginCheckout`, `Pay`, `StartSplit`, ...), the server executes
its call at some moment (`Serve`, by the operator of `Effects` that translates the
database function), the answer may be lost before or after (`Lose`,
`ServeLate`), and the code after the await runs as one step (`Settled`,
`LegAnswered`, `RefreshRead`, ...) with the captured values, although `reg` may have
changed. `Poll` and `ExpiryTimer` are the interval and the timer of the two
effects.

The server's functions are cut down to what the store can see; their full
behaviour towards stock and money is `CommerceCheckout`. What they do to an order is
complete enough to follow `CartSale`: `Closed`, `Live` and `Blocked` are the unique
index, `Release` is `release_commerce_order`, `locks`, `held` and `settled` of a row are
the cart's lock, the reservations and the settlement. In particular a session
brings a closed order back to life when a part is added to it or it is refreshed, and
`prepare_pos_commerce_checkout` answers with the closed order of its own request. Parts of a split are
equal shares taken in cash; `part` numbers what the operator takes: the next share,
and the first share of the next sale or after a cancelled split, is another part.
`busy` is one flag which the first of two overlapping
operations clears; here buttons stay disabled until both end, which leaves out
orders of steps that need a third click in that window. `startProvider` sends
`pos_commerce_order_id` to the initiate functions, which in this repository do not
read it and refuse; `Initiate` has that answer and also the one that
`create_pos_*_intent` would give.

### PaymentEdge

| variable | code |
|---|---|
| `call` | invocations of the initiate functions and the intent each holds |
| `istatus` | `*_payment_intents.status` |
| `txn`, `sent` | the providers' transactions and the callbacks they have sent (external) |
| `hook` | invocations of the webhook functions between reading the status and `mark_*_settled` |
| `seen` | `*_webhook_events`, by payload |
| `entries`, `paidBy` | payment entries; the intent the order was settled with |

`PaynowCreate`, `ContipayCreate` and `EcocashCreate` are an initiate function up to
its intent, `Initiate*` the rest of it with the provider, `PushRefused` every refusal
after the intent exists, which leaves it pending. `PaynowWebhook` replaces the posted
status by the polled one when the poll works; the other two believe the body.
`MarkSettled` is one transaction. The secrets are configured, refusals that change
nothing are not steps, the local stub mode is left out, and what a settlement does
to the order is `CommerceCheckout`.

### MessageOutbox

| variable | code |
|---|---|
| `row` | `status`, `attempt_count` and link of an outbox row |
| `late` | rows in `sending` for more than 15 minutes |
| `token` | `receipt_pdf_artifacts.download_token`, as a version number |
| `worker` | invocations: what they claimed, the row in hand, what its gateway call returned, the links as read by the claim |
| `given`, `surplus` | history: links a recipient was sent; messages delivered, less the reasons there were to repeat one |

`Claim` is `claim_*_outbox_batch` with its reclaim of late rows, `Send` and
`SendWhatsAppOrSms` the gateway calls (the second with the SMS fallback, which
repeats a WhatsApp message whose answer was lost), `Complete` is
`complete_*_outbox`. `CompleteFails` and `Die` are a result that is not recorded;
nobody looks at the error of `complete_*_outbox`. `RenderPdf` replaces the artifact's
token: rows already handed to a worker keep the link they were claimed with.
One document, one row per channel; wording and layout are left out.

### CustomerSignup

| variable | code |
|---|---|
| `user` | the `auth.users` row of one e-mail address, with its confirmations and `app_metadata` |
| `customers` | accounts that have a `customers` row |
| `code` | the account that the last code of each channel belongs to |
| `inv` | invocations: their next call and the account as they read it |

Each call to Supabase Auth is a step of its own: `Request` reads and decides,
`DeleteExpired`, `ResumePending`, `CreatePending` and `SendOtp` act; `Verify` reads,
`VerifyOne` checks a code, and then the phone's when the body holds both; `Complete` reads, `EnsureCustomer` and `FinishSignup`
write. The reset functions share the SMS code with signup. Codes are values that
match or not; the rate limit is the bound `MaxCodes`.

### DeliveryDispatch

| variable | code |
|---|---|
| `job` | `delivery_jobs.status` and `assignee_user_id` |
| `flight` | the driver an open transaction on the job's row is about to write |
| `onDuty`, `capacity` | `driver_presence`: drivers present and within their shift, and the jobs each takes at a time |
| `cycle` | the cycles: candidates, tried drivers, attempts of the current activity |
| `desk` | the job of the open override form |
| `stale` | history: open transactions whose driver was given another job, or lowered the capacity, after they had picked the driver |

`ListDrivers`, `ApplyDecision`, `AssignJob`/`AssignCommits` and
`EnqueueFifo`/`QueueCommits` are the steps of a cycle; `Fails` is the workflow's
retry policy or the edge function's error answer. The assignment reads the driver's
presence and open jobs without a lock, so reading and commit are two steps.
`AutoAssign`/`AutoCommits` are the auto-assignment by itself, also from the insert
trigger (`CreateJob`, second attempts in `CloseJob`). `CreateJobFor` is
`create_delivery_job` with `p_assignee_user_id`: neither the function nor the trigger
looks at that driver's presence or capacity. `SetPresence` is `set_driver_presence`
with its `p_capacity`, which nothing compares with the jobs the driver has; a driver
begins with the default, 1. Which driver of a list comes first is left open, so the
ranking cannot matter.

### Abstractions of the order core

* One stock item, one warehouse; a unit costs one unit of money, so an order's
  total is its quantity. One customer with one store-credit account.
* Delivery notes are quantities of their order: drafts are not modelled and any
  shipped quantity may be cancelled, which contains what whole notes can do.
* `SettleUnfinalized` is possible whenever the order is unsettled and not
  invoiced, since finalization also fails for reasons that are not modelled
  (credit hold, locked period, missing role). `SettleApplied` needs what the
  code needs.
* A settlement with several tenders is one payment; `k` of it is store credit.
* `PosInsert`'s race is studied in `StockReservation`; in `CommerceCheckout` both
  prepare functions are the one step `Prepare` (`Pos` and `Stale` are empty).
* A payload is (intent, outcome, variant): webhooks are de-duplicated by the hash
  of the raw body, so one outcome in two bodies is two payloads. The ContiPay and
  EcoCash webhooks report every status that is not a success as a failure; the
  Paynow webhook ignores intermediate ones.
* `authorized` intents behave as `pending` ones. The rounding tolerances (0.001,
  0.0001) are left out: quantities and amounts are integers.

## 3. Runs

| run | instance | shows | distinct states |
|---|---|---|---|
| `stock_guarded` | 3 reservations (slow pick-up, dispatch, counter dispatch), quantities 1-2, stock up to 3 | `NoOverReservation`, `ReservationFollowsInvoice` when only pick-up orders act on old checks | 17,151 |
| `stock_races` | 3 reservations, all slow, stock up to 6 | with every race: `IssueSparesOthers` | 169,000 |
| `orders` | 1 order, 2 intents with different providers, 1 staff payment, fairness | the safety and action properties that concern a single order; `AbandonedCartFreed`, `ChargeRecorded` | 21,513 |
| `again` | 1 dispatch cart, 2 orders one after the other, an intent each, a staff payment for the second | `CartInvoicedOnce`, and the refinements `StockImplemented` (quantities up to 2) and `SaleImplemented` | 254,721 |
| `register` | 1 sale, 1 order, 2 parts, every operation, 1 lost answer (at settle or part), posting may fail, dialog closed at any moment | `PartTakenOnce`, `ReceiptIsPosted`, `DoneOrderLeaves` | 933,360 |
| `edge` | 2 payment attempts, 3 providers, 2 webhook invocations, 4 callbacks, 1 fault | `SettledWasPaid`, `BookedOnce`, `PaynowFailsOnTerminal`, `SecondIntentExplained`, `PaidIntentSettles` | 264,693 |
| `outbox` | a receipt by SMS, a staff message by WhatsApp, 2 workers, 3 attempts, 2 renderings, 3 faults | `SentWasDelivered`, `RepeatedForReason`, `SentIsFinal`, `RowEnds` | 39,543 |
| `signup` | 2 invocations, 2 accounts, 3 codes, 1 stop | `PasswordMeansVerified`, `CompletedHasCustomer` | 1,289,068 |
| `dispatch` | 2 jobs, 2 drivers (capacities 0-2, at first 1), one edge cycle and one workflow, 1 lost call or intervention | `OverloadExplained`, `FinishedJobFrozen`, `AcceptedIsAssigned`, `DriverKeepsJob`, `CycleEnds` | 1,072,913 |
| `pos_race` | violation | two counter checkouts reserve the same units | |
| `late_charge` | violation | a late charge is never recorded when its cart has another live order | |
| `stale_failure` | violation | a repeated failure report lets cash be taken while an intent is pending | |

The runs of `StockReservation` and `CommerceCheckout` keep the deadlock check: stock
can always be received or issued, or a deadline passes, until TLC's bounds. The
other five switch it off: every sale, message, signup or job may be finished and
every client gone, and then nothing is left to do; that the work does end where it
should is what their liveness properties say.

Why the bounds are enough for the cases of interest. Two reservations suffice for
every check-then-act race, a third lets one of them be a bystander; quantity 2
distinguishes partial from complete delivery. One order with two intents of
different providers and one staff payment gives every pair of competing payers;
two orders of one cart give every re-staging. Competition of two carts for stock
and the refinement for it are covered by the theorems, which have no bounds on
carts, orders, payments and quantities. One register has one checkout: two parts
distinguish a repeated part from the next one, one lost answer is one retry, and
three units of time let a reservation and a provider attempt run out. Two
attempts and two webhook invocations give every pair of calls that can
race for one order; four callbacks are a whole life of one transaction
(sent, paid, delivered, refunded) or two of each. Two workers and three attempts
give a slow worker, its successor and one more try. Two accounts are a deleted one
and its replacement. Two jobs and two drivers give every overlap of two
assignments; capacity 1 is the database's default, and 0 and 2 are a driver who
takes less or more than before. All bounds are constants with
names beginning in `Max`.

What passing does not mean. `PartTakenOnce` is checked for lost answers whose text
the store recognises (`/fetch|network|timeout/`); with another text
(`Lossy = {"odd"}`) the store drops the part's key as after a refusal, and TLC finds
a part taken twice. The run has one order. With three orders of one cart
and two lost answers TLC finds another way (an instance that is not among the runs):
the request for a part is given up on the first order and stays under way, the order
expires, and the answer to the cancellation of the second order's session is lost, so
that the register does not learn of it and sends the part there, with the same key.
It is refused, the key is dropped, the part is recorded with a new key on the
third order, and its sale is posted. Then the first request arrives: the first
order's session is still open, because expiry leaves sessions alone, the unique index
does not stand in the way any more, and the part is recorded a second time.
The theorem `PartsTakenOnce` (section 5) says what excludes it.
`DoneOrderLeaves` excepts a provider attempt that ran out of
time (`GaveUp`): from then on neither interval nor timer asks, and the operator
must use the recovery screen. `OverloadExplained` excepts what does overload a
driver: a job created with an assignee, an override, and a transaction that commits
after its driver got another job or lowered the capacity. It does not say
that a driver is within the capacity, which a driver may also lower below the jobs
already taken. `SecondIntentExplained` does not say that only one
intent can be paid. ContiPay and EcoCash report an intermediate status as a failure, the
intent is marked failed, a second one is made, and the customer may still pay the first:
`BookedOnce` then books each of the two once, and in `CommerceCheckout` the second
payment is held. It speaks of `create_customer_*_intent`, which `PaymentEdge` models; at
the register `create_pos_*_intent` has a further way to a second intent (violation 2). `RepeatedForReason` allows the copies that
follow from lost answers and from the SMS fallback. The comment of `enqueueFifo`
("Soft FIFO: leave unassigned") describes the queue, yet the function it calls
assigns a driver at once when one is eligible; `EnqueueFifo` models the code.

### The violations

1. `late_charge`. `settle_commerce_payment` puts an expired or cancelled order
   back to `allocation_pending` when its money arrives. While the cart has another
   live order, `commerce_orders_one_live_cart_uidx` refuses that update and the
   settlement is rolled back with its payment entry and exception row, again at
   each redelivery. The exceptions table says "Never silently discard a provider
   settlement." The run `orders` shows that the property holds when a cart has
   only one order.
2. `stale_failure`. A failure report changes the order whichever intent it is
   waiting for. A second, different failure payload of an old intent sets the
   order to `payment_failed` while a new intent is pending, and
   `settle_commerce_manual_payment`, which "Rejects expired, already-settled, or
   provider-processing orders", accepts cash. The run has one provider and a
   pick-up cart, so that this is the only way. There is a second one, which an
   attempt to prove the property found: a dispatch cart is sold on account, an
   intent is created and a delivery note is submitted.
   `sync_delivery_reservations` then sets the order to `partially_fulfilled` or
   `fulfilled` (20260905104822 line 383) although the intent is pending, and
   `create_pos_*_intent`, which looks at `payment_processing`, settled and expired
   orders only (20260908120000 lines 904-912), creates an intent at another
   provider; a failure of the first one lets cash be taken while the second is
   pending. `orders` (one payload per outcome, a pick-up cart, two providers) and
   the theorem `StaffWaitForProviders` say when the property holds.
3. `pos_race`. `prepare_pos_commerce_checkout` compares availability without the
   stock row's lock, which contradicts the table's comment "Stock protection for
   pending and paid-dispatch commerce orders".

A late allocation has the same effect as 3: `finalize_commerce_order` compares
nothing with stock and tests the deadline with the transaction's old `now()`, so a
dispatch order's settlement that waited for a lock allocates units others have
reserved since. `StockReservation` has that step (`StartFinalize`,
`FinalizeDispatch` for a reservation in `Stale`), and the theorem
`StockNeverOverReserved` excludes it by `RacesConfined`. `IssueSparesOthers`
bounds the damage of all of them: units are promised twice, but goods never leave
that another order's reservation still covers; the second order waits instead.

## 4. Fairness

`FairSpec` assumes weak fairness of `Lapse` (time passes), of `Sweep` (pg_cron
runs the function every two minutes, 20260905105502 lines 52-66; it skips rows
that are locked, which are not locked for ever), and of `PaidWebhook` for each
intent that was charged (the webhooks answer HTTP 400 when the function raises,
so the provider's callback stays unacknowledged and is sent again). The last is an
assumption about the providers. Nothing is assumed of customers, staff or repair.

The other modules:

* `PosPayment`, `Fairness`: the 3 s interval and the expiry timer fire, what they read
  is answered (or fails) and the code after it runs, and time passes. Any other
  request may hang for ever; nothing is assumed of the operator, the providers or the
  sweep.
* `PaymentEdge`, `EdgeFairness`: a callback is repeated until it is recorded (the
  functions answer 400 or 500 otherwise), and an invoked function goes on to
  `mark_*_settled` unless it dies, of which there are finitely many. Nothing is
  assumed of customers or of the providers' decisions.
* `MessageOutbox`, `OutboxFairness`: strong fairness of the starts, because a worker
  slot that is busy when cron calls is free at a later call; weak fairness of an
  invocation's steps and of the lease's 15 minutes. Faults are bounded by
  `MaxTrouble`, which is the assumption that gateways recover.
* `DeliveryDispatch`, `DispatchFairSpec`: a cycle takes its next step (an offer has a
  timeout, a workflow is durable) and an open transaction commits.
* `CustomerSignup` has safety properties only: nothing obliges a person to go on.

## 5. What is proved

`StockReservationProofs` (any finite set of reservations, any quantities):

* `ReservationsConsistent`: `Spec => [](TypeOK /\ ReservationFollowsInvoice)`, all
  races included (`TypeOK` is the type invariant of this module). The inductive
  invariant `Consistent` adds `Shape`: nothing is consumed beyond what is reserved,
  and which reservations a transaction in flight can belong to. Types alone are not inductive, because the bounds of
  `rcons` and `shipped` need the agreement of the two.
* `StockNeverOverReserved`: `Spec => []NoOverReservation` under the assumption
  `RacesConfined` (transactions on counter and dispatch orders do not act on old
  checks). The inductive invariant adds `Consistent`, which gives what an allocation
  holds before and after a delivery. The sum over the reservations is the cardinality of a set of (reservation, unit) pairs, so
  that no induction over data is needed: the lemmas say how it changes when one
  reservation's holding changes. The run `pos_race` shows
  that the assumption cannot be dropped.
* `IssuesSpareOthers`: the action property `IssueSparesOthers`, with every race. An
  issue leaves at least what the protection of the code counts (`OwnUnits`,
  `ShareInSum`: an order's own units are a part of the sum that the code subtracts).

`CartSale` (any orders and carts):

* `SaleKept`: `Spec => []SaleInv`, where `SaleInv` is `OneLiveOrder`, `OneInvoice`,
  `PaidOrderKept` and the types, and `SaleFinal`: `Spec => SaleIsFinal`. They are what
  both refinements below inherit.

`CommerceCheckoutProofs` (any finite sets of orders and payments, any carts,
quantities and providers):

* `CheckoutImplementsStock`: `Spec => StockImplemented`, the refinement. Each
  action is a step of `StockReservation` or leaves stock alone; it needs that a
  cart's quantity is a legal one (`NeedStep`).
* `CheckoutStockSafe`: hence no over-reservation and consistent deliveries, by the
  theorems of `StockReservationProofs` (no races remain at this level).
* `TypeCorrect`.
* `CheckoutImplementsSale`: `Spec => SaleImplemented`, the other refinement: each
  action is a step of `CartSale` or leaves the cart's orders alone. It rests on the
  invariants `Ledger` and `Sales` below: an order that is settled or invoiced is where
  `CartSale` expects it, and a late settlement revives an order only where the index
  lets it.
* `CheckoutSaleKept`: hence one live order and one invoice per cart, no settled
  order let go, invoices and settlements final, by the theorems of `CartSale`.
* `SettlementsAccounted`: from the inductive invariant `Ledger`, which adds to
  `SettlementAccounted` what the states of settled orders are (`SettledState`).
* `PaidOrdersProtected`: an action property, from the same invariant.
* `CartsInvoicedOnce`, `InvoicedOrdersServed`, `LocksHeldByLiveOrders`: together
  the inductive invariant `Sales`. None is inductive alone: that a cart is
  invoiced once depends on an invoiced order having consumed its reservation,
  and that on the lock's owner not having been released.
* `StoreCreditBacked`: `CreditBacked`. The balance is compared with the units of all
  payments held as credit, again the cardinality of a set of pairs: a settlement that
  cannot be applied adds a payment's units to both, repair takes a payment out of the
  set and its units out of the balance, spending lowers the balance only.
* `StaffWaitForProviders`: `ReportsConfined` implies
  `Spec => NoStaffPaymentWhilePending`. `ReportsConfined` says that a provider words
  a failure in one way, and that there are no dispatch carts or that all intents are
  at one provider; violation 2 (section 3) shows that neither part can
  be dropped. The invariant `PendingInOrder` says that an unpaid order waits for its
  pending intent: its state does not let staff take money and no other intent is
  pending.

The assumptions are those of `ReservationConstants` and `CheckoutConstants`
(finite sets, positive bounds, distinct NULLs), which TLC evaluates in every run.

`PaymentEdgeProofs` (any calls, providers and webhook invocations, any bounds):

* `EdgeSafe`: the type invariant, `SettledWasPaid`, `BookedOnce`,
  `PaynowFailsOnTerminal` and `SecondIntentExplained`, from the invariant `EdgeIInv`. The
  properties relate the database to the providers' present transactions, and an
  invocation acts on a callback that may be old. So `CallbacksTell` says what a
  callback still tells whenever it is handled: the transaction was at least that far,
  and a transaction that was paid does not become unpaid. `CallsInOrder` ties an
  invocation to the intent it holds, `EntriesSettled` an entry to its settled intent.
  `SecondIntentExplained` needs to know why an intent is not pending when the next one
  is made: `IntentsExplained` says that a failed one has its recorded report and a
  settled one has paid the order, and `OnePending` that there is a single pending row,
  whoever asks.

`MessageOutboxProofs` (any rows and links, any finite set of workers, any bounds):

* `OutboxInvariant` with `OutboxSafe` (the type invariant, `SentWasDelivered`,
  `RepeatedForReason`) and `SentStaysSent` (the action property `SentIsFinal`).
  `RepeatedForReason` bounds a counter, and what workers in flight may still add to it
  has to be in the invariant: `CopiesBudgeted` says that the copies delivered, less the
  reasons to repeat one, plus the workers that hold the row and may yet deliver are at
  most one, and none while the row can be claimed. `WorkersInOrder` ties a worker to
  the row it has claimed; `RendersLeft` reserves a link for each PDF being rendered.

`CustomerSignupProofs` (any invocations, any bounds):

* `SignupsVerified`: the type invariant, `PasswordMeansVerified`, `CompletedHasCustomer`.
  An invocation between two calls to Auth acts on the account it has read, which
  another may have deleted and replaced. `ReadsHold` says what it may count on as long
  as that account is the present one; `OpenHasPassword`: only the completed signup, which sets a
  password, takes the mark of a pending account off.

`DeliveryDispatchProofs` (any finite set of jobs, any drivers, capacities, attempts):

* `DispatchTypesOK` (the type invariant), and `OverloadsExplained`, `FinishedJobsFrozen`,
  `AcceptedJobsAssigned` and `DriversKeepJobs` (the action properties
  `OverloadExplained`, `FinishedJobFrozen`, `AcceptedIsAssigned`, `DriverKeepsJob`), all
  from `DispatchIInv`. Its parts: a transaction that has found room will still find it when
  it commits unless it is stale (`RoomAhead`), what the open transactions,
  cycles and the desk hold (`JobsInOrder`, `CyclesInOrder`, `DeskInOrder`), and that an
  open transaction on a job that already has a driver is a cycle's assignment
  (`AutoTakesFree`). A driver's open jobs are counted as a cardinality.

`PosPaymentProofs` (any operations, watches, parts, lost answers and bounds):

* `RegisterSafe`: `Spec => [](TypeOK /\ ReceiptIsPosted)`. The register acts on answers
  that may be old when they are read. `Tells` says of every pending answer that what it
  says of a posted sale is still true, and that a receipt is loaded only for a sale that
  is posted: no step takes an invoice back. `ServerOK`, `RegisterOK`, `CallsOK` and
  `LateOK` are the types with the bounds on captured values, which need that
  requests given up and executed later are as well formed as fresh ones.
* `RegisterImplementsSale`: `Spec => Sale!Spec`. Each function of the server moves one
  row, and prepare closes one and stages another (`RowMoves`, `RowMovesSale`); requests
  served late are included. `RegisterSaleKept`: hence the promises of `CartSale`
  hold at the tills, too. `CartSale` is not a property of the run, which has a single
  order and would show little of it.
* `PartsTakenOnce`: if `Lossy` has at most the answers the store recognises, then
  `Spec /\ []OneSession => []PartTakenOnce`. A part has one key until the register
  learns what became of it, so the invariant `PartInv` speaks of all keys ever used
  for a part (asked for by the register, under way, or recorded): at most one of them
  is not yet *spent*. A spent key was refused by a session that takes no parts any
  more, so it is recorded nowhere and will not be, although its request may still
  be under way. That is what a refused key has to promise when the register
  drops it, and it fails if the request is also for another order. `OneSession` says
  that it is not: the requests under way for one part are for one order,
  whose cart has not gone on to another order.
* `OneOrderPartsTakenOnce`: with one order `OneSession` holds by itself (`OneOrder`),
  so the property holds unconditionally for the instance of the run with any
  numbers of parts, keys, watches and lost answers.

The assumptions are those on the constants of each module (`EdgeConstants`,
`OutboxConstants`, `SignupConstants`, `DispatchConstants`, `PosPaymentConstants`): natural
bounds, finiteness where something is counted, NULLs that are no members. TLC has
checked each of the inductive invariants as an invariant of the run of its module
before it was proved.

What the proofs changed. In `PosPayment`, `part` used to be the same for the first
share of two sales, with which `PartTakenOnce` is false in an instance with two sales
(two sales are two parts); now it counts the parts the operator takes. The attempt at
`NoStaffPaymentWhilePending` found the second way of violation 2. The attempt at the
refinement of `CartSale` found that the order rows of `PosPayment` were too simple:
prepare, cancellation and the session's functions are now translated with their
guards, the unique index and the orders they bring back to life. With them
`PartTakenOnce` turned out to need `OneSession` (section 3).

Only model-checked:

* the liveness properties `CycleEnds`, `PaidIntentSettles`, `RowEnds`,
  `AbandonedCartFreed`, `ChargeRecorded` and `DoneOrderLeaves`: liveness under fairness
  is outside the prover's reach. (All safety properties of the passing runs are
  stated by a theorem.)

## 6. Mutations

Each property of a passing run has a mutation of the modelled code that breaks
it; the mutated operators stand, with a comment, before the definition they
replace (for example `CanIssueUnprotected` before `CanIssue`).

## 7. Plan

1. `StockReservation`, `CommerceCheckout`, their runs and proofs: done.
2. `PosPayment`, `PaymentEdge`, `MessageOutbox`, `CustomerSignup`,
   `DeliveryDispatch` and their runs: done.
3. Proofs of the safety properties of all modules, and `CartSale` with its two
   refinements: done.
4. `SplitPayment`, the server's side: store-credit holds, provider and card legs,
   late legs, refunds (20260908143000 - 143200), composed with the order's state.
   Properties: captured money is allocated, refunded or held; holds are never spent;
   a late success is not lost.
5. `CardTerminal`: purchase, unknown outcome, reversal, result evidence
   (20260908135402, 20260908143400); then cash on delivery.
6. Fulfilment holds in `StockReservation` (20261007210323), and the missing stock
   row of `_adjust_stock_level`.
7. `OfflineSync` (the offline sale queue of the Android app and its replay),
   `Payroll` (schedules that run once per period), `ScheduledOutreach`.

## 8. Not modelled

Row-level security and roles, journals and accounting periods, prices and
currencies, credit limits, returns, HR and payroll, the parts catalog and its
pipeline, document layout, analytics, device bridges, the WhatsApp conversation
service, the storefront's cart and the screens of the clients other than the
register's payment dialog. Lock acquisition inside a transaction is not modelled,
hence neither are deadlocks that PostgreSQL resolves by aborting a transaction.

Most of the repository's TypeScript is not state that can be checked: of about
106,000 lines, 17,700 are types generated from the database
(`packages/supabase-client/src/database.types.ts`) and most of the rest are
screens, queries that list and format rows, and preview data. The rules of the
business are in SQL, which is what the models of the order core translate; of the
TypeScript they translate the functions in which awaits, retries, timers and
remote calls meet. The share of the TypeScript that the map names is therefore
small, and modelling screens would not add a property.
