----------------------------- MODULE PaymentEdge -----------------------------
(***************************************************************************)
(* The payment edge functions between the clients, the three payment       *)
(* providers and the database, for the payments of one commerce order.     *)
(*                                                                         *)
(* paynow-, contipay- and ecocash-initiate create the order's payment      *)
(* intent in the database (or find the one that is pending) and ask the    *)
(* provider for a transaction; the customer pays it at the provider, and   *)
(* the provider calls the *-webhook function, which classifies the status  *)
(* and calls mark_*_settled.  Calls of one order overlap, any remote call  *)
(* may fail before or after it took effect, and callbacks come late,       *)
(* repeatedly and in any order until one of them is answered with 200.     *)
(*                                                                         *)
(* The functions are configured with the providers' secrets: a function    *)
(* that refuses (401, 400, 503) changes nothing and is not a step, and the *)
(* local stub mode is left out.  What a settlement does to the order       *)
(* (invoice, stock, exceptions) is CommerceCheckout; here the order only   *)
(* has the intent it was paid with.                                        *)
(***************************************************************************)
EXTENDS Naturals, FiniteSets

CONSTANTS
    Provider,   \* subset of {"paynow", "contipay", "ecocash"}
    Call,       \* calls of the initiate functions; a new intent and a new
                \* transaction carry the name of the call that made them
    Hook,       \* invocations of the webhook functions that may overlap
    NoCall,
    MaxSent,    \* bound: callbacks, so status changes at the providers
    MaxFaults   \* bound: remote calls that fail, callbacks repeated without need

ASSUME EdgeConstants ==
    /\ Provider \subseteq {"paynow", "contipay", "ecocash"} /\ NoCall \notin Call
    /\ {MaxSent, MaxFaults} \subseteq Nat

VARIABLES
    call,       \* the initiate invocations: progress, provider, intent in hand
    istatus,    \* status of the payment intents
    txn,        \* the providers' transactions
    sent,       \* callbacks the providers have sent
    hook,       \* the webhook invocations
    seen,       \* *_webhook_events: payloads already recorded
    entries,    \* payment entries
    paidBy,     \* the intent that settled the order
    faults

edgeVars == <<call, istatus, txn, sent, hook, seen, entries, paidBy, faults>>

TxnState == {"none", "hidden", "created", "paid", "delivered", "cancelled", "refunded"}
Status   == {"sent", "paid", "delivered", "cancelled", "refunded"}
Callback == [txn : Call, status : Status]

EdgeTypeOK ==
    /\ call \in [Call -> [pc : {"idle", "push", "done"},
                          provider : Provider \cup {"none"},
                          intent : Call \cup {NoCall}]]
    /\ istatus \in [Call -> {"absent", "pending", "failed", "settled"}]
    /\ txn \in [Call -> TxnState]
    /\ sent \subseteq Callback
    /\ \A h \in Hook : hook[h].pc = "settle" => hook[h].msg \in sent /\ hook[h].status \in Status
    /\ seen \subseteq sent
    /\ entries \subseteq [intent : Call, txn : Call, status : Status]
    /\ paidBy \in Call \cup {NoCall}
    /\ faults \in 0 .. MaxFaults

NoMsg == [txn |-> NoCall, status |-> "none"]
Idle  == [pc |-> "idle", msg |-> NoMsg, status |-> "none"]

EdgeInit ==
    /\ call = [c \in Call |-> [pc |-> "idle", provider |-> "none", intent |-> NoCall]]
    /\ istatus = [c \in Call |-> "absent"]
    /\ txn = [c \in Call |-> "none"]
    /\ sent = {} /\ seen = {} /\ entries = {}
    /\ hook = [h \in Hook |-> Idle]
    /\ paidBy = NoCall
    /\ faults = 0

IntentOf(c)   == call[c].intent
ProviderOf(i) == call[i].provider

----------------------------------------------------------------------------
\* The initiate functions.

\* Mutation: only the rows of the requested provider are looked at.
ActiveIntentsOwn(p) == {i \in Call : istatus[i] = "pending" /\ ProviderOf(i) = p}

\* active_commerce_payment_intent: the order's pending intents.
ActiveIntents(p) == {i \in Call : istatus[i] = "pending"}

\* create_customer_*_intent: refused once the order is paid and while another
\* provider's intent is pending; a pending intent of the provider is returned
\* as it is, otherwise a new one is made.
CreateIntent(c, p) ==
    /\ call[c].pc = "idle" /\ paidBy = NoCall
    /\ \A i \in ActiveIntents(p) : ProviderOf(i) = p
    /\ \E i \in IF ActiveIntents(p) = {} THEN {c} ELSE ActiveIntents(p) :
          /\ call' = [call EXCEPT ![c] = [pc |-> "push", provider |-> p, intent |-> i]]
          /\ istatus' = [istatus EXCEPT ![i] = "pending"]
    /\ UNCHANGED <<txn, sent, hook, seen, entries, paidBy, faults>>

\* The three functions up to the intent.
PaynowCreate(c)   == CreateIntent(c, "paynow")
ContipayCreate(c) == CreateIntent(c, "contipay")
EcocashCreate(c)  == CreateIntent(c, "ecocash")

\* The rest of an initiate function: the provider makes transaction c (left
\* in state s) or not, and the function answers the client.
Pushed(c, s) ==
    /\ call' = [call EXCEPT ![c].pc = "done"]
    /\ txn' = [txn EXCEPT ![c] = s]
    /\ UNCHANGED <<istatus, hook, seen, entries, paidBy>>

\* A refusal after the intent exists: an unreadable intent, a missing
\* return_url or phone, a network error, an error answer.  The intent stays
\* pending and the client gets an error.
PushRefused(c) ==
    /\ call[c].pc = "push" /\ faults < MaxFaults /\ faults' = faults + 1
    /\ Pushed(c, "none") /\ UNCHANGED sent

\* initiatePaynowTransaction: the hosted page of the transaction is known to
\* the customer only if the answer arrives whole (status, hash, browserurl).
InitiatePaynowTransaction(c) ==
    /\ call[c].pc = "push" /\ call[c].provider = "paynow"
    /\ \/ Pushed(c, "created") /\ UNCHANGED faults
       \/ Pushed(c, "hidden") /\ faults < MaxFaults /\ faults' = faults + 1
    /\ sent' = sent \cup {[txn |-> c, status |-> "sent"]}

\* initiateContipayRedirect: the same, for the page at the checkout URL.
InitiateContipayRedirect(c) ==
    /\ call[c].pc = "push" /\ call[c].provider = "contipay"
    /\ \/ Pushed(c, "created") /\ UNCHANGED faults
       \/ Pushed(c, "hidden") /\ faults < MaxFaults /\ faults' = faults + 1
    /\ sent' = sent \cup {[txn |-> c, status |-> "sent"]}

\* initiateEcocashC2b: the PIN prompt reaches the handset whether or not the
\* answer reaches the function.  The update of provider_ref that follows is
\* made with the caller's rights, which do not include it, and its error is
\* not looked at.
InitiateEcocashC2b(c) ==
    /\ call[c].pc = "push" /\ call[c].provider = "ecocash"
    /\ Pushed(c, "created")
    /\ faults' \in {faults, faults + 1} /\ faults' <= MaxFaults
    /\ sent' = sent \cup {[txn |-> c, status |-> "sent"]}

----------------------------------------------------------------------------
\* The providers (external): a transaction is paid or given up, and a paid
\* one delivered or refunded; each change is called back.

TxnMoves(c, from, to) ==
    /\ txn[c] \in from /\ Cardinality(sent) < MaxSent
    /\ txn' = [txn EXCEPT ![c] = to]
    /\ sent' = sent \cup {[txn |-> c, status |-> to]}
    /\ UNCHANGED <<call, istatus, hook, seen, entries, paidBy, faults>>

CustomerPays(c)     == TxnMoves(c, {"created"}, "paid")
ProviderCancels(c)  == TxnMoves(c, {"created", "hidden"}, "cancelled")
ProviderDelivers(c) == call[c].provider = "paynow" /\ TxnMoves(c, {"paid"}, "delivered")
ProviderRefunds(c)  == TxnMoves(c, {"paid", "delivered"}, "refunded")

----------------------------------------------------------------------------
\* The webhook functions.

\* isPaynowSuccessStatus, isPaynowFailureStatus.
PaynowSuccess(s) == s \in {"paid", "delivered"}
PaynowFailure(s) == s \in {"cancelled", "refunded"}

\* Mutation: whatever is not a failure is a success.
ContipaySuccessNotFailed(s) == s \notin {"cancelled", "refunded"}

\* contipay-webhook's allowlist, and isEcocashSuccessStatus.
ContipaySuccess(s) == s = "paid"
EcocashSuccess(s)  == s = "paid"

Success(p, s) == CASE p = "paynow"   -> PaynowSuccess(s)
                   [] p = "contipay" -> ContipaySuccess(s)
                   [] p = "ecocash"  -> EcocashSuccess(s)

StatusNow(t) == IF txn[t] \in {"created", "hidden"} THEN "sent" ELSE txn[t]

Again(m) == IF m \in seen THEN 1 ELSE 0

\* The callback m is delivered: again and again until it is recorded, and
\* then once more if the 200 is lost or the provider repeats itself.
Delivered(h, m) ==
    /\ hook[h].pc = "idle" /\ m \in sent
    /\ faults + Again(m) <= MaxFaults

\* The handler goes on to call mark_*_settled with status s.
Settling(h, m, s) ==
    /\ hook' = [hook EXCEPT ![h] = [pc |-> "settle", msg |-> m, status |-> s]]
    /\ UNCHANGED <<call, istatus, txn, sent, seen, entries, paidBy>>

\* Mutation: a status that is not terminal is passed on as a failure.
PaynowWebhookTwoWay(h, m) ==
    /\ ProviderOf(m.txn) = "paynow" /\ Delivered(h, m)
    /\ Settling(h, m, StatusNow(m.txn)) /\ faults' = faults + Again(m)

\* paynow-webhook: the status polled from Paynow replaces the one posted, if
\* the poll works; a status that is not terminal is acknowledged and ignored.
PaynowWebhook(h, m) ==
    /\ ProviderOf(m.txn) = "paynow" /\ Delivered(h, m)
    /\ \E s \in {StatusNow(m.txn), m.status} :
          /\ \/ s = StatusNow(m.txn) /\ faults' = faults + Again(m)
             \/ s = m.status /\ faults' = faults + Again(m) + 1 /\ faults' <= MaxFaults
          /\ IF PaynowSuccess(s) \/ PaynowFailure(s)
             THEN Settling(h, m, s)
             ELSE UNCHANGED <<call, istatus, txn, sent, hook, seen, entries, paidBy>>

\* contipay-webhook and ecocash-webhook: every status that is not a success
\* is passed on as a failure.
ContipayWebhook(h, m) ==
    /\ ProviderOf(m.txn) = "contipay" /\ Delivered(h, m)
    /\ Settling(h, m, m.status) /\ faults' = faults + Again(m)

EcocashWebhook(h, m) ==
    /\ ProviderOf(m.txn) = "ecocash" /\ Delivered(h, m)
    /\ Settling(h, m, m.status) /\ faults' = faults + Again(m)

\* Mutations: a settled intent is settled again; an intent that was marked
\* failed is not settled any more; the intent takes the provider's status.
RecordAgain(i, m, ok) ==
    IF ~ok THEN istatus' = [istatus EXCEPT ![i] = "failed"] /\ UNCHANGED <<entries, paidBy>>
    ELSE /\ istatus' = [istatus EXCEPT ![i] = "settled"]
         /\ entries' = entries \cup {[intent |-> i, txn |-> m.txn, status |-> m.status]}
         /\ paidBy' = IF paidBy = NoCall THEN i ELSE paidBy

RecordPendingOnly(i, m, ok) ==
    IF istatus[i] # "pending" THEN UNCHANGED <<istatus, entries, paidBy>>
    ELSE RecordAgain(i, m, ok)

RecordRaw(i, m, ok) ==
    IF istatus[i] = "settled" \/ ok THEN RecordAgain(i, m, ok)
    ELSE istatus' = [istatus EXCEPT ![i] = m.status] /\ UNCHANGED <<entries, paidBy>>

\* mark_*_settled on a payload that is new: acknowledged for a settled
\* intent, otherwise the intent fails or is settled with a payment entry.
Record(i, m, ok) ==
    IF istatus[i] = "settled" THEN UNCHANGED <<istatus, entries, paidBy>>
    ELSE IF ~ok
    THEN istatus' = [istatus EXCEPT ![i] = "failed"] /\ UNCHANGED <<entries, paidBy>>
    ELSE /\ istatus' = [istatus EXCEPT ![i] = "settled"]
         /\ entries' = entries \cup {[intent |-> i, txn |-> m.txn, status |-> m.status]}
         /\ paidBy' = IF paidBy = NoCall THEN i ELSE paidBy

\* mark_*_settled.  The payload's hash is that of the posted body: a body
\* received before changes nothing.  One transaction, the intent locked.
MarkSettled(h) ==
    LET m == hook[h].msg
        i == IntentOf(m.txn)
    IN  /\ hook[h].pc = "settle"
        /\ hook' = [hook EXCEPT ![h] = Idle]
        /\ seen' = seen \cup {m}
        /\ IF m \in seen THEN UNCHANGED <<istatus, entries, paidBy>>
           ELSE Record(i, m, Success(ProviderOf(m.txn), hook[h].status))
        /\ UNCHANGED <<call, txn, sent, faults>>

\* The function dies, or the database call fails: no 200, nothing recorded.
HookDies(h) ==
    /\ hook[h].pc = "settle" /\ faults < MaxFaults /\ faults' = faults + 1
    /\ hook' = [hook EXCEPT ![h] = Idle]
    /\ UNCHANGED <<call, istatus, txn, sent, seen, entries, paidBy>>

Webhook(h, m) == PaynowWebhook(h, m) \/ ContipayWebhook(h, m) \/ EcocashWebhook(h, m)

EdgeNext ==
    \/ \E c \in Call :
          \/ "paynow" \in Provider /\ PaynowCreate(c)
          \/ "contipay" \in Provider /\ ContipayCreate(c)
          \/ "ecocash" \in Provider /\ EcocashCreate(c)
          \/ InitiatePaynowTransaction(c)
          \/ InitiateContipayRedirect(c)
          \/ InitiateEcocashC2b(c)
          \/ PushRefused(c)
          \/ CustomerPays(c)
          \/ ProviderCancels(c)
          \/ ProviderDelivers(c)
          \/ ProviderRefunds(c)
    \/ \E h \in Hook :
          \/ \E m \in sent : Webhook(h, m)
          \/ MarkSettled(h)
          \/ HookDies(h)

EdgeSpec == EdgeInit /\ [][EdgeNext]_edgeVars

\* A provider repeats a callback until it is acknowledged, and an invoked
\* function runs to its end.
EdgeFairness ==
    /\ \A c \in Call, s \in Status :
          WF_edgeVars(\E h \in Hook : LET m == [txn |-> c, status |-> s] IN
                         m \in sent \ seen /\ Webhook(h, m))
    /\ \A h \in Hook : WF_edgeVars(MarkSettled(h))

EdgeFairSpec == EdgeSpec /\ EdgeFairness

----------------------------------------------------------------------------
\* Properties.

TookMoney == {"paid", "delivered", "refunded"}

\* An intent is settled only when the provider took the customer's money for
\* one of its transactions: intermediate, unknown and failure statuses,
\* stale polls and replays never settle one (the webhooks' allowlists).
SettledWasPaid ==
    \A i \in Call : istatus[i] = "settled" =>
        \E t \in Call : IntentOf(t) = i /\ txn[t] \in TookMoney

\* Duplicate, racing and differently worded callbacks of one intent post one
\* payment entry, and an order is paid with an intent that has one.
BookedOnce ==
    /\ \A e, f \in entries : e.intent = f.intent => e = f
    /\ paidBy # NoCall => \E e \in entries : e.intent = paidBy

\* A Paynow intent is marked failed only when a transaction of it really
\* ended: Created and Sent are acknowledged and ignored.
PaynowFailsOnTerminal ==
    \A i \in Call : istatus[i] = "failed" /\ ProviderOf(i) = "paynow" =>
        \E t \in Call : IntentOf(t) = i /\ txn[t] \in {"cancelled", "refunded"}

\* A provider's report said that a payment did not succeed; for Paynow, that
\* the transaction has ended.
NotPaid(m) ==
    IF ProviderOf(m.txn) = "paynow" THEN txn[m.txn] \in {"cancelled", "refunded"}
    ELSE ~Success(ProviderOf(m.txn), m.status)

\* An order gets a second payment intent, which the customer may pay besides
\* the first, only after a recorded report that a payment of one of the two did
\* not succeed: overlapping initiations, refused pushes, lost answers and
\* webhooks that die never do it.  (ContiPay's and EcoCash's report may be
\* "sent", and then the first transaction can still be paid.)
SecondIntentExplained ==
    \A i, k \in Call :
        (i # k /\ istatus[i] # "absent" /\ istatus[k] # "absent")
            => \E m \in seen : IntentOf(m.txn) \in {i, k} /\ NotPaid(m)

\* A payment that stands at the provider reaches the order: whatever failed
\* first, the intent of a paid transaction is settled in the end.
PaidIntentSettles ==
    \A t \in Call : txn[t] \in {"paid", "delivered"} ~>
        (txn[t] = "refunded" \/ \E i \in Call : i = IntentOf(t) /\ istatus[i] = "settled")
=============================================================================
