-------------------------- MODULE PaymentEdgeProofs --------------------------
(***************************************************************************)
(* Proofs about PaymentEdge, for any subset of the three providers, any    *)
(* number of overlapping initiations and webhook invocations, and any      *)
(* number of callbacks and faults.                                         *)
(***************************************************************************)
EXTENDS PaymentEdge, TLAPS

HookType ==
    hook \in [Hook -> [pc : {"idle", "settle"}, msg : Callback \cup {NoMsg}, status : Status \cup {"none"}]]

\* An initiation that has begun holds an intent of its own provider; only then
\* is there a transaction, and only such a call makes an intent.
CallsInOrder ==
    \A c \in Call :
        /\ call[c].pc = "idle" => istatus[c] = "absent"
        /\ call[c].pc # "done" => txn[c] = "none"
        /\ call[c].pc # "idle" => /\ call[c].intent \in Call /\ call[c].provider \in Provider
                                  /\ call[call[c].intent].provider = call[c].provider
                                  /\ call[call[c].intent].pc # "idle"

\* Transaction t is, or was, in the state that status s tells of.
Told(t, s) ==
    /\ txn[t] # "none"
    /\ s \in {"paid", "delivered"} => txn[t] \in TookMoney
    /\ s \in {"cancelled", "refunded"} => txn[t] = s

\* Callbacks, however late, tell of what happened at the provider; a Paynow
\* status that is passed on is terminal, another one is the one posted.
CallbacksTell ==
    /\ \A m \in sent : Told(m.txn, m.status)
    /\ \A h \in Hook : hook[h].pc = "settle" =>
          /\ Told(hook[h].msg.txn, hook[h].status)
          /\ ProviderOf(hook[h].msg.txn) = "paynow" => hook[h].status # "sent"
          /\ ProviderOf(hook[h].msg.txn) # "paynow" => hook[h].status = hook[h].msg.status

\* Money is booked on settled intents only.
EntriesSettled == \A e \in entries : istatus[e.intent] = "settled"

OnePending == \A i, j \in Call : istatus[i] = "pending" /\ istatus[j] = "pending" => i = j

\* A report that a payment of the intent did not succeed is recorded.
Reported(i) == \E m \in seen : IntentOf(m.txn) = i /\ NotPaid(m)

\* What a new intent goes by: every intent that is not pending was reported
\* failed or has paid the order.
IntentsExplained ==
    /\ \A c \in Call : call[c].pc # "idle" => istatus[call[c].intent] # "absent"
    /\ \A i \in Call : /\ istatus[i] = "failed" => Reported(i)
                       /\ istatus[i] = "settled" => paidBy # NoCall
    /\ \A i, k \in Call : (i # k /\ istatus[i] # "absent" /\ istatus[k] # "absent")
                             => Reported(i) \/ Reported(k)

EdgeIInv ==
    /\ EdgeTypeOK /\ SettledWasPaid /\ BookedOnce /\ PaynowFailsOnTerminal
    /\ HookType /\ CallsInOrder /\ CallbacksTell /\ EntriesSettled /\ OnePending
    /\ IntentsExplained

LEMMA EdgeInitIInv == EdgeInit => EdgeIInv
<1> SUFFICES ASSUME EdgeInit PROVE EdgeIInv
  OBVIOUS
<1> USE DEF EdgeInit
<1>1. EdgeTypeOK
  BY EdgeConstants DEF EdgeTypeOK, TxnState, Idle
<1>2. HookType
  BY DEF HookType, Idle
<1>3. CallsInOrder /\ CallbacksTell
  BY DEF CallsInOrder, CallbacksTell, Idle
<1>4. SettledWasPaid /\ BookedOnce /\ PaynowFailsOnTerminal /\ EntriesSettled /\ OnePending
  BY DEF SettledWasPaid, BookedOnce, PaynowFailsOnTerminal, EntriesSettled, OnePending
<1>5. IntentsExplained
  BY DEF IntentsExplained
<1> QED BY <1>1, <1>2, <1>3, <1>4, <1>5 DEF EdgeIInv

\* Recorded reports stay: a transaction's intent and provider do not change,
\* and a transaction that has ended does not come back.
LEMMA ReportsLast ==
    ASSUME seen \subseteq seen',
           \A m \in seen : call'[m.txn].intent = call[m.txn].intent
                             /\ call'[m.txn].provider = call[m.txn].provider,
           \A m \in seen : txn[m.txn] \in {"cancelled", "refunded"}
                                => txn'[m.txn] \in {"cancelled", "refunded"},
           NEW i, Reported(i)
    PROVE  Reported(i)'
<1>1. PICK m \in seen : IntentOf(m.txn) = i /\ NotPaid(m)
  BY DEF Reported
<1>2. IntentOf(m.txn)' = i /\ ProviderOf(m.txn)' = ProviderOf(m.txn)
  BY <1>1 DEF IntentOf, ProviderOf
<1>3. NotPaid(m)'
  BY <1>1, <1>2 DEF NotPaid, Success, PaynowSuccess, ContipaySuccess, EcocashSuccess
<1> QED BY <1>1, <1>2, <1>3 DEF Reported

\* A step that leaves the intents alone leaves them explained.
LEMMA IntentsKeep ==
    ASSUME EdgeIInv, UNCHANGED <<istatus, paidBy>>, seen \subseteq seen',
           \A c \in Call : call'[c].pc # "idle" => call[c].pc # "idle",
           \A c \in Call : call'[c].intent = call[c].intent /\ call'[c].provider = call[c].provider,
           \A c \in Call : txn[c] \in {"cancelled", "refunded"} => txn'[c] \in {"cancelled", "refunded"}
    PROVE  IntentsExplained'
<1>1. \A m \in seen : m.txn \in Call
  BY DEF EdgeIInv, EdgeTypeOK, Callback
<1>2. \A i \in Call : Reported(i) => Reported(i)'
  BY <1>1, ReportsLast
<1> QED BY <1>2 DEF EdgeIInv, IntentsExplained

\* An initiation takes the pending intent or makes its own, never a second.
LEMMA CreateIInv ==
    ASSUME EdgeIInv, NEW c \in Call, NEW p \in Provider, CreateIntent(c, p) PROVE EdgeIInv'
<1> USE DEF EdgeIInv
<1> DEFINE S == IF ActiveIntents(p) = {} THEN {c} ELSE ActiveIntents(p)
<1>1. PICK i \in S :
          /\ call' = [call EXCEPT ![c] = [pc |-> "push", provider |-> p, intent |-> i]]
          /\ istatus' = [istatus EXCEPT ![i] = "pending"]
  BY DEF CreateIntent
<1>2. /\ call[c].pc = "idle" /\ \A k \in ActiveIntents(p) : ProviderOf(k) = p
      /\ UNCHANGED <<txn, sent, hook, seen, entries, paidBy, faults>>
  BY DEF CreateIntent
<1>3. \/ i = c /\ \A k \in Call : istatus[k] # "pending"
      \/ i \in Call /\ istatus[i] = "pending" /\ call[i].provider = p
  BY <1>1, <1>2 DEF ActiveIntents, ProviderOf
<1>4. istatus[c] = "absent" /\ txn[c] = "none" /\ i \in Call
  BY <1>2, <1>3 DEF CallsInOrder
<1>5. /\ \A k \in Call \ {c} : call'[k] = call[k]
      /\ call'[c].pc = "push" /\ call'[c].provider = p /\ call'[c].intent = i
      /\ istatus'[i] = "pending" /\ \A k \in Call \ {i} : istatus'[k] = istatus[k]
  BY <1>1, <1>4 DEF EdgeTypeOK
<1>6. istatus[i] \in {"absent", "pending"} /\ (i # c => call[i].pc # "idle")
  BY <1>3, <1>4 DEF CallsInOrder
<1>7. EdgeTypeOK'
  BY <1>1, <1>2, <1>4 DEF EdgeTypeOK
<1>8. CallsInOrder'
  BY <1>2, <1>3, <1>4, <1>5, <1>6 DEF CallsInOrder
<1>9. HookType' /\ OnePending'
  BY <1>2, <1>3, <1>5 DEF HookType, OnePending
<1>10. \A t \in Call : txn[t] # "none" => t # c
  BY <1>4
<1>11. SettledWasPaid' /\ PaynowFailsOnTerminal'
  <2>1. SettledWasPaid'
    BY <1>2, <1>5, <1>10 DEF SettledWasPaid, IntentOf, TookMoney
  <2>2. PaynowFailsOnTerminal'
    BY <1>2, <1>4, <1>5, <1>6, <1>10 DEF PaynowFailsOnTerminal, IntentOf, ProviderOf
  <2> QED BY <2>1, <2>2
<1>12. BookedOnce' /\ EntriesSettled'
  BY <1>2, <1>5, <1>6 DEF BookedOnce, EntriesSettled, EdgeTypeOK
<1>13. CallbacksTell'
  BY <1>2, <1>4, <1>5 DEF CallbacksTell, Told, ProviderOf, HookType, EdgeTypeOK, Callback
<1>14. IntentsExplained'
  <2>1. \A m \in seen : m.txn \in Call \ {c}
    BY <1>4 DEF EdgeTypeOK, Callback, CallbacksTell, Told
  <2>2. \A k \in Call : Reported(k) => Reported(k)'
    BY <1>2, <1>5, <2>1, ReportsLast
  <2>3. paidBy = NoCall
    BY DEF CreateIntent
  <2>4. \A k \in Call \ {i} : istatus'[k] # "absent" => (i = c => Reported(k))
    <3> SUFFICES ASSUME NEW k \in Call \ {i}, istatus'[k] # "absent", i = c PROVE Reported(k)
      OBVIOUS
    <3>1. istatus[k] \in {"failed", "settled"}
      BY <1>3, <1>4, <1>5 DEF EdgeTypeOK
    <3> QED BY <2>3, <3>1 DEF IntentsExplained
  <2>5. \A k, l \in Call : (k # l /\ istatus'[k] # "absent" /\ istatus'[l] # "absent")
                               => Reported(k) \/ Reported(l)
    <3>1. CASE i = c
      BY <2>4, <3>1
    <3>2. CASE i # c
      BY <1>3, <1>5, <3>2 DEF IntentsExplained
    <3> QED BY <3>1, <3>2
  <2>6. \A k \in Call : call'[k].pc # "idle" => istatus'[call'[k].intent] # "absent"
    <3> SUFFICES ASSUME NEW k \in Call, call'[k].pc # "idle" PROVE istatus'[call'[k].intent] # "absent"
      OBVIOUS
    <3>1. CASE k = c
      BY <1>5, <3>1
    <3>2. CASE k # c
      BY <1>5, <3>2 DEF IntentsExplained, CallsInOrder
    <3> QED BY <3>1, <3>2
  <2>7. \A k \in Call : /\ istatus'[k] = "failed" => Reported(k)
                        /\ istatus'[k] # "settled"
    BY <1>5, <2>3 DEF IntentsExplained
  <2> QED BY <2>2, <2>5, <2>6, <2>7 DEF IntentsExplained
<1> QED BY <1>7, <1>8, <1>9, <1>11, <1>12, <1>13, <1>14

\* The provider makes the transaction of a call, or does not.
LEMMA PushIInv ==
    ASSUME EdgeIInv, NEW c \in Call, NEW s \in {"none", "hidden", "created"}, Pushed(c, s),
           call[c].pc = "push", faults' \in 0 .. MaxFaults,
           \/ UNCHANGED sent
           \/ s # "none" /\ sent' = sent \cup {[txn |-> c, status |-> "sent"]}
    PROVE  EdgeIInv'
<1> USE DEF EdgeIInv
<1>1. /\ call' = [call EXCEPT ![c].pc = "done"] /\ txn' = [txn EXCEPT ![c] = s]
      /\ UNCHANGED <<istatus, hook, seen, entries, paidBy>>
  BY DEF Pushed
<1>2. /\ \A k \in Call : call'[k].intent = call[k].intent /\ call'[k].provider = call[k].provider
      /\ \A k \in Call \ {c} : call'[k] = call[k] /\ txn'[k] = txn[k]
      /\ call'[c].pc = "done" /\ txn'[c] = s /\ txn[c] = "none"
  BY <1>1 DEF EdgeTypeOK, CallsInOrder
<1>3. EdgeTypeOK'
  BY <1>1 DEF EdgeTypeOK, TxnState, Callback, Status
<1>4. CallsInOrder'
  BY <1>1, <1>2 DEF CallsInOrder
<1>5. HookType' /\ OnePending' /\ BookedOnce' /\ EntriesSettled'
  BY <1>1 DEF HookType, OnePending, BookedOnce, EntriesSettled
<1>6. SettledWasPaid' /\ PaynowFailsOnTerminal'
  BY <1>1, <1>2 DEF SettledWasPaid, PaynowFailsOnTerminal, IntentOf, ProviderOf, TookMoney
<1>7. \A m \in sent' : Told(m.txn, m.status)'
  BY <1>2 DEF CallbacksTell, Told, EdgeTypeOK, Callback
<1>8. CallbacksTell'
  <2> SUFFICES ASSUME NEW h \in Hook, hook'[h].pc = "settle"
               PROVE  /\ Told(hook[h].msg.txn, hook[h].status)'
                      /\ ProviderOf(hook[h].msg.txn)' = "paynow" => hook'[h].status # "sent"
                      /\ ProviderOf(hook[h].msg.txn)' # "paynow" => hook'[h].status = hook'[h].msg.status
    BY <1>7 DEF CallbacksTell
  <2>1. hook[h].msg.txn \in Call /\ hook' = hook
    BY <1>1 DEF EdgeTypeOK, Callback
  <2> QED BY <1>2, <2>1 DEF CallbacksTell, Told, ProviderOf
<1>9. IntentsExplained'
  BY <1>1, <1>2, IntentsKeep
<1> QED BY <1>3, <1>4, <1>5, <1>6, <1>8, <1>9

\* A transaction moves on at the provider and is called back.
LEMMA MoveIInv ==
    ASSUME EdgeIInv, NEW c \in Call, NEW from, NEW to \in {"paid", "cancelled", "delivered", "refunded"},
           TxnMoves(c, from, to),
           \/ to \in {"paid", "cancelled"} /\ from \subseteq {"created", "hidden"}
           \/ to \in {"delivered", "refunded"} /\ from \subseteq {"paid", "delivered"}
    PROVE  EdgeIInv'
<1> USE DEF EdgeIInv
<1>1. /\ txn[c] \in from /\ txn' = [txn EXCEPT ![c] = to]
      /\ sent' = sent \cup {[txn |-> c, status |-> to]}
      /\ UNCHANGED <<call, istatus, hook, seen, entries, paidBy, faults>>
  BY DEF TxnMoves
<1>2. /\ txn'[c] = to /\ \A k \in Call \ {c} : txn'[k] = txn[k]
      /\ txn[c] \in TookMoney => to \in TookMoney
      /\ txn[c] \notin {"none", "cancelled", "refunded"}
  BY <1>1 DEF EdgeTypeOK, TookMoney
<1>3. EdgeTypeOK'
  BY <1>1 DEF EdgeTypeOK, TxnState, Callback, Status
<1>4. CallsInOrder'
  BY <1>1, <1>2 DEF CallsInOrder
<1>5. HookType' /\ OnePending' /\ BookedOnce' /\ EntriesSettled'
  BY <1>1 DEF HookType, OnePending, BookedOnce, EntriesSettled
<1>6. SettledWasPaid' /\ PaynowFailsOnTerminal'
  <2>1. SettledWasPaid'
    BY <1>1, <1>2 DEF SettledWasPaid, IntentOf
  <2>2. PaynowFailsOnTerminal'
    BY <1>1, <1>2 DEF PaynowFailsOnTerminal, IntentOf, ProviderOf
  <2> QED BY <2>1, <2>2
<1>7. \A t \in Call, s \in Status : Told(t, s) => Told(t, s)'
  BY <1>2 DEF Told, Status
<1>8. Told(c, to)'
  BY <1>2 DEF Told, TookMoney
<1>9. \A m \in sent' : Told(m.txn, m.status)'
  <2> TAKE m \in sent'
  <2>1. CASE m \in sent
    BY <1>7, <2>1 DEF CallbacksTell, EdgeTypeOK, Callback
  <2>2. CASE m = [txn |-> c, status |-> to]
    BY <1>8, <2>2
  <2> QED BY <1>1, <2>1, <2>2
<1>10. CallbacksTell'
  BY <1>1, <1>7, <1>9 DEF CallbacksTell, EdgeTypeOK, Callback, ProviderOf
<1>11. IntentsExplained'
  BY <1>1, <1>2, IntentsKeep
<1> QED BY <1>3, <1>4, <1>5, <1>6, <1>10, <1>11

\* Faults are counted up to the bound, whether or not a callback is new.
LEMMA AgainNat == \A m : Again(m) \in {0, 1}
BY DEF Again

\* What the provider says of a transaction when it is asked is true.
LEMMA NowTold ==
    ASSUME EdgeIInv, NEW m \in sent
    PROVE  Told(m.txn, StatusNow(m.txn)) /\ StatusNow(m.txn) \in Status
<1>1. m.txn \in Call /\ txn[m.txn] \in TxnState \ {"none"}
  BY DEF EdgeIInv, EdgeTypeOK, CallbacksTell, Told, Callback
<1> QED BY <1>1 DEF Told, StatusNow, TxnState, Status, TookMoney

\* A handler goes on with a status that the callback or the provider told.
LEMMA SettlingIInv ==
    ASSUME EdgeIInv, NEW h \in Hook, NEW m \in sent, NEW s \in Status, Settling(h, m, s),
           Told(m.txn, s), faults' \in 0 .. MaxFaults,
           IF ProviderOf(m.txn) = "paynow" THEN s # "sent" ELSE s = m.status
    PROVE  EdgeIInv'
<1> USE DEF EdgeIInv
<1>1. /\ hook' = [hook EXCEPT ![h] = [pc |-> "settle", msg |-> m, status |-> s]]
      /\ UNCHANGED <<call, istatus, txn, sent, seen, entries, paidBy>>
  BY DEF Settling
<1>2. m \in Callback
  BY DEF EdgeTypeOK
<1>3. HookType'
  BY <1>1, <1>2 DEF HookType
<1>4. hook'[h] = [pc |-> "settle", msg |-> m, status |-> s] /\ \A k \in Hook \ {h} : hook'[k] = hook[k]
  BY <1>1 DEF HookType
<1>5. EdgeTypeOK'
  BY <1>1, <1>4 DEF EdgeTypeOK
<1>6. CallbacksTell'
  BY <1>1, <1>4 DEF CallbacksTell, Told, ProviderOf
<1>7. IntentsExplained'
  BY <1>1, IntentsKeep
<1> QED
  BY <1>1, <1>3, <1>5, <1>6, <1>7
  DEF CallsInOrder, OnePending, BookedOnce, EntriesSettled, SettledWasPaid, PaynowFailsOnTerminal,
      IntentOf, ProviderOf

LEMMA WebhookIInv ==
    ASSUME EdgeIInv, NEW h \in Hook, NEW m \in sent, Webhook(h, m) PROVE EdgeIInv'
<1>1. m.status \in Status /\ Told(m.txn, m.status)
  BY DEF EdgeIInv, EdgeTypeOK, Callback, CallbacksTell
<1>2. StatusNow(m.txn) \in Status /\ Told(m.txn, StatusNow(m.txn))
  BY NowTold
<1>3. faults \in 0 .. MaxFaults /\ Again(m) \in {0, 1} /\ (Delivered(h, m) => faults + Again(m) <= MaxFaults)
  BY AgainNat DEF EdgeIInv, EdgeTypeOK, Delivered
<1>4. CASE PaynowWebhook(h, m)
  <2>1. PICK s \in {StatusNow(m.txn), m.status} :
          /\ \/ faults' = faults + Again(m)
             \/ faults' = faults + Again(m) + 1 /\ faults' <= MaxFaults
          /\ IF PaynowSuccess(s) \/ PaynowFailure(s)
             THEN Settling(h, m, s)
             ELSE UNCHANGED <<call, istatus, txn, sent, hook, seen, entries, paidBy>>
    BY <1>4 DEF PaynowWebhook
  <2>2. faults' \in 0 .. MaxFaults
    BY <1>3, <1>4, <2>1, EdgeConstants DEF PaynowWebhook
  <2>3. s \in Status /\ Told(m.txn, s)
    BY <1>1, <1>2, <2>1
  <2>4. CASE PaynowSuccess(s) \/ PaynowFailure(s)
    BY <1>4, <2>1, <2>2, <2>3, <2>4, SettlingIInv DEF PaynowWebhook, PaynowSuccess, PaynowFailure
  <2>5. CASE UNCHANGED <<call, istatus, txn, sent, hook, seen, entries, paidBy>>
    <3>1. IntentsExplained'
      BY <2>5, IntentsKeep
    <3> QED
      BY <2>2, <2>5, <3>1
      DEF EdgeIInv, EdgeTypeOK, HookType, CallbacksTell, Told, CallsInOrder, OnePending, BookedOnce,
          EntriesSettled, SettledWasPaid, PaynowFailsOnTerminal, IntentOf, ProviderOf
  <2> QED BY <2>1, <2>4, <2>5
<1>5. CASE ContipayWebhook(h, m)
  BY <1>1, <1>3, <1>5, EdgeConstants, SettlingIInv DEF ContipayWebhook
<1>6. CASE EcocashWebhook(h, m)
  BY <1>1, <1>3, <1>6, EdgeConstants, SettlingIInv DEF EcocashWebhook
<1> QED BY <1>4, <1>5, <1>6 DEF Webhook

\* A handler is done: what it held is gone, nothing else need change.
LEMMA HookDiesIInv ==
    ASSUME EdgeIInv, NEW h \in Hook, HookDies(h) PROVE EdgeIInv'
<1> USE DEF EdgeIInv
<1>1. /\ hook' = [hook EXCEPT ![h] = Idle] /\ faults < MaxFaults /\ faults' = faults + 1
      /\ UNCHANGED <<call, istatus, txn, sent, seen, entries, paidBy>>
  BY DEF HookDies
<1>2. HookType' /\ hook'[h].pc = "idle" /\ \A k \in Hook \ {h} : hook'[k] = hook[k]
  BY <1>1 DEF HookType, Idle
<1>3. EdgeTypeOK'
  BY <1>1, <1>2, EdgeConstants DEF EdgeTypeOK
<1>4. CallbacksTell'
  BY <1>1, <1>2 DEF CallbacksTell, Told, ProviderOf
<1>5. IntentsExplained'
  BY <1>1, IntentsKeep
<1> QED
  BY <1>1, <1>2, <1>3, <1>4, <1>5
  DEF CallsInOrder, OnePending, BookedOnce, EntriesSettled, SettledWasPaid, PaynowFailsOnTerminal,
      IntentOf, ProviderOf

\* Only a status that says the money was taken is a success.
LEMMA SuccessPaid ==
    ASSUME NEW p \in Provider, NEW s \in Status, Success(p, s) PROVE s \in {"paid", "delivered"}
BY EdgeConstants DEF Success, PaynowSuccess, ContipaySuccess, EcocashSuccess

\* A Paynow status that is terminal and no success is a failure.
LEMMA PaynowTerminal ==
    ASSUME NEW s \in Status, s # "sent", ~Success("paynow", s) PROVE s \in {"cancelled", "refunded"}
BY DEF Success, PaynowSuccess, Status

\* The database function: the intent is settled by a transaction that was
\* paid, once, or fails by one that ended.
LEMMA MarkIInv ==
    ASSUME EdgeIInv, NEW h \in Hook, MarkSettled(h) PROVE EdgeIInv'
<1> USE DEF EdgeIInv
<1> DEFINE m == hook[h].msg
           t == m.txn
           i == IntentOf(t)
           s == hook[h].status
           ok == Success(ProviderOf(t), s)
<1>1. /\ hook[h].pc = "settle" /\ hook' = [hook EXCEPT ![h] = Idle] /\ seen' = seen \cup {m}
      /\ UNCHANGED <<call, txn, sent, faults>>
  BY DEF MarkSettled
<1>2. UNCHANGED <<istatus, entries, paidBy>> \/ Record(i, m, ok)
  BY DEF MarkSettled
<1>3. /\ m \in sent /\ m \in Callback /\ s \in Status /\ Told(t, s)
      /\ IF ProviderOf(t) = "paynow" THEN s # "sent" ELSE s = m.status
  BY <1>1 DEF EdgeTypeOK, CallbacksTell
<1>4. t \in Call /\ m.status \in Status
  BY <1>3 DEF Callback
<1>5. /\ i \in Call /\ ProviderOf(t) \in Provider /\ ProviderOf(i) = ProviderOf(t)
      /\ call[i].pc # "idle"
  BY <1>3, <1>4 DEF CallsInOrder, Told, IntentOf, ProviderOf, EdgeTypeOK
<1>6. HookType' /\ hook'[h].pc = "idle" /\ \A k \in Hook \ {h} : hook'[k] = hook[k]
  BY <1>1 DEF HookType, Idle
<1>7. CallbacksTell'
  BY <1>1, <1>6 DEF CallbacksTell, Told, ProviderOf
<1>8. ok => txn[t] \in TookMoney
  BY <1>3, <1>5, SuccessPaid DEF Told
<1>9. ~ok /\ ProviderOf(t) = "paynow" => txn[t] \in {"cancelled", "refunded"}
  BY <1>3, PaynowTerminal DEF Told
<1>10. IntentOf(t) = i
  OBVIOUS
<1>11. seen' \subseteq sent /\ sent' = sent
  BY <1>1, <1>3 DEF EdgeTypeOK
<1>15. ~ok => NotPaid(m)
  BY <1>3, <1>9 DEF NotPaid
<1>16. t = m.txn /\ istatus[i] # "absent"
  BY <1>3, <1>4 DEF IntentsExplained, CallsInOrder, Told, IntentOf
<1>17. \A k \in Call : Reported(k) => Reported(k)'
  BY <1>1, ReportsLast
<1> HIDE DEF m, t, i, s, ok
<1>12. CASE UNCHANGED <<istatus, entries, paidBy>>
  <2>1. EdgeTypeOK'
    BY <1>1, <1>6, <1>11, <1>12 DEF EdgeTypeOK
  <2>2. IntentsExplained'
    BY <1>1, <1>12, IntentsKeep
  <2> QED
    BY <1>1, <1>6, <1>7, <1>12, <2>1, <2>2
    DEF CallsInOrder, OnePending, BookedOnce, EntriesSettled, SettledWasPaid, PaynowFailsOnTerminal,
        IntentOf, ProviderOf
<1>13. CASE /\ istatus[i] # "settled" /\ ~ok /\ istatus' = [istatus EXCEPT ![i] = "failed"]
            /\ UNCHANGED <<entries, paidBy>>
  <2>1. istatus'[i] = "failed" /\ \A k \in Call \ {i} : istatus'[k] = istatus[k]
    BY <1>5, <1>13 DEF EdgeTypeOK
  <2>2. EdgeTypeOK'
    BY <1>1, <1>6, <1>11, <1>13 DEF EdgeTypeOK
  <2>3. CallsInOrder' /\ OnePending'
    BY <1>1, <1>5, <2>1 DEF CallsInOrder, OnePending
  <2>4. BookedOnce' /\ EntriesSettled'
    BY <1>13, <2>1 DEF BookedOnce, EntriesSettled, EdgeTypeOK
  <2>5. SettledWasPaid'
    BY <1>1, <2>1 DEF SettledWasPaid, IntentOf
  <2>6. PaynowFailsOnTerminal'
    BY <1>1, <1>4, <1>5, <1>9, <1>10, <1>13, <2>1 DEF PaynowFailsOnTerminal, IntentOf, ProviderOf
  <2>7. IntentsExplained'
    <3>1. PICK n, k : n = m /\ k = i
      OBVIOUS
    <3>2. IntentOf(n.txn) = k /\ NotPaid(n) /\ n \in seen'
      BY <1>1, <1>10, <1>13, <1>15, <1>16, <3>1
    <3>3. IntentOf(n.txn)' = k /\ NotPaid(n)'
      BY <1>1, <3>2
      DEF NotPaid, IntentOf, ProviderOf, Success, PaynowSuccess, ContipaySuccess, EcocashSuccess
    <3>4. Reported(k)'
      BY <3>2, <3>3 DEF Reported
    <3>5. /\ \A l \in Call : istatus'[l] # "absent" => istatus[l] # "absent"
          /\ \A l \in Call : istatus[l] # "absent" => istatus'[l] # "absent"
          /\ \A l \in Call \ {k} : istatus'[l] = istatus[l]
          /\ istatus'[k] = "failed"
      BY <1>16, <2>1, <3>1
    <3>6. \A l \in Call : /\ istatus'[l] = "failed" => Reported(l)'
                          /\ istatus'[l] = "settled" => paidBy' # NoCall
      BY <1>13, <1>17, <3>4, <3>5 DEF IntentsExplained
    <3> QED BY <1>1, <1>17, <3>5, <3>6 DEF IntentsExplained, CallsInOrder
  <2> QED BY <1>6, <1>7, <2>2, <2>3, <2>4, <2>5, <2>6, <2>7
<1>14. CASE /\ istatus[i] # "settled" /\ ok /\ istatus' = [istatus EXCEPT ![i] = "settled"]
            /\ entries' = entries \cup {[intent |-> i, txn |-> t, status |-> m.status]}
            /\ paidBy' = IF paidBy = NoCall THEN i ELSE paidBy
  <2>1. istatus'[i] = "settled" /\ \A k \in Call \ {i} : istatus'[k] = istatus[k]
    BY <1>5, <1>14 DEF EdgeTypeOK
  <2>2. EdgeTypeOK'
    BY <1>1, <1>4, <1>5, <1>6, <1>11, <1>14 DEF EdgeTypeOK
  <2>3. CallsInOrder' /\ OnePending'
    BY <1>1, <1>5, <2>1 DEF CallsInOrder, OnePending
  <2>4. \A e \in entries : e.intent # i /\ e.intent \in Call
    BY <1>14 DEF EntriesSettled, EdgeTypeOK
  <2>5. EntriesSettled'
    BY <1>14, <2>1, <2>4 DEF EntriesSettled
  <2>6. BookedOnce'
    <3> DEFINE n == [intent |-> i, txn |-> t, status |-> m.status]
    <3>1. n.intent = i /\ entries' = entries \cup {n}
      BY <1>14
    <3> HIDE DEF n
    <3>2. \A e, f \in entries' : e.intent = f.intent => e = f
      BY <2>4, <3>1 DEF BookedOnce
    <3>3. paidBy' # NoCall => \E e \in entries' : e.intent = paidBy'
      BY <1>14, <3>1 DEF BookedOnce
    <3> QED BY <3>2, <3>3 DEF BookedOnce
  <2>7. SettledWasPaid'
    BY <1>1, <1>4, <1>8, <1>10, <1>14, <2>1 DEF SettledWasPaid, IntentOf
  <2>8. PaynowFailsOnTerminal'
    BY <1>1, <2>1 DEF PaynowFailsOnTerminal, IntentOf, ProviderOf
  <2>9. IntentsExplained'
    <3>1. /\ \A l \in Call : istatus'[l] # "absent" => istatus[l] # "absent"
          /\ \A l \in Call : istatus[l] # "absent" => istatus'[l] # "absent"
          /\ \A l \in Call : istatus'[l] = "failed" => istatus[l] = "failed"
      BY <1>16, <2>1
    <3>2. paidBy' # NoCall
      BY <1>5, <1>14, EdgeConstants
    <3>3. \A l \in Call : /\ istatus'[l] = "failed" => Reported(l)'
                          /\ istatus'[l] = "settled" => paidBy' # NoCall
      BY <1>17, <3>1, <3>2 DEF IntentsExplained
    <3> QED BY <1>1, <1>17, <3>1, <3>3 DEF IntentsExplained, CallsInOrder
  <2> QED BY <1>6, <1>7, <2>2, <2>3, <2>5, <2>6, <2>7, <2>8, <2>9
<1> QED BY <1>2, <1>12, <1>13, <1>14 DEF Record, t

\* Every step preserves the invariant.
LEMMA EdgeNextIInv == EdgeIInv /\ [EdgeNext]_edgeVars => EdgeIInv'
<1> SUFFICES ASSUME EdgeIInv, [EdgeNext]_edgeVars PROVE EdgeIInv'
  OBVIOUS
<1>1. CASE UNCHANGED edgeVars
  <2>1. IntentsExplained'
    BY <1>1, IntentsKeep DEF edgeVars
  <2> QED
    BY <1>1, <2>1
    DEF edgeVars, EdgeIInv, EdgeTypeOK, HookType, CallbacksTell, Told, CallsInOrder, OnePending, BookedOnce,
        EntriesSettled, SettledWasPaid, PaynowFailsOnTerminal, IntentOf, ProviderOf
<1>2. faults \in 0 .. MaxFaults /\ (faults' = faults \/ (faults' = faults + 1 /\ faults' <= MaxFaults)
                                       => faults' \in 0 .. MaxFaults)
  BY EdgeConstants DEF EdgeIInv, EdgeTypeOK
<1>3. ASSUME NEW c \in Call, NEW p \in Provider, CreateIntent(c, p) PROVE EdgeIInv'
  BY <1>3, CreateIInv
<1>4. ASSUME NEW c \in Call, InitiatePaynowTransaction(c) \/ InitiateContipayRedirect(c) PROVE EdgeIInv'
  <2>1. PICK s \in {"hidden", "created"} : Pushed(c, s)
    BY <1>4 DEF InitiatePaynowTransaction, InitiateContipayRedirect
  <2>2. faults' \in 0 .. MaxFaults
    BY <1>2, <1>4, EdgeConstants DEF InitiatePaynowTransaction, InitiateContipayRedirect
  <2>3. call[c].pc = "push" /\ sent' = sent \cup {[txn |-> c, status |-> "sent"]}
    BY <1>4 DEF InitiatePaynowTransaction, InitiateContipayRedirect
  <2> QED BY <2>1, <2>2, <2>3, PushIInv
<1>5. ASSUME NEW c \in Call, InitiateEcocashC2b(c) PROVE EdgeIInv'
  <2>1. /\ Pushed(c, "created") /\ call[c].pc = "push" /\ faults' \in 0 .. MaxFaults
        /\ sent' = sent \cup {[txn |-> c, status |-> "sent"]}
    BY <1>2, <1>5 DEF InitiateEcocashC2b
  <2> QED BY <2>1, PushIInv
<1>6. ASSUME NEW c \in Call, PushRefused(c) PROVE EdgeIInv'
  <2>1. Pushed(c, "none") /\ call[c].pc = "push" /\ faults' \in 0 .. MaxFaults /\ UNCHANGED sent
    BY <1>2, <1>6, EdgeConstants DEF PushRefused
  <2> QED BY <2>1, PushIInv
<1>7. ASSUME NEW c \in Call,
             CustomerPays(c) \/ ProviderCancels(c) \/ ProviderDelivers(c) \/ ProviderRefunds(c)
      PROVE  EdgeIInv'
  BY <1>7, MoveIInv DEF CustomerPays, ProviderCancels, ProviderDelivers, ProviderRefunds
<1>8. ASSUME NEW h \in Hook, NEW m \in sent, Webhook(h, m) PROVE EdgeIInv'
  BY <1>8, WebhookIInv
<1>9. ASSUME NEW h \in Hook, MarkSettled(h) \/ HookDies(h) PROVE EdgeIInv'
  BY <1>9, MarkIInv, HookDiesIInv
<1> QED
  BY <1>1, <1>3, <1>4, <1>5, <1>6, <1>7, <1>8, <1>9
  DEF EdgeNext, PaynowCreate, ContipayCreate, EcocashCreate

(***************************************************************************)
(* Money and intents of one order: an intent is settled only by a          *)
(* transaction that was paid, with one payment entry; a Paynow intent      *)
(* fails only when a transaction of it ended; and a second intent is made  *)
(* beside a first only after a recorded report that one of the two had     *)
(* not been paid (the initiate and webhook functions and the               *)
(* mark_..._settled functions).                                            *)
(***************************************************************************)
THEOREM EdgeSafe ==
    EdgeSpec => [](EdgeTypeOK /\ SettledWasPaid /\ BookedOnce /\ PaynowFailsOnTerminal /\ SecondIntentExplained)
<1>1. IntentsExplained => SecondIntentExplained
  BY DEF IntentsExplained, SecondIntentExplained, Reported
<1>2. EdgeIInv => EdgeTypeOK /\ SettledWasPaid /\ BookedOnce /\ PaynowFailsOnTerminal /\ SecondIntentExplained
  BY <1>1 DEF EdgeIInv
<1> QED BY <1>2, EdgeInitIInv, EdgeNextIInv, PTL DEF EdgeSpec
=============================================================================
