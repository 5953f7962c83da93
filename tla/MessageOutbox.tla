---------------------------- MODULE MessageOutbox ----------------------------
(***************************************************************************)
(* The outbox workers: process-customer-receipts renders the PDF of a      *)
(* posted invoice, puts its link into the receipt messages and sends them  *)
(* by SMS, e-mail and WhatsApp; process-sms-outbox sends the messages for  *)
(* the staff.  Both claim rows in the database, call a gateway for each    *)
(* row and record the result.                                              *)
(*                                                                         *)
(* Workers are started by cron, by a request for one document or by hand,  *)
(* and overlap; they may be killed anywhere; a gateway may deliver a       *)
(* message and its answer still be lost; recording a result may fail, and  *)
(* nobody looks.  A row that stays in 'sending' for 15 minutes is          *)
(* reclaimed by the next claim, whether or not its worker lives.           *)
(*                                                                         *)
(* One document, with one row per channel (unique (document_id, channel)), *)
(* and one staff message per channel.  The gateways are configured; the    *)
(* local stub mode is left out.                                            *)
(***************************************************************************)
EXTENDS Integers, FiniteSets

CONSTANTS
    Row,          \* subset of ReceiptRows \cup StaffRows
    Worker,       \* invocations of the functions that may overlap
    MaxAttempts,  \* bound: attempt_count < 8 in the code
    MaxRenders,   \* bound: PDFs rendered for the document
    MaxTrouble    \* bound: gateway errors, lost answers, deaths, lapsed leases

ReceiptRows == {"sms", "email", "whatsapp"}
StaffRows   == {"staff_sms", "staff_whatsapp"}

ASSUME OutboxConstants ==
    /\ Row \subseteq ReceiptRows \cup StaffRows /\ IsFiniteSet(Worker)
    /\ {MaxAttempts, MaxRenders, MaxTrouble} \subseteq Nat

VARIABLES
    row,      \* customer_receipt_outbox and sms_outbox: status, attempts, link
    late,     \* rows 'sending' for more than 15 minutes
    token,    \* receipt_pdf_artifacts.download_token (0: no artifact yet)
    worker,   \* the invocations
    given,    \* per row, the links handed to the customer (0: a message without one)
    surplus,  \* per row, messages delivered less the reasons to repeat one
    trouble

outboxVars == <<row, late, token, worker, given, surplus, trouble>>

Link == 0 .. MaxRenders
Off  == [pc |-> "off", rows |-> {}, cur |-> "none", ok |-> FALSE,
         link |-> [r \in Row |-> 0]]

OutboxTypeOK ==
    /\ row \in [Row -> [status : {"pending", "sending", "failed", "sent"},
                        attempts : 0 .. MaxAttempts, link : Link]]
    /\ late \subseteq {r \in Row : row[r].status = "sending"}
    /\ token \in Link
    /\ worker \in [Worker -> [pc : {"off", "render", "receipts", "staff", "send", "complete"},
                              rows : SUBSET Row, cur : Row \cup {"none"}, ok : BOOLEAN,
                              link : [Row -> Link]]]
    /\ given \in [Row -> SUBSET Link]
    /\ \A r \in Row : row[r].link <= token
    /\ trouble \in 0 .. MaxTrouble

OutboxInit ==
    /\ row = [r \in Row |-> [status |-> "pending", attempts |-> 0, link |-> 0]]
    /\ late = {} /\ token = 0
    /\ worker = [w \in Worker |-> Off]
    /\ given = [r \in Row |-> {}]
    /\ surplus = [r \in Row |-> 0]
    /\ trouble = 0

Unsent(r)  == row[r].status \in {"pending", "failed"}
Trouble(n) == trouble' = trouble + n /\ trouble' <= MaxTrouble

----------------------------------------------------------------------------
\* process-customer-receipts, first part: the PDF.

\* list_receipt_documents_needing_pdf.
NeedsPdf == \E r \in Row \cap ReceiptRows :
               Unsent(r) /\ row[r].link = 0 /\ row[r].attempts < MaxAttempts

\* A worker starts: for the documents that need a PDF, or for one document
\* named in the request, which is rendered in any case.
StartReceipts(w) ==
    /\ worker[w].pc = "off"
    /\ \E named \in BOOLEAN :
          IF named \/ NeedsPdf
          THEN /\ token + Cardinality({v \in Worker : worker[v].pc = "render"}) < MaxRenders
               /\ worker' = [worker EXCEPT ![w].pc = "render"]
          ELSE worker' = [worker EXCEPT ![w].pc = "receipts"]
    /\ UNCHANGED <<row, late, token, given, surplus, trouble>>

\* generateAndStorePdf and mark_receipt_pdf_ready: the object in the bucket
\* is replaced, the artifact gets a new token, and the rows that are not
\* being sent get the new link.
RenderPdf(w) ==
    /\ worker[w].pc = "render"
    /\ token' = token + 1
    /\ row' = [r \in Row |-> IF r \in ReceiptRows /\ Unsent(r)
                             THEN [row[r] EXCEPT !.link = token + 1] ELSE row[r]]
    /\ worker' = [worker EXCEPT ![w].pc = "receipts"]
    /\ UNCHANGED <<late, given, surplus, trouble>>

\* Loading the invoice, the upload or mark_receipt_pdf_ready fails: the error
\* is noted and the worker goes on to the channels, or, with a document named
\* in the request, ends.
RenderFails(w) ==
    /\ worker[w].pc = "render" /\ Trouble(1)
    /\ \E next \in {"receipts", "off"} : worker' = [worker EXCEPT ![w].pc = next]
    /\ UNCHANGED <<row, late, token, given, surplus>>

----------------------------------------------------------------------------
\* claim_*_outbox_batch and complete_*_outbox.

\* Mutations: rows left in 'sending' are not reclaimed; rows are handed out
\* although they are being sent; attempts are not counted.
ReclaimedNever(mine) == {}
ClaimableSending(r)  == row[r].status # "sent" /\ row[r].attempts < MaxAttempts
ClaimableForever(r)  == Unsent(r) /\ (r \in ReceiptRows => row[r].link # 0)

\* The rows a claim takes back: 'sending' for more than 15 minutes.
Reclaimed(mine) == late \cap mine

\* The rows it may take: not sent, attempts left, and a receipt has its link.
Claimable(r) ==
    /\ Unsent(r) \/ r \in Reclaimed(Row)
    /\ row[r].attempts < MaxAttempts
    /\ r \in ReceiptRows => row[r].link # 0

\* A worker other than w that will still send or record row r.
HeldBy(r, w) == \E v \in Worker \ {w} : r \in worker[v].rows \/ worker[v].cur = r

Claim(w, mine) ==
    LET back  == Reclaimed(mine)
        taken == {r \in mine : Claimable(r)}
    IN  /\ row' = [r \in Row |->
                     IF r \in taken
                     THEN [row[r] EXCEPT !.status = "sending", !.attempts = @ + 1]
                     ELSE IF r \in back THEN [row[r] EXCEPT !.status = "failed"]
                     ELSE row[r]]
        /\ late' = late \ back
        /\ worker' = [worker EXCEPT ![w] =
                        IF taken = {} THEN Off
                        ELSE [Off EXCEPT !.pc = "send", !.rows = taken,
                                         !.link = [r \in Row |-> row[r].link]]]
        /\ surplus' = [r \in Row |-> IF r \in back /\ HeldBy(r, w)
                                     THEN surplus[r] - 1 ELSE surplus[r]]
        /\ UNCHANGED <<token, given, trouble>>

ClaimReceipts(w) == worker[w].pc = "receipts" /\ Claim(w, Row \cap ReceiptRows)

\* process-sms-outbox starts with its claim.
ClaimStaff(w) == worker[w].pc = "off" /\ Claim(w, Row \cap StaffRows)

----------------------------------------------------------------------------
\* The gateway calls: how many messages arrive, and whether the call returns.
\* "lost" is a message that arrives although the call throws.

Outcome == {"ok", "lost", "refused"}
Arrived(o) == IF o = "refused" THEN 0 ELSE 1
Failed(o)  == IF o = "ok" THEN 0 ELSE 1

\* The result of sending row r: n messages arrived, m of them unknown to the
\* worker, and the worker saw success or not.
Handed(w, r, n, m, ok) ==
    /\ worker' = [worker EXCEPT ![w].pc = "complete", ![w].cur = r, ![w].ok = ok,
                                ![w].rows = @ \ {r}]
    /\ given' = [given EXCEPT ![r] = IF n = 0 THEN @ ELSE @ \cup {worker[w].link[r]}]
    /\ surplus' = [surplus EXCEPT ![r] = @ + n - m]
    /\ UNCHANGED <<row, late, token>>

\* Mutation: an answer is taken for a success without looking at it.
SendOptimistic(w, r) ==
    /\ worker[w].pc = "send" /\ r \in worker[w].rows \ {"staff_whatsapp"}
    /\ \E o \in Outcome :
          Handed(w, r, Arrived(o), IF o = "lost" THEN 1 ELSE 0, TRUE) /\ Trouble(Failed(o))

\* sendOutboxChannel, and process-sms-outbox for an SMS: one gateway call
\* (sendSms, sendEmail, sendWhatsAppDocument).
Send(w, r) ==
    /\ worker[w].pc = "send" /\ r \in worker[w].rows \ {"staff_whatsapp"}
    /\ \E o \in Outcome :
          /\ Handed(w, r, Arrived(o), IF o = "lost" THEN 1 ELSE 0, o = "ok")
          /\ Trouble(Failed(o))

\* process-sms-outbox for a WhatsApp message: when that call throws the text
\* is sent by SMS.
SendWhatsAppOrSms(w, r) ==
    /\ worker[w].pc = "send" /\ r \in worker[w].rows /\ r = "staff_whatsapp"
    /\ \E a \in Outcome :
          IF a = "ok"
          THEN Handed(w, r, 1, 0, TRUE) /\ Trouble(0)
          ELSE \E o \in Outcome :
                  /\ Handed(w, r, Arrived(a) + Arrived(o),
                            Arrived(a) + (IF o = "lost" THEN 1 ELSE 0), o = "ok")
                  /\ Trouble(1 + Failed(o))

\* Mutation: the row's present status is not looked at.
RecordedAlways(r, ok) == [row[r] EXCEPT !.status = IF ok THEN "sent" ELSE "failed"]

\* complete_*_outbox: a row that is 'sent' stays so.
Recorded(r, ok) ==
    IF row[r].status = "sent" THEN row[r]
    ELSE [row[r] EXCEPT !.status = IF ok THEN "sent" ELSE "failed"]

\* The result is recorded, and the worker goes on with the next row.
Complete(w) ==
    LET r == worker[w].cur
    IN  /\ worker[w].pc = "complete"
        /\ row' = [row EXCEPT ![r] = Recorded(r, worker[w].ok)]
        /\ late' = late \ {r}
        /\ worker' = [worker EXCEPT ![w] =
                        IF @.rows = {} THEN Off ELSE [@ EXCEPT !.pc = "send", !.cur = "none"]]
        /\ UNCHANGED <<token, given, surplus, trouble>>

\* The call of complete_*_outbox fails; its error is ignored.
CompleteFails(w) ==
    LET r == worker[w].cur
    IN  /\ worker[w].pc = "complete" /\ Trouble(1)
        /\ surplus' = [surplus EXCEPT ![r] = IF worker[w].ok THEN @ - 1 ELSE @]
        /\ worker' = [worker EXCEPT ![w] =
                        IF @.rows = {} THEN Off ELSE [@ EXCEPT !.pc = "send", !.cur = "none"]]
        /\ UNCHANGED <<row, late, token, given>>

----------------------------------------------------------------------------
\* The environment (external).

\* The invocation is killed; rows it claimed stay in 'sending'.
Die(w) ==
    LET r == worker[w].cur
    IN  /\ worker[w].pc \in {"render", "receipts", "send", "complete"} /\ Trouble(1)
        /\ worker' = [worker EXCEPT ![w] = Off]
        /\ surplus' = IF worker[w].pc = "complete" /\ worker[w].ok
                      THEN [surplus EXCEPT ![r] = @ - 1] ELSE surplus
        /\ UNCHANGED <<row, late, token, given>>

\* Fifteen minutes pass for a row in 'sending': soon if nobody holds it any
\* more, and as a trouble if its worker is only slow.
Age(r) ==
    /\ row[r].status = "sending" /\ r \notin late
    /\ late' = late \cup {r}
    /\ Trouble(IF \E w \in Worker : r \in worker[w].rows \/ worker[w].cur = r THEN 1 ELSE 0)
    /\ UNCHANGED <<row, token, worker, given, surplus>>

OutboxNext ==
    \/ \E w \in Worker :
          \/ StartReceipts(w)
          \/ RenderPdf(w)
          \/ RenderFails(w)
          \/ ClaimReceipts(w)
          \/ ClaimStaff(w)
          \/ \E r \in Row : Send(w, r)
          \/ \E r \in Row : SendWhatsAppOrSms(w, r)
          \/ Complete(w)
          \/ CompleteFails(w)
          \/ Die(w)
    \/ \E r \in Row : Age(r)

OutboxSpec == OutboxInit /\ [][OutboxNext]_outboxVars

\* Cron keeps starting both workers, an invocation goes on until it ends, and
\* time passes.
OutboxFairness ==
    /\ \A w \in Worker :
          /\ SF_outboxVars(StartReceipts(w)) /\ SF_outboxVars(ClaimStaff(w))
          /\ WF_outboxVars(RenderPdf(w)) /\ WF_outboxVars(ClaimReceipts(w))
          /\ WF_outboxVars(\E r \in Row : Send(w, r) \/ SendWhatsAppOrSms(w, r))
          /\ WF_outboxVars(Complete(w))
    /\ \A r \in Row : WF_outboxVars(Age(r))

OutboxFairSpec == OutboxSpec /\ OutboxFairness

----------------------------------------------------------------------------
\* Properties.

\* A row is 'sent' only when its message went out ("Failed sends mark failed
\* (never fake success)"), whichever of two workers recorded it last.
SentWasDelivered == \A r \in Row : row[r].status = "sent" => given[r] # {}

\* "success path does not duplicate spam": a recipient gets a second copy
\* only for a reason, one for each: an answer or a result that was lost, a
\* worker killed after the gateway call, a lease that ran out on a live one.
RepeatedForReason == \A r \in Row : surplus[r] <= 1

\* A row that is 'sent' is never reopened: not by the late failure of a slow
\* worker whose row another one has sent meanwhile.
SentIsFinal ==
    [][\A r \in Row : row[r].status = "sent" => row'[r].status = "sent"]_outboxVars

\* No message is forgotten: whatever dies in between, each row is sent in the
\* end or has used up its attempts.
RowEnds ==
    \A r \in Row : <>(row[r].status = "sent"
                      \/ (row[r].attempts = MaxAttempts /\ row[r].status = "failed"))
=============================================================================
