------------------------- MODULE MessageOutboxProofs -------------------------
(***************************************************************************)
(* Proofs about MessageOutbox, for any set of rows, any finite set of      *)
(* overlapping workers and any bounds.                                     *)
(***************************************************************************)
EXTENDS MessageOutbox, FiniteSetTheorems, TLAPS

RowRec == [status : {"pending", "sending", "failed", "sent"}, attempts : 0 .. MaxAttempts, link : Link]

WorkerRec == [pc : {"off", "render", "receipts", "staff", "send", "complete"},
              rows : SUBSET Row, cur : Row \cup {"none"}, ok : BOOLEAN, link : [Row -> Link]]

\* The row in hand is set while its result is recorded, and only then; a
\* success in hand has reached the recipient.
WorkersInOrder ==
    /\ surplus \in [Row -> Int]
    /\ \A w \in Worker :
        /\ worker[w].pc \notin {"send", "complete"} => worker[w].rows = {}
        /\ worker[w].cur \notin worker[w].rows
        /\ worker[w].pc = "complete" <=> worker[w].cur # "none"
        /\ worker[w].pc = "complete" /\ worker[w].ok => given[worker[w].cur] # {}

Rendering == {v \in Worker : worker[v].pc = "render"}

RendersLeft == token + Cardinality(Rendering) <= MaxRenders

\* The workers that may yet add a copy of row r, or that are about to report
\* a failure and so free the row for one.
OpenBy(r, w) == r \in worker[w].rows \/ (worker[w].cur = r /\ ~worker[w].ok)
Open(r) == {w \in Worker : OpenBy(r, w)}

Budget(r) == surplus[r] + Cardinality(Open(r))

Held(r) == \E w \in Worker : r \in worker[w].rows \/ worker[w].cur = r

\* Copies delivered and copies to come have a reason each, but for one; and
\* none is left when the row can be claimed.
RowBudget(r) ==
    /\ Budget(r) <= 1
    /\ Unsent(r) => Budget(r) <= 0
    /\ row[r].status = "sending" /\ ~Held(r) => surplus[r] <= 0

CopiesBudgeted == \A r \in Row : RowBudget(r)

OutboxIInv ==
    /\ OutboxTypeOK /\ SentWasDelivered
    /\ WorkersInOrder /\ RendersLeft /\ CopiesBudgeted

----------------------------------------------------------------------------
\* Counting workers.

LEMMA CountStep ==
    ASSUME NEW S \in SUBSET Worker, NEW T \in SUBSET Worker, NEW w \in Worker,
           \A v \in Worker \ {w} : v \in T <=> v \in S
    PROVE  /\ Cardinality(S) \in Nat /\ Cardinality(T) \in Nat
           /\ w \notin S /\ w \in T => Cardinality(T) = Cardinality(S) + 1
           /\ w \in S /\ w \notin T => Cardinality(T) = Cardinality(S) - 1
           /\ (w \in S <=> w \in T) => Cardinality(T) = Cardinality(S)
<1>1. IsFiniteSet(S) /\ IsFiniteSet(T)
  BY FS_Subset, OutboxConstants
<1>2. Cardinality(S) \in Nat /\ Cardinality(T) \in Nat
  BY <1>1, FS_CardinalityType
<1>3. ASSUME w \notin S, w \in T PROVE Cardinality(T) = Cardinality(S) + 1
  <2>1. T = S \cup {w}
    BY <1>3
  <2> QED BY <1>1, <1>3, <2>1, FS_AddElement
<1>4. ASSUME w \in S, w \notin T PROVE Cardinality(T) = Cardinality(S) - 1
  <2>1. T = S \ {w}
    BY <1>4
  <2> QED BY <1>1, <1>4, <2>1, FS_RemoveElement
<1>5. ASSUME w \in S <=> w \in T PROVE Cardinality(T) = Cardinality(S)
  <2>1. T = S
    BY <1>5
  <2> QED BY <2>1
<1> QED BY <1>2, <1>3, <1>4, <1>5

\* One worker's step changes the number of open copies of a row by one at most.
LEMMA OpenStep ==
    ASSUME NEW w \in Worker, \A v \in Worker \ {w} : worker'[v] = worker[v], NEW r
    PROVE  /\ Cardinality(Open(r)) \in Nat /\ Cardinality(Open(r)') \in Nat
           /\ ~OpenBy(r, w) /\ OpenBy(r, w)' => Cardinality(Open(r)') = Cardinality(Open(r)) + 1
           /\ OpenBy(r, w) /\ ~OpenBy(r, w)' => Cardinality(Open(r)') = Cardinality(Open(r)) - 1
           /\ (OpenBy(r, w) <=> OpenBy(r, w)') => Cardinality(Open(r)') = Cardinality(Open(r))
<1> DEFINE S == Open(r)
           T == Open(r)'
<1>1. /\ S \in SUBSET Worker /\ T \in SUBSET Worker /\ \A v \in Worker \ {w} : v \in T <=> v \in S
      /\ w \in S <=> OpenBy(r, w)
      /\ w \in T <=> OpenBy(r, w)'
  BY DEF Open, OpenBy
<1> HIDE DEF S, T
<1>2. /\ Cardinality(S) \in Nat /\ Cardinality(T) \in Nat
      /\ w \notin S /\ w \in T => Cardinality(T) = Cardinality(S) + 1
      /\ w \in S /\ w \notin T => Cardinality(T) = Cardinality(S) - 1
      /\ (w \in S <=> w \in T) => Cardinality(T) = Cardinality(S)
  BY <1>1, CountStep
<1> QED BY <1>1, <1>2 DEF S, T

LEMMA RenderingStep ==
    ASSUME NEW w \in Worker, \A v \in Worker \ {w} : worker'[v] = worker[v]
    PROVE  /\ Cardinality(Rendering) \in Nat /\ Cardinality(Rendering') \in Nat
           /\ worker'[w].pc = "render" => Cardinality(Rendering') <= Cardinality(Rendering) + 1
           /\ worker'[w].pc # "render" => Cardinality(Rendering') <= Cardinality(Rendering)
           /\ worker[w].pc = "render" /\ worker'[w].pc # "render"
                => Cardinality(Rendering') = Cardinality(Rendering) - 1
<1> DEFINE S == Rendering
           T == Rendering'
<1>1. /\ S \in SUBSET Worker /\ T \in SUBSET Worker /\ \A v \in Worker \ {w} : v \in T <=> v \in S
      /\ w \in S <=> worker[w].pc = "render"
      /\ w \in T <=> worker'[w].pc = "render"
  BY DEF Rendering
<1> HIDE DEF S, T
<1>2. /\ Cardinality(S) \in Nat /\ Cardinality(T) \in Nat
      /\ w \notin S /\ w \in T => Cardinality(T) = Cardinality(S) + 1
      /\ w \in S /\ w \notin T => Cardinality(T) = Cardinality(S) - 1
      /\ (w \in S <=> w \in T) => Cardinality(T) = Cardinality(S)
  BY <1>1, CountStep
<1> QED BY <1>1, <1>2 DEF S, T

\* A row nobody holds has no open copy.
LEMMA Unheld ==
    ASSUME NEW r, ~Held(r) PROVE Cardinality(Open(r)) = 0
<1>1. Open(r) = {}
  BY DEF Held, Open, OpenBy
<1> QED BY <1>1, FS_EmptySet

\* A worker's step that has nothing to do with row r.
LEMMA Untouched ==
    ASSUME OutboxIInv, NEW w \in Worker, \A v \in Worker \ {w} : worker'[v] = worker[v], NEW r \in Row,
           surplus'[r] = surplus[r], row'[r].status = row[r].status,
           r \in worker'[w].rows <=> r \in worker[w].rows,
           worker'[w].cur = r <=> worker[w].cur = r,
           worker[w].cur = r => worker'[w].ok = worker[w].ok
    PROVE  RowBudget(r)'
<1>1. OpenBy(r, w) <=> OpenBy(r, w)'
  BY DEF OpenBy
<1>2. Cardinality(Open(r)') = Cardinality(Open(r))
  BY <1>1, OpenStep
<1>3. Held(r)' <=> Held(r)
  BY DEF Held
<1>4. RowBudget(r)
  BY DEF OutboxIInv, CopiesBudgeted
<1>5. Budget(r)' = Budget(r)
  BY <1>2 DEF Budget
<1> QED BY <1>3, <1>4, <1>5 DEF RowBudget, Unsent

----------------------------------------------------------------------------
\* The PDF.

\* A worker that goes on to another part of its work, with nothing in hand.
LEMMA GoesOn ==
    ASSUME OutboxIInv, NEW w \in Worker, NEW pc \in {"off", "render", "receipts"},
           worker[w].pc \notin {"send", "complete"}, worker' = [worker EXCEPT ![w].pc = pc],
           \A r \in Row : row'[r].status = row[r].status, UNCHANGED <<given, surplus>>
    PROVE  /\ worker' \in [Worker -> WorkerRec] /\ WorkersInOrder' /\ CopiesBudgeted' /\ SentWasDelivered'
           /\ worker'[w].pc = pc /\ \A v \in Worker \ {w} : worker'[v] = worker[v]
<1> USE DEF OutboxIInv
<1>1. worker \in [Worker -> WorkerRec]
  BY DEF OutboxTypeOK, WorkerRec
<1>2. worker' \in [Worker -> WorkerRec]
  BY <1>1 DEF WorkerRec
<1>3. /\ \A v \in Worker \ {w} : worker'[v] = worker[v]
      /\ worker'[w].pc = pc /\ worker'[w].rows = worker[w].rows
      /\ worker'[w].cur = worker[w].cur /\ worker'[w].ok = worker[w].ok
  BY <1>1 DEF WorkerRec
<1>4. WorkersInOrder'
  BY <1>3 DEF WorkersInOrder
<1>5. \A r \in Row : RowBudget(r)'
  <2> TAKE r \in Row
  <2> QED BY <1>3, Untouched
<1>6. SentWasDelivered'
  BY DEF SentWasDelivered
<1> QED BY <1>2, <1>3, <1>4, <1>5, <1>6 DEF CopiesBudgeted

LEMMA StartIInv ==
    ASSUME OutboxIInv, NEW w \in Worker, StartReceipts(w) PROVE OutboxIInv'
<1>1. PICK pc \in {"render", "receipts"} :
         /\ worker' = [worker EXCEPT ![w].pc = pc]
         /\ pc = "render" => token + Cardinality(Rendering) < MaxRenders
  BY DEF StartReceipts, Rendering
<1>2. worker[w].pc = "off" /\ UNCHANGED <<row, late, token, given, surplus, trouble>>
  BY DEF StartReceipts
<1>3. /\ worker' \in [Worker -> WorkerRec] /\ WorkersInOrder' /\ CopiesBudgeted' /\ SentWasDelivered'
      /\ worker'[w].pc = pc /\ \A v \in Worker \ {w} : worker'[v] = worker[v]
  BY <1>1, <1>2, GoesOn
<1>4. OutboxTypeOK'
  BY <1>2, <1>3 DEF OutboxIInv, OutboxTypeOK, WorkerRec
<1>5. RendersLeft'
  <2>1. token \in Nat /\ token' = token /\ Cardinality(Rendering) \in Nat /\ Cardinality(Rendering') \in Nat
    BY <1>2, <1>3, RenderingStep DEF OutboxIInv, OutboxTypeOK, Link
  <2>2. token + Cardinality(Rendering') <= MaxRenders
    BY <1>1, <1>3, <2>1, RenderingStep, OutboxConstants DEF OutboxIInv, RendersLeft
  <2> QED BY <2>1, <2>2 DEF RendersLeft
<1> QED BY <1>3, <1>4, <1>5 DEF OutboxIInv

\* The new link is one of those left to render.
LEMMA RenderIInv ==
    ASSUME OutboxIInv, NEW w \in Worker, RenderPdf(w) PROVE OutboxIInv'
<1>1. /\ worker[w].pc = "render" /\ worker' = [worker EXCEPT ![w].pc = "receipts"]
      /\ token' = token + 1 /\ UNCHANGED <<late, given, surplus, trouble>>
      /\ row' = [r \in Row |-> IF r \in ReceiptRows /\ Unsent(r)
                               THEN [row[r] EXCEPT !.link = token + 1] ELSE row[r]]
  BY DEF RenderPdf
<1>2. \A r \in Row : /\ row'[r].status = row[r].status /\ row'[r].attempts = row[r].attempts
                     /\ row'[r].link \in {row[r].link, token + 1}
  BY <1>1 DEF OutboxIInv, OutboxTypeOK
<1>3. /\ worker' \in [Worker -> WorkerRec] /\ WorkersInOrder' /\ CopiesBudgeted' /\ SentWasDelivered'
      /\ worker'[w].pc = "receipts" /\ \A v \in Worker \ {w} : worker'[v] = worker[v]
  BY <1>1, <1>2, GoesOn
<1>4. token \in Nat /\ Cardinality(Rendering) \in Nat /\ Cardinality(Rendering') = Cardinality(Rendering) - 1
  BY <1>1, <1>3, RenderingStep DEF OutboxIInv, OutboxTypeOK, Link
<1>5. Cardinality(Rendering') \in Nat
  BY <1>3, RenderingStep
<1>6. RendersLeft' /\ token + 1 \in Link
  BY <1>1, <1>4, <1>5, OutboxConstants DEF OutboxIInv, RendersLeft, Link
<1>7. row' \in [Row -> [status : {"pending", "sending", "failed", "sent"},
                        attempts : 0 .. MaxAttempts, link : Link]]
  BY <1>1, <1>6 DEF OutboxIInv, OutboxTypeOK
<1>8. OutboxTypeOK'
  <2>1. \A r \in Row : row'[r].link <= token'
    BY <1>1, <1>2, <1>4, <1>6 DEF OutboxIInv, OutboxTypeOK, Link
  <2> QED BY <1>1, <1>2, <1>3, <1>6, <1>7, <2>1 DEF OutboxIInv, OutboxTypeOK, WorkerRec
<1> QED BY <1>3, <1>6, <1>8 DEF OutboxIInv

\* Troubles are counted up to the bound.
LEMMA TroubleBounded ==
    ASSUME OutboxIInv, NEW n \in Nat, Trouble(n) PROVE trouble' \in 0 .. MaxTrouble
BY OutboxConstants DEF OutboxIInv, OutboxTypeOK, Trouble

\* Workers that render no more leave as many PDFs to render.
LEMMA RendersKept ==
    ASSUME OutboxIInv, NEW w \in Worker, \A v \in Worker \ {w} : worker'[v] = worker[v],
           worker'[w].pc # "render", token' = token
    PROVE  RendersLeft'
<1>1. token \in Nat /\ MaxRenders \in Nat /\ token + Cardinality(Rendering) <= MaxRenders
  BY OutboxConstants DEF OutboxIInv, OutboxTypeOK, Link, RendersLeft
<1>2. /\ Cardinality(Rendering) \in Nat /\ Cardinality(Rendering') \in Nat
      /\ Cardinality(Rendering') <= Cardinality(Rendering)
  BY RenderingStep
<1> QED BY <1>1, <1>2 DEF RendersLeft

LEMMA RenderFailsIInv ==
    ASSUME OutboxIInv, NEW w \in Worker, RenderFails(w) PROVE OutboxIInv'
<1>1. PICK pc \in {"receipts", "off"} : worker' = [worker EXCEPT ![w].pc = pc]
  BY DEF RenderFails
<1>2. worker[w].pc = "render" /\ UNCHANGED <<row, late, token, given, surplus>>
  BY DEF RenderFails
<1>3. /\ worker' \in [Worker -> WorkerRec] /\ WorkersInOrder' /\ CopiesBudgeted' /\ SentWasDelivered'
      /\ worker'[w].pc = pc /\ \A v \in Worker \ {w} : worker'[v] = worker[v]
  BY <1>1, <1>2, GoesOn
<1>4. trouble' \in 0 .. MaxTrouble
  BY TroubleBounded DEF RenderFails
<1>5. OutboxTypeOK'
  BY <1>2, <1>3, <1>4 DEF OutboxIInv, OutboxTypeOK, WorkerRec
<1>6. RendersLeft'
  BY <1>2, <1>3, RendersKept
<1> QED BY <1>3, <1>5, <1>6 DEF OutboxIInv

----------------------------------------------------------------------------
\* Claims.

\* What a claim does to the worker: it has the rows it took, and none in hand.
LEMMA ClaimWorker ==
    ASSUME OutboxIInv, NEW w \in Worker, NEW mine \in SUBSET Row,
           worker[w].pc \in {"receipts", "off"}, Claim(w, mine)
    PROVE  LET taken == {r \in mine : Claimable(r)}
           IN  /\ worker' \in [Worker -> WorkerRec]
               /\ \A v \in Worker \ {w} : worker'[v] = worker[v]
               /\ worker'[w].pc \in {"off", "send"} /\ worker'[w].rows = taken
               /\ worker'[w].cur = "none" /\ (taken # {} => worker'[w].pc = "send")
               /\ worker[w].rows = {} /\ worker[w].cur = "none"
<1> DEFINE taken == {r \in mine : Claimable(r)}
           next  == IF taken = {} THEN Off
                    ELSE [Off EXCEPT !.pc = "send", !.rows = taken,
                                     !.link = [r \in Row |-> row[r].link]]
<1>1. worker \in [Worker -> WorkerRec] /\ [r \in Row |-> row[r].link] \in [Row -> Link]
  BY DEF OutboxIInv, OutboxTypeOK, WorkerRec
<1>2. worker' = [worker EXCEPT ![w] = next]
  BY DEF Claim
<1>3. taken \in SUBSET Row
  OBVIOUS
<1>4. 0 \in Link
  BY OutboxConstants DEF Link
<1> HIDE DEF taken
<1>5. /\ next \in WorkerRec /\ next.pc \in {"off", "send"} /\ next.rows = taken
      /\ next.cur = "none" /\ (taken # {} => next.pc = "send")
  BY <1>1, <1>3, <1>4 DEF Off, WorkerRec
<1> HIDE DEF next
<1>6. worker' \in [Worker -> WorkerRec] /\ worker'[w] = next /\ \A v \in Worker \ {w} : worker'[v] = worker[v]
  BY <1>1, <1>2, <1>5
<1>7. worker[w].rows = {} /\ worker[w].cur = "none"
  BY DEF OutboxIInv, WorkersInOrder
<1> QED BY <1>5, <1>6, <1>7 DEF taken

\* A row is handed out when no copy of it is open, or with the reason that its
\* lease ran out.
LEMMA ClaimBudget ==
    ASSUME OutboxIInv, NEW w \in Worker, NEW mine \in SUBSET Row,
           worker[w].pc \in {"receipts", "off"}, Claim(w, mine), NEW r \in Row
    PROVE  RowBudget(r)'
<1> DEFINE back  == Reclaimed(mine)
           taken == {q \in mine : Claimable(q)}
<1>1. /\ row'[r] = IF r \in taken THEN [row[r] EXCEPT !.status = "sending", !.attempts = @ + 1]
                   ELSE IF r \in back THEN [row[r] EXCEPT !.status = "failed"] ELSE row[r]
      /\ surplus'[r] = IF r \in back /\ HeldBy(r, w) THEN surplus[r] - 1 ELSE surplus[r]
  BY DEF Claim
<1>2. /\ \A v \in Worker \ {w} : worker'[v] = worker[v]
      /\ worker'[w].rows = taken /\ worker'[w].cur = "none"
      /\ worker[w].rows = {} /\ worker[w].cur = "none"
  BY ClaimWorker
<1>3. r # "none"
  BY OutboxConstants DEF ReceiptRows, StaffRows
<1>4. ~OpenBy(r, w) /\ (OpenBy(r, w)' <=> r \in taken)
  BY <1>2, <1>3 DEF OpenBy
<1>5. /\ Cardinality(Open(r)) \in Nat
      /\ Cardinality(Open(r)') = IF r \in taken THEN Cardinality(Open(r)) + 1 ELSE Cardinality(Open(r))
  BY <1>2, <1>4, OpenStep
<1>6. HeldBy(r, w) <=> Held(r)
  BY <1>2, <1>3 DEF HeldBy, Held
<1>7. /\ surplus[r] \in Int /\ RowBudget(r)
      /\ ~Held(r) => Cardinality(Open(r)) = 0
  BY Unheld DEF OutboxIInv, WorkersInOrder, CopiesBudgeted
<1>8. /\ r \in back => row[r].status = "sending"
      /\ r \in taken => Unsent(r) \/ r \in back
      /\ row[r] = [row[r] EXCEPT !.status = @] /\ r \in taken => row'[r].status = "sending"
  BY <1>1 DEF OutboxIInv, OutboxTypeOK, Claimable, Reclaimed
<1> HIDE DEF taken, back
<1>9. CASE r \in taken
  <2>1. row'[r].status = "sending" /\ Held(r)'
    <3>1. row'[r].status = "sending"
      BY <1>1, <1>9 DEF OutboxIInv, OutboxTypeOK
    <3> QED BY <1>2, <1>9, <3>1 DEF Held
  <2>2. Budget(r)' <= 1
    <3>1. CASE r \in back
      BY <1>1, <1>5, <1>6, <1>7, <1>8, <1>9, <3>1 DEF RowBudget, Budget
    <3>2. CASE r \notin back
      BY <1>1, <1>5, <1>7, <1>8, <1>9, <3>2 DEF RowBudget, Budget
    <3> QED BY <3>1, <3>2
  <2> QED BY <2>1, <2>2 DEF RowBudget, Unsent
<1>10. CASE r \notin taken /\ r \in back
  <2>1. row'[r].status = "failed"
    BY <1>1, <1>10 DEF OutboxIInv, OutboxTypeOK
  <2>2. Budget(r)' <= 0
    BY <1>1, <1>5, <1>6, <1>7, <1>8, <1>10 DEF RowBudget, Budget
  <2>3. Budget(r)' \in Int
    BY <1>1, <1>5, <1>7, <1>10 DEF Budget
  <2> QED BY <2>1, <2>2, <2>3 DEF RowBudget
<1>11. CASE r \notin taken /\ r \notin back
  <2>1. row'[r] = row[r] /\ surplus'[r] = surplus[r]
    BY <1>1, <1>11
  <2> QED BY <1>2, <1>3, <1>11, <2>1, Untouched
<1> QED BY <1>9, <1>10, <1>11

LEMMA ClaimIInv ==
    ASSUME OutboxIInv, NEW w \in Worker, NEW mine \in SUBSET Row,
           worker[w].pc \in {"receipts", "off"}, Claim(w, mine)
    PROVE  OutboxIInv'
<1> DEFINE back  == Reclaimed(mine)
           taken == {q \in mine : Claimable(q)}
<1>1. /\ row' = [r \in Row |->
                   IF r \in taken THEN [row[r] EXCEPT !.status = "sending", !.attempts = @ + 1]
                   ELSE IF r \in back THEN [row[r] EXCEPT !.status = "failed"] ELSE row[r]]
      /\ late' = late \ back /\ UNCHANGED <<token, given, trouble>>
      /\ surplus' = [r \in Row |-> IF r \in back /\ HeldBy(r, w) THEN surplus[r] - 1 ELSE surplus[r]]
  BY DEF Claim
<1>2. /\ worker' \in [Worker -> WorkerRec] /\ \A v \in Worker \ {w} : worker'[v] = worker[v]
      /\ worker'[w].pc \in {"off", "send"} /\ worker'[w].rows = taken
      /\ worker'[w].cur = "none" /\ (taken # {} => worker'[w].pc = "send")
  BY ClaimWorker
<1>3. /\ taken \subseteq Row /\ \A r \in taken : row[r].attempts < MaxAttempts
      /\ back \subseteq mine /\ late \cap mine = back
  BY DEF Claimable, Reclaimed
<1> HIDE DEF taken, back
<1>4. \A r \in Row : /\ row'[r] \in RowRec /\ row'[r].link = row[r].link
                     /\ row'[r].status = "sent" => row[r].status = "sent"
                     /\ r \notin back => row'[r].status \in {row[r].status, "sending"}
  <2> TAKE r \in Row
  <2>1. row[r] \in RowRec /\ MaxAttempts \in Nat
    BY OutboxConstants DEF OutboxIInv, OutboxTypeOK, RowRec
  <2>2. CASE r \in taken
    <3>1. row'[r] = [row[r] EXCEPT !.status = "sending", !.attempts = @ + 1]
      BY <1>1, <2>2
    <3>2. row[r].attempts + 1 \in 0 .. MaxAttempts
      BY <1>3, <2>1, <2>2 DEF RowRec
    <3> QED BY <2>1, <3>1, <3>2 DEF RowRec
  <2>3. CASE r \notin taken /\ r \in back
    <3>1. row'[r] = [row[r] EXCEPT !.status = "failed"]
      BY <1>1, <2>3
    <3> QED BY <2>1, <2>3, <3>1 DEF RowRec
  <2>4. CASE r \notin taken /\ r \notin back
    BY <1>1, <2>1, <2>4
  <2> QED BY <2>2, <2>3, <2>4
<1>5. row' \in [Row -> RowRec]
  BY <1>1, <1>4
<1>6. OutboxTypeOK'
  <2>1. late' \subseteq {r \in Row : row'[r].status = "sending"}
    BY <1>1, <1>4 DEF OutboxIInv, OutboxTypeOK
  <2>2. \A r \in Row : row'[r].link <= token'
    <3>1. token' = token /\ \A r \in Row : row[r].link <= token
      BY <1>1 DEF OutboxIInv, OutboxTypeOK
    <3> QED BY <1>4, <3>1
  <2> QED BY <1>1, <1>2, <1>5, <2>1, <2>2 DEF OutboxIInv, OutboxTypeOK, WorkerRec, RowRec
<1>7. SentWasDelivered'
  BY <1>1, <1>4 DEF OutboxIInv, SentWasDelivered
<1>8. WorkersInOrder'
  <2>1. surplus' \in [Row -> Int]
    <3>1. surplus \in [Row -> Int]
      BY DEF OutboxIInv, WorkersInOrder
    <3> HIDE DEF OutboxIInv
    <3> DEFINE Less(r) == r \in back /\ HeldBy(r, w)
    <3>2. surplus' = [r \in Row |-> IF Less(r) THEN surplus[r] - 1 ELSE surplus[r]]
      BY <1>1
    <3> HIDE DEF Less
    <3> QED BY <3>1, <3>2
  <2>2. "none" \notin taken
    BY <1>3, OutboxConstants DEF ReceiptRows, StaffRows
  <2> DEFINE InOrder(v) == /\ worker'[v].pc \notin {"send", "complete"} => worker'[v].rows = {}
                           /\ worker'[v].cur \notin worker'[v].rows
                           /\ worker'[v].pc = "complete" <=> worker'[v].cur # "none"
                           /\ worker'[v].pc = "complete" /\ worker'[v].ok => given'[worker'[v].cur] # {}
  <2>3. InOrder(w)
    BY <1>2, <2>2
  <2>4. \A v \in Worker \ {w} : InOrder(v)
    BY <1>1, <1>2 DEF OutboxIInv, WorkersInOrder
  <2>5. \A v \in Worker : InOrder(v)
    BY <2>3, <2>4
  <2> QED BY <2>1, <2>5 DEF WorkersInOrder
<1>9. RendersLeft'
  BY <1>1, <1>2, RendersKept
<1>10. CopiesBudgeted'
  BY ClaimBudget DEF CopiesBudgeted
<1> QED BY <1>6, <1>7, <1>8, <1>9, <1>10 DEF OutboxIInv

----------------------------------------------------------------------------
\* The gateway calls.

\* A call that returns adds one copy without a reason and closes the row's
\* open one; a call that throws leaves the row open.
LEMMA HandedIInv ==
    ASSUME OutboxIInv, NEW w \in Worker, NEW r \in Row, worker[w].pc = "send", r \in worker[w].rows,
           NEW n \in Nat, NEW m \in Nat, NEW ok \in BOOLEAN, NEW k \in Nat,
           ok => n = m + 1, ~ok => n = m,
           Handed(w, r, n, m, ok), Trouble(k)
    PROVE  OutboxIInv'
<1>1. /\ worker' = [worker EXCEPT ![w].pc = "complete", ![w].cur = r, ![w].ok = ok, ![w].rows = @ \ {r}]
      /\ given' = [given EXCEPT ![r] = IF n = 0 THEN @ ELSE @ \cup {worker[w].link[r]}]
      /\ surplus' = [surplus EXCEPT ![r] = @ + n - m] /\ UNCHANGED <<row, late, token>>
  BY DEF Handed
<1>2. worker \in [Worker -> WorkerRec] /\ worker[w].link[r] \in Link /\ given \in [Row -> SUBSET Link]
      /\ surplus \in [Row -> Int]
  BY DEF OutboxIInv, OutboxTypeOK, WorkerRec, WorkersInOrder
<1>3. /\ worker' \in [Worker -> WorkerRec] /\ \A v \in Worker \ {w} : worker'[v] = worker[v]
      /\ worker'[w].pc = "complete" /\ worker'[w].cur = r /\ worker'[w].ok = ok
      /\ worker'[w].rows = worker[w].rows \ {r}
  BY <1>1, <1>2 DEF WorkerRec
<1>4. worker[w].cur = "none" /\ r # "none"
  BY OutboxConstants DEF OutboxIInv, WorkersInOrder, ReceiptRows, StaffRows
<1>5. /\ surplus' \in [Row -> Int] /\ \A q \in Row \ {r} : surplus'[q] = surplus[q]
      /\ surplus'[r] = IF ok THEN surplus[r] + 1 ELSE surplus[r]
  <2>1. surplus[r] + n - m = IF ok THEN surplus[r] + 1 ELSE surplus[r]
    BY <1>2
  <2> DEFINE new == surplus[r] + n - m
  <2>2. surplus' = [surplus EXCEPT ![r] = new] /\ new \in Int
    BY <1>1, <1>2
  <2> HIDE DEF new
  <2>3. surplus' \in [Row -> Int] /\ surplus'[r] = new /\ \A q \in Row \ {r} : surplus'[q] = surplus[q]
    BY <1>2, <2>2
  <2> QED BY <2>1, <2>3 DEF new
<1>6. /\ given' \in [Row -> SUBSET Link] /\ \A q \in Row : given[q] \subseteq given'[q]
      /\ ok => given'[r] # {}
  <2> DEFINE new == IF n = 0 THEN given[r] ELSE given[r] \cup {worker[w].link[r]}
  <2>1. /\ given' = [given EXCEPT ![r] = new] /\ new \in SUBSET Link /\ given[r] \subseteq new
        /\ n # 0 => new # {}
    BY <1>1, <1>2
  <2> HIDE DEF new
  <2>2. ok => n # 0
    OBVIOUS
  <2> QED BY <1>2, <2>1, <2>2
<1>7. trouble' \in 0 .. MaxTrouble
  BY TroubleBounded
<1>8. OutboxTypeOK'
  BY <1>1, <1>3, <1>6, <1>7 DEF OutboxIInv, OutboxTypeOK, WorkerRec
<1>9. SentWasDelivered'
  BY <1>1, <1>6 DEF OutboxIInv, SentWasDelivered
<1>10. WorkersInOrder'
  <2> DEFINE InOrder(v) == /\ worker'[v].pc \notin {"send", "complete"} => worker'[v].rows = {}
                           /\ worker'[v].cur \notin worker'[v].rows
                           /\ worker'[v].pc = "complete" <=> worker'[v].cur # "none"
                           /\ worker'[v].pc = "complete" /\ worker'[v].ok => given'[worker'[v].cur] # {}
  <2>1. InOrder(w)
    BY <1>3, <1>4, <1>6
  <2>2. ASSUME NEW v \in Worker \ {w} PROVE InOrder(v)
    <3>1. worker'[v] = worker[v] /\ worker[v].cur \in Row \cup {"none"}
      BY <1>2, <1>3 DEF WorkerRec
    <3> QED BY <1>6, <3>1 DEF OutboxIInv, WorkersInOrder
  <2>3. \A v \in Worker : InOrder(v)
    BY <2>1, <2>2
  <2> QED BY <1>5, <2>3 DEF WorkersInOrder
<1>11. RendersLeft'
  BY <1>1, <1>3, RendersKept
<1>12. RowBudget(r)'
  <2>1. OpenBy(r, w) /\ (OpenBy(r, w)' <=> ~ok)
    BY <1>3 DEF OpenBy
  <2>2. /\ Cardinality(Open(r)) \in Nat
        /\ Cardinality(Open(r)') = IF ok THEN Cardinality(Open(r)) - 1 ELSE Cardinality(Open(r))
    BY <1>3, <2>1, OpenStep
  <2>3. Budget(r)' = Budget(r)
    BY <1>2, <1>5, <2>2 DEF Budget
  <2>4. Held(r)'
    BY <1>3 DEF Held
  <2>5. RowBudget(r)
    BY DEF OutboxIInv, CopiesBudgeted
  <2> QED BY <1>1, <2>3, <2>4, <2>5 DEF RowBudget, Unsent
<1>13. ASSUME NEW q \in Row \ {r} PROVE RowBudget(q)'
  <2>1. q # "none"
    BY OutboxConstants DEF ReceiptRows, StaffRows
  <2> QED BY <1>1, <1>3, <1>4, <1>5, <2>1, Untouched
<1> QED BY <1>8, <1>9, <1>10, <1>11, <1>12, <1>13 DEF OutboxIInv, CopiesBudgeted

LEMMA SendIInv ==
    ASSUME OutboxIInv, NEW w \in Worker, NEW r \in Row, Send(w, r) PROVE OutboxIInv'
<1>1. worker[w].pc = "send" /\ r \in worker[w].rows
  BY DEF Send
<1>2. PICK o \in Outcome : /\ Handed(w, r, Arrived(o), IF o = "lost" THEN 1 ELSE 0, o = "ok")
                           /\ Trouble(Failed(o))
  BY DEF Send
<1>3. CASE o = "ok"
  <2>1. Handed(w, r, 1, 0, TRUE) /\ Trouble(0)
    BY <1>2, <1>3 DEF Arrived, Failed
  <2>2. {0, 1} \subseteq Nat /\ 1 = 0 + 1
    OBVIOUS
  <2> QED BY <1>1, <2>1, <2>2, HandedIInv
<1>4. CASE o = "lost"
  <2>1. Handed(w, r, 1, 1, FALSE) /\ Trouble(1)
    BY <1>2, <1>4 DEF Arrived, Failed
  <2> QED BY <1>1, <2>1, HandedIInv
<1>5. CASE o = "refused"
  <2>1. Handed(w, r, 0, 0, FALSE) /\ Trouble(1)
    BY <1>2, <1>5 DEF Arrived, Failed
  <2> QED BY <1>1, <2>1, HandedIInv
<1> QED BY <1>3, <1>4, <1>5 DEF Outcome

\* The text that goes out by SMS after a WhatsApp call that threw.
LEMMA SendWhatsAppIInv ==
    ASSUME OutboxIInv, NEW w \in Worker, NEW r \in Row, SendWhatsAppOrSms(w, r) PROVE OutboxIInv'
<1>1. worker[w].pc = "send" /\ r \in worker[w].rows
  BY DEF SendWhatsAppOrSms
<1>2. PICK a \in Outcome :
         IF a = "ok" THEN Handed(w, r, 1, 0, TRUE) /\ Trouble(0)
         ELSE \E o \in Outcome : /\ Handed(w, r, Arrived(a) + Arrived(o),
                                           Arrived(a) + (IF o = "lost" THEN 1 ELSE 0), o = "ok")
                                 /\ Trouble(1 + Failed(o))
  BY DEF SendWhatsAppOrSms
<1>3. CASE a = "ok"
  <2>1. Handed(w, r, 1, 0, TRUE) /\ Trouble(0)
    BY <1>2, <1>3
  <2>2. {0, 1} \subseteq Nat /\ 1 = 0 + 1
    OBVIOUS
  <2> QED BY <1>1, <2>1, <2>2, HandedIInv
<1>4. CASE a # "ok"
  <2>1. PICK o \in Outcome : /\ Handed(w, r, Arrived(a) + Arrived(o),
                                       Arrived(a) + (IF o = "lost" THEN 1 ELSE 0), o = "ok")
                             /\ Trouble(1 + Failed(o))
    BY <1>2, <1>4
  <2> DEFINE n == Arrived(a) + Arrived(o)
             m == Arrived(a) + (IF o = "lost" THEN 1 ELSE 0)
             k == 1 + Failed(o)
  <2>2. /\ n \in Nat /\ m \in Nat /\ k \in Nat /\ (o = "ok") \in BOOLEAN
        /\ o = "ok" => n = m + 1
        /\ o # "ok" => n = m
    BY DEF Arrived, Failed, Outcome
  <2>3. Handed(w, r, n, m, o = "ok") /\ Trouble(k)
    BY <2>1
  <2> HIDE DEF n, m, k
  <2>4. CASE o = "ok"
    <3>1. Handed(w, r, n, m, TRUE)
      BY <2>3, <2>4
    <3> QED BY <1>1, <2>2, <2>3, <2>4, <3>1, HandedIInv
  <2>5. CASE o # "ok"
    <3>1. Handed(w, r, n, m, FALSE)
      BY <2>3, <2>5
    <3> QED BY <1>1, <2>2, <2>3, <2>5, <3>1, HandedIInv
  <2> QED BY <2>4, <2>5
<1> QED BY <1>3, <1>4

----------------------------------------------------------------------------
\* Recording a result, or not.

LEMMA Closed ==
    ASSUME OutboxIInv, NEW w \in Worker, \A v \in Worker \ {w} : worker'[v] = worker[v], NEW r \in Row,
           surplus'[r] \in Int, Budget(r)' <= 0
    PROVE  RowBudget(r)'
<1>1. Cardinality(Open(r)') \in Nat
  BY OpenStep
<1>2. Budget(r)' = surplus'[r] + Cardinality(Open(r)')
  BY DEF Budget
<1>3. Budget(r)' <= 1 /\ surplus'[r] <= 0
  BY <1>1, <1>2
<1> QED BY <1>3 DEF RowBudget

\* What remains of a worker that has nothing in hand any more.
LEMMA IdleInOrder ==
    ASSUME OutboxIInv, NEW w \in Worker, worker' \in [Worker -> WorkerRec],
           \A v \in Worker \ {w} : worker'[v] = worker[v],
           worker'[w].pc # "complete", worker'[w].cur = "none", worker'[w].rows \subseteq Row,
           worker'[w].pc # "send" => worker'[w].rows = {},
           surplus' \in [Row -> Int], given' = given
    PROVE  WorkersInOrder'
<1> DEFINE InOrder(v) == /\ worker'[v].pc \notin {"send", "complete"} => worker'[v].rows = {}
                         /\ worker'[v].cur \notin worker'[v].rows
                         /\ worker'[v].pc = "complete" <=> worker'[v].cur # "none"
                         /\ worker'[v].pc = "complete" /\ worker'[v].ok => given'[worker'[v].cur] # {}
<1>1. "none" \notin Row
  BY OutboxConstants DEF ReceiptRows, StaffRows
<1>2. InOrder(w)
  BY <1>1
<1>3. \A v \in Worker \ {w} : InOrder(v)
  BY DEF OutboxIInv, WorkersInOrder
<1>4. \A v \in Worker : InOrder(v)
  BY <1>2, <1>3
<1> QED BY <1>4 DEF WorkersInOrder

\* The worker goes on from the row it had in hand.
LEMMA DoneWorker ==
    ASSUME OutboxIInv, NEW w \in Worker, worker[w].pc = "complete",
           worker' = [worker EXCEPT ![w] = IF @.rows = {} THEN Off
                                           ELSE [@ EXCEPT !.pc = "send", !.cur = "none"]]
    PROVE  /\ worker' \in [Worker -> WorkerRec] /\ \A v \in Worker \ {w} : worker'[v] = worker[v]
           /\ worker'[w].pc \in {"off", "send"} /\ worker'[w].cur = "none"
           /\ worker'[w].rows = worker[w].rows
           /\ worker'[w].pc # "send" => worker'[w].rows = {}
           /\ worker[w].cur \in Row /\ worker[w].cur \notin worker[w].rows
<1> DEFINE next == IF worker[w].rows = {} THEN Off ELSE [worker[w] EXCEPT !.pc = "send", !.cur = "none"]
<1>1. worker \in [Worker -> WorkerRec] /\ 0 \in Link
  BY OutboxConstants DEF OutboxIInv, OutboxTypeOK, WorkerRec, Link
<1>2. worker' = [worker EXCEPT ![w] = next]
  OBVIOUS
<1>3. /\ next \in WorkerRec /\ next.pc \in {"off", "send"} /\ next.rows = worker[w].rows
      /\ next.cur = "none" /\ (next.pc # "send" => next.rows = {})
  <2>1. CASE worker[w].rows = {}
    BY <1>1, <2>1 DEF Off, WorkerRec
  <2>2. CASE worker[w].rows # {}
    BY <1>1, <2>2 DEF WorkerRec
  <2> QED BY <2>1, <2>2
<1> HIDE DEF next
<1>4. worker' \in [Worker -> WorkerRec] /\ worker'[w] = next /\ \A v \in Worker \ {w} : worker'[v] = worker[v]
  BY <1>1, <1>2, <1>3
<1>5. worker[w].cur \in Row /\ worker[w].cur \notin worker[w].rows
  BY <1>1 DEF OutboxIInv, WorkersInOrder, WorkerRec
<1> QED BY <1>3, <1>4, <1>5

\* The row it had in hand is closed, the others stay as they are.
LEMMA DoneBudget ==
    ASSUME OutboxIInv, NEW w \in Worker, NEW r \in Row, worker[w].pc = "complete", worker[w].cur = r,
           worker' = [worker EXCEPT ![w] = IF @.rows = {} THEN Off
                                           ELSE [@ EXCEPT !.pc = "send", !.cur = "none"]],
           \A q \in Row \ {r} : row'[q] = row[q] /\ surplus'[q] = surplus[q],
           \/ worker[w].ok /\ row'[r].status = "sent" /\ surplus'[r] = surplus[r]
           \/ surplus'[r] = surplus[r] - (IF worker[w].ok THEN 1 ELSE 0)
    PROVE  CopiesBudgeted'
<1>1. /\ \A v \in Worker \ {w} : worker'[v] = worker[v]
      /\ worker'[w].cur = "none" /\ worker'[w].rows = worker[w].rows /\ r \notin worker[w].rows
  BY DoneWorker
<1>2. "none" \notin Row
  BY OutboxConstants DEF ReceiptRows, StaffRows
<1>3. (OpenBy(r, w) <=> ~worker[w].ok) /\ ~OpenBy(r, w)'
  BY <1>1, <1>2 DEF OpenBy
<1>4. /\ Cardinality(Open(r)) \in Nat
      /\ Cardinality(Open(r)') = Cardinality(Open(r)) - (IF worker[w].ok THEN 0 ELSE 1)
  BY <1>1, <1>3, OpenStep
<1>5. surplus[r] \in Int /\ RowBudget(r)
  BY DEF OutboxIInv, WorkersInOrder, CopiesBudgeted
<1>6. RowBudget(r)'
  <2>1. CASE worker[w].ok /\ row'[r].status = "sent" /\ surplus'[r] = surplus[r]
    <3>1. Budget(r)' = Budget(r)
      BY <1>4, <2>1 DEF Budget
    <3> QED BY <1>5, <2>1, <3>1 DEF RowBudget, Unsent
  <2>2. CASE surplus'[r] = surplus[r] - (IF worker[w].ok THEN 1 ELSE 0)
    <3>1. Budget(r)' <= 0 /\ surplus'[r] \in Int
      BY <1>4, <1>5, <2>2 DEF RowBudget, Budget
    <3> QED BY <1>1, <3>1, Closed
  <2> QED BY <2>1, <2>2
<1>7. ASSUME NEW q \in Row \ {r} PROVE RowBudget(q)'
  BY <1>1, <1>2, Untouched
<1> QED BY <1>6, <1>7 DEF CopiesBudgeted

LEMMA CompleteIInv ==
    ASSUME OutboxIInv, NEW w \in Worker, Complete(w) PROVE OutboxIInv'
<1> DEFINE r == worker[w].cur
<1>1. /\ worker[w].pc = "complete" /\ row' = [row EXCEPT ![r] = Recorded(r, worker[w].ok)]
      /\ late' = late \ {r} /\ UNCHANGED <<token, given, surplus, trouble>>
      /\ worker' = [worker EXCEPT ![w] = IF @.rows = {} THEN Off
                                         ELSE [@ EXCEPT !.pc = "send", !.cur = "none"]]
  BY DEF Complete
<1>2. /\ worker' \in [Worker -> WorkerRec] /\ \A v \in Worker \ {w} : worker'[v] = worker[v]
      /\ worker'[w].pc \in {"off", "send"} /\ worker'[w].cur = "none"
      /\ worker'[w].rows = worker[w].rows
      /\ worker'[w].pc # "send" => worker'[w].rows = {}
      /\ r \in Row
  BY <1>1, DoneWorker
<1>3. row \in [Row -> RowRec] /\ worker[w].rows \subseteq Row /\ worker[w].ok \in BOOLEAN
  BY DEF OutboxIInv, OutboxTypeOK, RowRec
<1>4. PICK q \in Row : q = r
  BY <1>2
<1> HIDE DEF r
<1>5. /\ row' \in [Row -> RowRec] /\ \A s \in Row \ {q} : row'[s] = row[s]
      /\ row'[q].link = row[q].link
      /\ worker[w].ok => row'[q].status = "sent"
      /\ ~worker[w].ok /\ row'[q].status = "sent" => row[q].status = "sent"
  <2> DEFINE new == Recorded(q, worker[w].ok)
  <2>1. row[q] \in RowRec
    BY <1>3
  <2>2. /\ new \in RowRec /\ new.link = row[q].link
        /\ worker[w].ok => new.status = "sent"
        /\ ~worker[w].ok /\ new.status = "sent" => row[q].status = "sent"
    BY <2>1 DEF Recorded, RowRec
  <2>3. row' = [row EXCEPT ![q] = new]
    BY <1>1, <1>4
  <2> HIDE DEF new
  <2> QED BY <1>3, <2>2, <2>3
<1>6. OutboxTypeOK'
  <2>1. late' \subseteq {s \in Row : row'[s].status = "sending"}
    BY <1>1, <1>4, <1>5 DEF OutboxIInv, OutboxTypeOK
  <2>2. \A s \in Row : row'[s].link <= token'
    BY <1>1, <1>5 DEF OutboxIInv, OutboxTypeOK
  <2> QED BY <1>1, <1>2, <1>5, <2>1, <2>2 DEF OutboxIInv, OutboxTypeOK, WorkerRec, RowRec
<1>7. SentWasDelivered'
  <2>1. worker[w].ok => given[q] # {}
    BY <1>1, <1>4 DEF OutboxIInv, WorkersInOrder, r
  <2> QED BY <1>1, <1>3, <1>5, <2>1 DEF OutboxIInv, SentWasDelivered
<1>8. surplus' \in [Row -> Int]
  BY <1>1 DEF OutboxIInv, WorkersInOrder
<1>9. WorkersInOrder'
  BY <1>1, <1>2, <1>3, <1>8, IdleInOrder
<1>10. RendersLeft'
  BY <1>1, <1>2, RendersKept
<1>11. CopiesBudgeted'
  <2>1. \/ worker[w].ok /\ row'[q].status = "sent" /\ surplus'[q] = surplus[q]
        \/ surplus'[q] = surplus[q] - (IF worker[w].ok THEN 1 ELSE 0)
    <3>1. surplus' = surplus /\ surplus[q] \in Int
      BY <1>1 DEF OutboxIInv, WorkersInOrder
    <3> QED BY <1>5, <3>1
  <2>2. worker[w].cur = q /\ \A s \in Row \ {q} : row'[s] = row[s] /\ surplus'[s] = surplus[s]
    BY <1>1, <1>4, <1>5 DEF r
  <2> QED BY <1>1, <2>1, <2>2, DoneBudget
<1> QED BY <1>6, <1>7, <1>9, <1>10, <1>11 DEF OutboxIInv

\* A success whose record is lost is a reason for one more copy.
LEMMA CompleteFailsIInv ==
    ASSUME OutboxIInv, NEW w \in Worker, CompleteFails(w) PROVE OutboxIInv'
<1> DEFINE r == worker[w].cur
<1>1. /\ worker[w].pc = "complete" /\ Trouble(1) /\ UNCHANGED <<row, late, token, given>>
      /\ surplus' = [surplus EXCEPT ![r] = IF worker[w].ok THEN @ - 1 ELSE @]
      /\ worker' = [worker EXCEPT ![w] = IF @.rows = {} THEN Off
                                         ELSE [@ EXCEPT !.pc = "send", !.cur = "none"]]
  BY DEF CompleteFails
<1>2. /\ worker' \in [Worker -> WorkerRec] /\ \A v \in Worker \ {w} : worker'[v] = worker[v]
      /\ worker'[w].pc \in {"off", "send"} /\ worker'[w].cur = "none"
      /\ worker'[w].rows = worker[w].rows
      /\ worker'[w].pc # "send" => worker'[w].rows = {}
      /\ r \in Row
  BY <1>1, DoneWorker
<1>3. worker[w].rows \subseteq Row /\ surplus \in [Row -> Int]
  BY DEF OutboxIInv, OutboxTypeOK, WorkersInOrder
<1>4. PICK q \in Row : q = r
  BY <1>2
<1> HIDE DEF r
<1>5. /\ surplus' \in [Row -> Int] /\ \A s \in Row \ {q} : surplus'[s] = surplus[s]
      /\ surplus'[q] = surplus[q] - (IF worker[w].ok THEN 1 ELSE 0)
  <2> DEFINE new == IF worker[w].ok THEN surplus[q] - 1 ELSE surplus[q]
  <2>1. /\ surplus' = [surplus EXCEPT ![q] = new] /\ new \in Int
        /\ new = surplus[q] - (IF worker[w].ok THEN 1 ELSE 0)
    BY <1>1, <1>3, <1>4
  <2> HIDE DEF new
  <2> QED BY <1>3, <2>1
<1>6. trouble' \in 0 .. MaxTrouble
  BY <1>1, TroubleBounded
<1>7. OutboxTypeOK' /\ SentWasDelivered'
  BY <1>1, <1>2, <1>6 DEF OutboxIInv, OutboxTypeOK, SentWasDelivered, WorkerRec
<1>8. WorkersInOrder'
  BY <1>1, <1>2, <1>3, <1>5, IdleInOrder
<1>9. RendersLeft'
  BY <1>1, <1>2, RendersKept
<1>10. CopiesBudgeted'
  <2>1. worker[w].cur = q /\ \A s \in Row \ {q} : row'[s] = row[s] /\ surplus'[s] = surplus[s]
    BY <1>1, <1>4, <1>5 DEF r
  <2> QED BY <1>1, <1>5, <2>1, DoneBudget
<1> QED BY <1>7, <1>8, <1>9, <1>10 DEF OutboxIInv

----------------------------------------------------------------------------
\* Deaths, and time.

\* A row whose worker dies is closed; if it had been delivered there is a
\* reason for one more copy.
LEMMA DieBudget ==
    ASSUME OutboxIInv, NEW w \in Worker, Die(w), NEW r \in Row,
           worker'[w] = Off, \A v \in Worker \ {w} : worker'[v] = worker[v]
    PROVE  RowBudget(r)' /\ surplus' \in [Row -> Int]
<1>1. /\ surplus \in [Row -> Int] /\ RowBudget(r)
      /\ worker[w].cur \notin worker[w].rows /\ (worker[w].pc = "complete" <=> worker[w].cur # "none")
      /\ worker[w].cur \in Row \cup {"none"}
  BY DEF OutboxIInv, OutboxTypeOK, WorkersInOrder, CopiesBudgeted
<1>2. "none" \notin Row
  BY OutboxConstants DEF ReceiptRows, StaffRows
<1>3. /\ surplus' = IF worker[w].pc = "complete" /\ worker[w].ok
                    THEN [surplus EXCEPT ![worker[w].cur] = @ - 1] ELSE surplus
      /\ row' = row
  BY DEF Die
<1>4. surplus' \in [Row -> Int]
  <2>1. CASE worker[w].pc = "complete" /\ worker[w].ok
    <3>1. surplus' = [surplus EXCEPT ![worker[w].cur] = @ - 1] /\ worker[w].cur \in Row
      BY <1>1, <1>3, <2>1
    <3> QED BY <1>1, <3>1
  <2>2. CASE ~(worker[w].pc = "complete" /\ worker[w].ok)
    BY <1>1, <1>3, <2>2
  <2> QED BY <2>1, <2>2
<1>5. surplus'[r] = IF worker[w].cur = r /\ worker[w].ok THEN surplus[r] - 1 ELSE surplus[r]
  <2>1. CASE worker[w].pc = "complete" /\ worker[w].ok
    BY <1>1, <1>3, <2>1
  <2>2. CASE ~(worker[w].pc = "complete" /\ worker[w].ok)
    BY <1>1, <1>2, <1>3, <2>2
  <2> QED BY <2>1, <2>2
<1>6. ~OpenBy(r, w)' /\ Off.rows = {} /\ Off.cur = "none"
  BY <1>2 DEF OpenBy, Off
<1>7. /\ Cardinality(Open(r)) \in Nat
      /\ Cardinality(Open(r)') = IF OpenBy(r, w) THEN Cardinality(Open(r)) - 1 ELSE Cardinality(Open(r))
  BY <1>6, OpenStep
<1>8. RowBudget(r)'
  <2>1. CASE r \in worker[w].rows \/ worker[w].cur = r
    <3>1. OpenBy(r, w) <=> ~(worker[w].cur = r /\ worker[w].ok)
      BY <1>1, <2>1 DEF OpenBy
    <3>2. Budget(r)' <= 0 /\ surplus'[r] \in Int
      BY <1>1, <1>5, <1>7, <3>1 DEF RowBudget, Budget
    <3> QED BY <3>2, Closed
  <2>2. CASE r \notin worker[w].rows /\ worker[w].cur # r
    <3>1. surplus'[r] = surplus[r] /\ row'[r].status = row[r].status
      BY <1>3, <1>5, <2>2
    <3>2. /\ r \in worker'[w].rows <=> r \in worker[w].rows
          /\ worker'[w].cur = r <=> worker[w].cur = r
      BY <1>2, <1>6, <2>2
    <3> QED BY <2>2, <3>1, <3>2, Untouched
  <2> QED BY <2>1, <2>2
<1> QED BY <1>4, <1>8

LEMMA DieIInv ==
    ASSUME OutboxIInv, NEW w \in Worker, Die(w) PROVE OutboxIInv'
<1>1. worker' = [worker EXCEPT ![w] = Off] /\ Trouble(1) /\ UNCHANGED <<row, late, token, given>>
  BY DEF Die
<1>2. worker \in [Worker -> WorkerRec] /\ 0 \in Link
  BY OutboxConstants DEF OutboxIInv, OutboxTypeOK, WorkerRec, Link
<1>3. /\ Off \in WorkerRec /\ Off.pc = "off" /\ Off.rows = {} /\ Off.cur = "none"
  BY <1>2 DEF Off, WorkerRec
<1>4. /\ worker' \in [Worker -> WorkerRec] /\ \A v \in Worker \ {w} : worker'[v] = worker[v]
      /\ worker'[w] = Off
  BY <1>1, <1>2, <1>3
<1>5. trouble' \in 0 .. MaxTrouble
  BY <1>1, TroubleBounded
<1>6. OutboxTypeOK' /\ SentWasDelivered'
  BY <1>1, <1>4, <1>5 DEF OutboxIInv, OutboxTypeOK, SentWasDelivered, WorkerRec
<1>7. surplus' \in [Row -> Int]
  <2>1. surplus \in [Row -> Int]
    BY DEF OutboxIInv, WorkersInOrder
  <2>2. CASE Row = {}
    <3>1. worker[w].cur = "none"
      BY <2>2 DEF OutboxIInv, OutboxTypeOK
    <3>2. worker[w].pc # "complete"
      BY <3>1 DEF OutboxIInv, WorkersInOrder
    <3> QED BY <2>1, <3>2 DEF Die
  <2>3. CASE Row # {}
    BY <1>4, <2>3, DieBudget
  <2> QED BY <2>2, <2>3
<1>8. WorkersInOrder'
  BY <1>1, <1>3, <1>4, <1>7, IdleInOrder
<1>9. RendersLeft'
  BY <1>1, <1>3, <1>4, RendersKept
<1>10. CopiesBudgeted'
  BY <1>4, DieBudget DEF CopiesBudgeted
<1> QED BY <1>6, <1>8, <1>9, <1>10 DEF OutboxIInv

LEMMA AgeIInv ==
    ASSUME OutboxIInv, NEW r \in Row, Age(r) PROVE OutboxIInv'
<1>1. /\ row[r].status = "sending" /\ late' = late \cup {r}
      /\ UNCHANGED <<row, token, worker, given, surplus>>
  BY DEF Age
<1>2. trouble' \in 0 .. MaxTrouble
  <2> DEFINE n == IF \E w \in Worker : r \in worker[w].rows \/ worker[w].cur = r THEN 1 ELSE 0
  <2>1. n \in Nat /\ Trouble(n)
    BY DEF Age
  <2> HIDE DEF n
  <2> QED BY <2>1, TroubleBounded
<1>3. OutboxTypeOK'
  BY <1>1, <1>2 DEF OutboxIInv, OutboxTypeOK
<1>4. SentWasDelivered' /\ WorkersInOrder'
  BY <1>1 DEF OutboxIInv, SentWasDelivered, WorkersInOrder
<1>5. RendersLeft'
  BY <1>1 DEF OutboxIInv, RendersLeft, Rendering
<1>6. CopiesBudgeted'
  BY <1>1 DEF OutboxIInv, CopiesBudgeted, RowBudget, Budget, Open, OpenBy, Held, Unsent
<1> QED BY <1>3, <1>4, <1>5, <1>6 DEF OutboxIInv

----------------------------------------------------------------------------

LEMMA OutboxInitIInv ==
    ASSUME OutboxInit PROVE OutboxIInv
<1>1. /\ row = [r \in Row |-> [status |-> "pending", attempts |-> 0, link |-> 0]]
      /\ late = {} /\ token = 0 /\ worker = [w \in Worker |-> Off]
      /\ given = [r \in Row |-> {}] /\ surplus = [r \in Row |-> 0] /\ trouble = 0
  BY DEF OutboxInit
<1>2. 0 \in Link /\ {MaxAttempts, MaxRenders, MaxTrouble} \subseteq Nat
  BY OutboxConstants DEF Link
<1>3. "none" \notin Row
  BY OutboxConstants DEF ReceiptRows, StaffRows
<1>4. OutboxTypeOK
  BY <1>1, <1>2 DEF OutboxTypeOK, Off
<1>5. SentWasDelivered /\ WorkersInOrder
  BY <1>1, <1>3 DEF SentWasDelivered, WorkersInOrder, Off
<1>6. RendersLeft
  <2>1. Rendering = {}
    BY <1>1 DEF Rendering, Off
  <2> QED BY <1>1, <1>2, <2>1, FS_EmptySet DEF RendersLeft
<1>7. ASSUME NEW r \in Row PROVE RowBudget(r)
  <2>1. Cardinality(Open(r)) = 0
    BY <1>1, <1>3, Unheld DEF Held, Off
  <2> QED BY <1>1, <2>1 DEF RowBudget, Budget
<1> QED BY <1>4, <1>5, <1>6, <1>7 DEF OutboxIInv, CopiesBudgeted

LEMMA OutboxNextIInv ==
    ASSUME OutboxIInv, [OutboxNext]_outboxVars PROVE OutboxIInv'
<1>1. ASSUME NEW w \in Worker, StartReceipts(w) PROVE OutboxIInv'
  BY <1>1, StartIInv
<1>2. ASSUME NEW w \in Worker, RenderPdf(w) PROVE OutboxIInv'
  BY <1>2, RenderIInv
<1>3. ASSUME NEW w \in Worker, RenderFails(w) PROVE OutboxIInv'
  BY <1>3, RenderFailsIInv
<1>4. ASSUME NEW w \in Worker, ClaimReceipts(w) PROVE OutboxIInv'
  <2>1. /\ worker[w].pc \in {"receipts", "off"} /\ Claim(w, Row \cap ReceiptRows)
        /\ Row \cap ReceiptRows \in SUBSET Row
    BY <1>4 DEF ClaimReceipts
  <2> QED BY <2>1, ClaimIInv
<1>5. ASSUME NEW w \in Worker, ClaimStaff(w) PROVE OutboxIInv'
  <2>1. /\ worker[w].pc \in {"receipts", "off"} /\ Claim(w, Row \cap StaffRows)
        /\ Row \cap StaffRows \in SUBSET Row
    BY <1>5 DEF ClaimStaff
  <2> QED BY <2>1, ClaimIInv
<1>6. ASSUME NEW w \in Worker, NEW r \in Row, Send(w, r) PROVE OutboxIInv'
  BY <1>6, SendIInv
<1>7. ASSUME NEW w \in Worker, NEW r \in Row, SendWhatsAppOrSms(w, r) PROVE OutboxIInv'
  BY <1>7, SendWhatsAppIInv
<1>8. ASSUME NEW w \in Worker, Complete(w) PROVE OutboxIInv'
  BY <1>8, CompleteIInv
<1>9. ASSUME NEW w \in Worker, CompleteFails(w) PROVE OutboxIInv'
  BY <1>9, CompleteFailsIInv
<1>10. ASSUME NEW w \in Worker, Die(w) PROVE OutboxIInv'
  BY <1>10, DieIInv
<1>11. ASSUME NEW r \in Row, Age(r) PROVE OutboxIInv'
  BY <1>11, AgeIInv
<1>12. CASE UNCHANGED outboxVars
  BY <1>12 DEF outboxVars, OutboxIInv, OutboxTypeOK, SentWasDelivered, WorkersInOrder, RendersLeft,
               Rendering, CopiesBudgeted, RowBudget, Budget, Open, OpenBy, Held, Unsent
<1> QED BY <1>1, <1>2, <1>3, <1>4, <1>5, <1>6, <1>7, <1>8, <1>9, <1>10, <1>11, <1>12 DEF OutboxNext

THEOREM OutboxInvariant == OutboxSpec => []OutboxIInv
<1>1. OutboxInit => OutboxIInv
  BY OutboxInitIInv
<1>2. OutboxIInv /\ [OutboxNext]_outboxVars => OutboxIInv'
  BY OutboxNextIInv
<1> QED BY <1>1, <1>2, PTL DEF OutboxSpec

\* A row is 'sent' only when its message reached the customer, and nobody gets
\* a second copy without a lost answer, a death or a lapsed lease for it:
\* whatever two workers do to the same row, in any order.
THEOREM OutboxSafe == OutboxSpec => [](OutboxTypeOK /\ SentWasDelivered /\ RepeatedForReason)
<1>1. OutboxIInv => OutboxTypeOK /\ SentWasDelivered /\ RepeatedForReason
  <2> SUFFICES ASSUME OutboxIInv, NEW r \in Row PROVE surplus[r] <= 1
    BY DEF OutboxIInv, RepeatedForReason
  <2>1. Open(r) \in SUBSET Worker
    BY DEF Open
  <2>2. Cardinality(Open(r)) \in Nat
    BY <2>1, OutboxConstants, FS_Subset, FS_CardinalityType
  <2>3. surplus[r] \in Int /\ surplus[r] + Cardinality(Open(r)) <= 1
    BY DEF OutboxIInv, WorkersInOrder, CopiesBudgeted, RowBudget, Budget
  <2> QED BY <2>2, <2>3
<1> QED BY <1>1, OutboxInvariant, PTL

\* A claim takes no row that is 'sent', and the late failure of a slow worker
\* does not reopen one that another worker has sent.
THEOREM SentStaysSent == OutboxSpec => SentIsFinal
<1> DEFINE Stays == \A r \in Row : row[r].status = "sent" => row'[r].status = "sent"
<1>1. OutboxIInv /\ [OutboxNext]_outboxVars => [Stays]_outboxVars
  <2> SUFFICES ASSUME OutboxIInv, OutboxNext, NEW r \in Row, row[r].status = "sent"
               PROVE  row'[r].status = "sent"
    BY DEF OutboxIInv
  <2>1. ASSUME NEW w \in Worker, RenderPdf(w) PROVE row'[r].status = "sent"
    BY <2>1 DEF RenderPdf, Unsent
  <2>2. ASSUME NEW w \in Worker, NEW mine \in SUBSET Row, Claim(w, mine) PROVE row'[r].status = "sent"
    <3>1. ~Claimable(r) /\ r \notin Reclaimed(mine)
      BY DEF Claimable, Reclaimed, Unsent, OutboxIInv, OutboxTypeOK
    <3>2. row'[r] = row[r]
      BY <2>2, <3>1 DEF Claim
    <3> QED BY <3>2
  <2>3. ASSUME NEW w \in Worker, Complete(w) PROVE row'[r].status = "sent"
    <3>1. row \in [Row -> RowRec]
      BY DEF OutboxIInv, OutboxTypeOK, RowRec
    <3>2. row' = [row EXCEPT ![worker[w].cur] = Recorded(worker[w].cur, worker[w].ok)]
      BY <2>3 DEF Complete
    <3> QED BY <3>1, <3>2 DEF Recorded
  <2>4. ASSUME NEW w \in Worker, ClaimReceipts(w) \/ ClaimStaff(w) PROVE row'[r].status = "sent"
    <3>1. Row \cap ReceiptRows \in SUBSET Row /\ Row \cap StaffRows \in SUBSET Row
      OBVIOUS
    <3> QED BY <2>2, <2>4, <3>1 DEF ClaimReceipts, ClaimStaff
  <2>5. ASSUME NEW w \in Worker, StartReceipts(w) \/ RenderFails(w) \/ CompleteFails(w) \/ Die(w)
        PROVE  row' = row
    BY <2>5 DEF StartReceipts, RenderFails, CompleteFails, Die
  <2>6. ASSUME NEW w \in Worker, NEW q \in Row, Send(w, q) \/ SendWhatsAppOrSms(w, q)
        PROVE  row' = row
    BY <2>6 DEF Send, SendWhatsAppOrSms, Handed
  <2>7. ASSUME NEW q \in Row, Age(q) PROVE row' = row
    BY <2>7 DEF Age
  <2> QED BY <2>1, <2>3, <2>4, <2>5, <2>6, <2>7 DEF OutboxNext
<1> QED BY <1>1, OutboxInvariant, PTL DEF OutboxSpec, SentIsFinal
=============================================================================
