----------------------- MODULE DeliveryDispatchProofs -----------------------
(***************************************************************************)
(* Proofs about DeliveryDispatch, for any finite set of jobs and any       *)
(* drivers, cycles, capacities and number of attempts.                     *)
(***************************************************************************)
EXTENDS DeliveryDispatch, FiniteSetTheorems, TLAPS

\* A driver whom an open transaction is about to write has room for the job,
\* unless what the transaction read has changed since.
RoomAhead ==
    \A j \in Job, d \in Driver : flight[j] = d /\ j \notin stale => OpenJobs(d) < capacity[d]

\* A transaction is open only on a job that is not finished; a job that is not
\* yet open has no driver.
JobsInOrder ==
    \A j \in Job : /\ flight[j] # NoDriver => job[j].status \in {"new", "open"}
                   /\ job[j].status \in {"none", "new"} => job[j].assignee = NoDriver

\* The job a cycle works on, the driver it asks, and the row it holds.
CyclesInOrder ==
    \A c \in Cycle :
        /\ cycle[c].pc \notin Ended \cup {"unborn"} =>
              cycle[c].job \in Job /\ job[cycle[c].job].status \in {"open", "closed"}
        /\ cycle[c].pc \in {"offered", "assign", "commit"} => cycle[c].cur \in Driver
        /\ cycle[c].pc = "commit" => flight[cycle[c].job] = cycle[c].cur
        /\ \A e \in Cycle \ {c} :
              (cycle[c].pc \in {"commit", "queued"} /\ cycle[e].pc \in {"commit", "queued"})
                 => cycle[c].job # cycle[e].job

\* The override form is open for a job that was inserted.
DeskInOrder == desk # NoJob => job[desk].status \in {"open", "closed"}

\* A transaction that is about to give away a job with a driver is one in
\* which another driver accepted it.
AutoTakesFree ==
    \A j \in Job : (flight[j] # NoDriver /\ job[j].assignee # NoDriver)
                      => \E c \in Cycle : At(c, "commit") /\ cycle[c].job = j

DispatchIInv ==
    /\ DispatchTypeOK
    /\ RoomAhead /\ JobsInOrder /\ CyclesInOrder /\ DeskInOrder /\ AutoTakesFree

----------------------------------------------------------------------------
\* Counting open jobs.

LEMMA SetGrows ==
    ASSUME NEW S \in SUBSET Job, NEW T \in SUBSET Job, NEW j \in Job
    PROVE  /\ Cardinality(S) \in Nat
           /\ T \subseteq S => Cardinality(T) <= Cardinality(S)
           /\ T \subseteq S \cup {j} => Cardinality(T) <= Cardinality(S) + 1
<1>1. IsFiniteSet(S) /\ IsFiniteSet(T)
  BY FS_Subset, DispatchConstants
<1>2. Cardinality(S) \in Nat /\ Cardinality(T) \in Nat
  BY <1>1, FS_CardinalityType
<1>3. T \subseteq S => Cardinality(T) <= Cardinality(S)
  BY <1>1, FS_Subset
<1>4. ASSUME T \subseteq S \cup {j} PROVE Cardinality(T) <= Cardinality(S) + 1
  <2>1. IsFiniteSet(S \cup {j}) /\ Cardinality(S \cup {j}) <= Cardinality(S) + 1
    <3>1. Cardinality(S \cup {j}) = IF j \in S THEN Cardinality(S) ELSE Cardinality(S) + 1
      BY <1>1, FS_AddElement
    <3>2. IsFiniteSet(S \cup {j})
      BY <1>1, FS_AddElement
    <3> QED BY <1>2, <3>1, <3>2
  <2>2. Cardinality(S \cup {j}) \in Nat
    BY <2>1, FS_CardinalityType
  <2>3. Cardinality(T) <= Cardinality(S \cup {j})
    BY <1>4, <2>1, FS_Subset
  <2> QED BY <1>2, <2>1, <2>2, <2>3
<1> QED BY <1>2, <1>3, <1>4

LEMMA CountNat == ASSUME NEW d PROVE OpenJobs(d) \in Nat
<1> DEFINE S == {k \in Job : job[k].assignee = d /\ job[k].status = "open"}
<1>1. IsFiniteSet(S)
  BY FS_Subset, DispatchConstants
<1> QED BY <1>1, FS_CardinalityType DEF OpenJobs

\* A step that gives the driver no job, or no job but j.
LEMMA NoneMore ==
    ASSUME NEW d, NEW j \in Job,
           \A k \in Job : (job'[k].assignee = d /\ job'[k].status = "open")
                             => (job[k].assignee = d /\ job[k].status = "open")
    PROVE  OpenJobs(d) \in Nat /\ OpenJobs(d)' \in Nat /\ OpenJobs(d)' <= OpenJobs(d)
<1> DEFINE S == {k \in Job : job[k].assignee = d /\ job[k].status = "open"}
           T == {k \in Job : job'[k].assignee = d /\ job'[k].status = "open"}
<1>1. S \in SUBSET Job /\ T \in SUBSET Job /\ T \subseteq S
  OBVIOUS
<1>2. OpenJobs(d) = Cardinality(S) /\ OpenJobs(d)' = Cardinality(T)
  BY DEF OpenJobs
<1> HIDE DEF S, T
<1> QED BY <1>1, <1>2, SetGrows

LEMMA OneMore ==
    ASSUME NEW d, NEW j \in Job,
           \A k \in Job \ {j} : (job'[k].assignee = d /\ job'[k].status = "open")
                                   => (job[k].assignee = d /\ job[k].status = "open")
    PROVE  OpenJobs(d) \in Nat /\ OpenJobs(d)' \in Nat /\ OpenJobs(d)' <= OpenJobs(d) + 1
<1> DEFINE S == {k \in Job : job[k].assignee = d /\ job[k].status = "open"}
           T == {k \in Job : job'[k].assignee = d /\ job'[k].status = "open"}
<1>1. S \in SUBSET Job /\ T \in SUBSET Job /\ T \subseteq S \cup {j}
  OBVIOUS
<1>2. OpenJobs(d) = Cardinality(S) /\ OpenJobs(d)' = Cardinality(T)
  BY DEF OpenJobs
<1> HIDE DEF S, T
<1> QED BY <1>1, <1>2, SetGrows

----------------------------------------------------------------------------
\* The cycles' records.

CycleRec == [pc : {"unborn", "list", "offered", "assign", "commit", "queue", "queued"} \cup Ended,
             job : Job \cup {NoJob}, cands : SUBSET Driver, tried : SUBSET Driver,
             cur : Driver \cup {NoDriver}, attempts : 0 .. MaxAttempts - 1]

\* What a cycle's record must say of the job it works on and the driver it
\* asks; a record in "commit" or "queued" holds a row besides.
Proper(r) ==
    /\ r \in CycleRec
    /\ r.pc \notin Ended \cup {"unborn"} => r.job \in Job /\ job[r.job].status \in {"open", "closed"}
    /\ r.pc \in {"offered", "assign", "commit"} => r.cur \in Driver

LEMMA CycleProper == ASSUME DispatchIInv, NEW c \in Cycle PROVE Proper(cycle[c])
BY DEF DispatchIInv, DispatchTypeOK, CyclesInOrder, Proper, CycleRec

LEMMA UnbornProper ==
    ASSUME NEW pc \in {"unborn", "queue"} \cup Ended, NEW j \in Job \cup {NoJob},
           pc = "queue" => j \in Job /\ job[j].status \in {"open", "closed"}
    PROVE  /\ Proper([Unborn EXCEPT !.pc = pc, !.job = j])
           /\ [Unborn EXCEPT !.pc = pc, !.job = j].pc = pc
           /\ Proper([Unborn EXCEPT !.pc = pc]) \/ pc = "queue"
           /\ [Unborn EXCEPT !.pc = pc].pc = pc
<1>1. Unborn \in CycleRec /\ Unborn.pc = "unborn"
  BY DispatchConstants DEF Unborn, CycleRec
<1> HIDE DEF Unborn
<1> QED BY <1>1 DEF Proper, CycleRec, Ended

\* A cycle moves without holding a row, and nothing else changes.
LEMMA CycleMoves ==
    ASSUME DispatchIInv, NEW c \in Cycle, NEW r, Proper(r),
           cycle' = [cycle EXCEPT ![c] = r], r.pc \notin {"commit", "queued"},
           cycle[c].pc # "commit",
           UNCHANGED <<job, flight, onDuty, capacity, desk, stale>>, events' \in 0 .. MaxEvents
    PROVE  DispatchIInv'
<1> USE DEF DispatchIInv
<1>1. DispatchTypeOK'
  BY DEF DispatchTypeOK, Proper, CycleRec
<1>2. CyclesInOrder'
  BY DEF DispatchTypeOK, CyclesInOrder, Proper, CycleRec
<1>3. AutoTakesFree'
  BY DEF DispatchTypeOK, AutoTakesFree, At
<1> QED
  BY <1>1, <1>2, <1>3 DEF RoomAhead, OpenJobs, JobsInOrder, DeskInOrder

\* A failed activity leaves the cycle where it is, or ends it.
LEMMA FailsMoves ==
    ASSUME DispatchIInv, NEW c \in Cycle, Fails(c)
    PROVE  \E r : Proper(r) /\ cycle' = [cycle EXCEPT ![c] = r] /\ r.pc \in {cycle[c].pc, "error"}
<1>1. CASE c = "workflow" /\ cycle[c].attempts < MaxAttempts - 1
  <2> DEFINE r == [cycle[c] EXCEPT !.attempts = @ + 1]
  <2>1. cycle' = [cycle EXCEPT ![c] = r]
    BY <1>1 DEF Fails
  <2>2. Proper(cycle[c])
    BY CycleProper
  <2>3. cycle[c].attempts + 1 \in 0 .. MaxAttempts - 1
    BY <1>1, <2>2, DispatchConstants DEF Proper, CycleRec
  <2>4. Proper(r) /\ r.pc = cycle[c].pc
    BY <2>2, <2>3 DEF Proper, CycleRec
  <2> QED BY <2>1, <2>4
<1>2. CASE ~(c = "workflow" /\ cycle[c].attempts < MaxAttempts - 1)
  <2>1. cycle' = [cycle EXCEPT ![c] = [Unborn EXCEPT !.pc = "error"]]
    BY <1>2 DEF Fails, Ends
  <2> QED BY <2>1, UnbornProper DEF Ended
<1> QED BY <1>1, <1>2

\* The cycle's next driver is one of the list, which holds drivers.
LEMMA SelectMoves ==
    ASSUME DispatchIInv, NEW c \in Cycle, cycle[c].pc \in {"list", "offered"},
           NEW cands \in SUBSET Driver, NEW tried \in SUBSET Driver, SelectNext(c, cands, tried)
    PROVE  \E r : Proper(r) /\ cycle' = [cycle EXCEPT ![c] = r] /\ r.pc \in {"queue", "offered"}
<1>1. Proper(cycle[c]) /\ cycle[c].job \in Job /\ job[cycle[c].job].status \in {"open", "closed"}
  BY CycleProper DEF Proper, Ended
<1>2. CASE cands \subseteq tried
  <2> DEFINE r == [Unborn EXCEPT !.pc = "queue", !.job = cycle[c].job]
  <2>1. Proper(r) /\ r.pc = "queue"
    BY <1>1, UnbornProper
  <2>2. cycle' = [cycle EXCEPT ![c] = r]
    BY <1>2 DEF SelectNext
  <2> QED BY <2>1, <2>2
<1>3. CASE ~(cands \subseteq tried)
  <2>1. PICK d \in cands \ tried :
          cycle' = [cycle EXCEPT ![c] = [@ EXCEPT !.pc = "offered", !.cur = d, !.cands = cands,
                                                  !.tried = tried, !.attempts = 0]]
    BY <1>3 DEF SelectNext
  <2> DEFINE r == [cycle[c] EXCEPT !.pc = "offered", !.cur = d, !.cands = cands,
                                   !.tried = tried, !.attempts = 0]
  <2>2. Proper(r) /\ r.pc = "offered"
    <3>1. 0 \in 0 .. MaxAttempts - 1 /\ d \in Driver /\ cycle[c] \in CycleRec
      BY <1>1, <2>1, DispatchConstants DEF Proper
    <3>2. r \in CycleRec /\ r.pc = "offered" /\ r.job = cycle[c].job /\ r.cur = d
      BY <3>1 DEF CycleRec
    <3> QED BY <1>1, <3>1, <3>2 DEF Proper
  <2>3. cycle' = [cycle EXCEPT ![c] = r]
    BY <2>1
  <2> QED BY <2>2, <2>3
<1> QED BY <1>2, <1>3

LEMMA StartIInv ==
    ASSUME DispatchIInv, NEW c \in Cycle, NEW j \in Job, StartCycle(c, j) PROVE DispatchIInv'
<1> DEFINE r == [cycle[c] EXCEPT !.pc = "list", !.job = j]
<1>1. Proper(r) /\ r.pc = "list"
  BY CycleProper DEF StartCycle, Visible, Proper, CycleRec
<1>2. cycle' = [cycle EXCEPT ![c] = r] /\ cycle[c].pc # "commit"
  BY DEF StartCycle, At
<1>3. UNCHANGED <<job, flight, onDuty, capacity, desk, stale>> /\ events' \in 0 .. MaxEvents
  BY DEF StartCycle, DispatchIInv, DispatchTypeOK
<1> QED BY <1>1, <1>2, <1>3, CycleMoves

\* An event is counted up to the bound.
LEMMA EventBounded ==
    ASSUME DispatchIInv, Event \/ UNCHANGED events PROVE events' \in 0 .. MaxEvents
BY DispatchConstants DEF DispatchIInv, DispatchTypeOK, Event

LEMMA ListIInv ==
    ASSUME DispatchIInv, NEW c \in Cycle, ListDrivers(c) PROVE DispatchIInv'
<1>1. cycle[c].pc = "list" /\ UNCHANGED <<job, flight, onDuty, capacity, desk, stale>>
  BY DEF ListDrivers, At
<1>2. events' \in 0 .. MaxEvents
  BY EventBounded DEF ListDrivers
<1>3. \E r : Proper(r) /\ cycle' = [cycle EXCEPT ![c] = r] /\ r.pc \in {"queue", "offered", "list", "error"}
  <2>1. CASE SelectNext(c, {d \in Driver : Eligible(d)}, cycle[c].tried)
    <3>1. cycle[c].tried \in SUBSET Driver
      BY CycleProper DEF Proper, CycleRec
    <3> QED BY <1>1, <2>1, <3>1, SelectMoves
  <2>2. CASE Fails(c)
    BY <1>1, <2>2, FailsMoves
  <2> QED BY <2>1, <2>2 DEF ListDrivers
<1> QED BY <1>1, <1>2, <1>3, CycleMoves

LEMMA DecisionIInv ==
    ASSUME DispatchIInv, NEW c \in Cycle, NEW accept \in BOOLEAN, ApplyDecision(c, accept)
    PROVE  DispatchIInv'
<1>1. cycle[c].pc = "offered" /\ UNCHANGED <<job, flight, onDuty, capacity, desk, stale, events>>
  BY DEF ApplyDecision, At
<1>2. events' \in 0 .. MaxEvents
  BY <1>1, EventBounded
<1>3. Proper(cycle[c]) /\ Tried(c) \in SUBSET Driver /\ cycle[c].cands \in SUBSET Driver
  BY <1>1, CycleProper DEF Proper, CycleRec, Tried
<1>4. \E r : Proper(r) /\ cycle' = [cycle EXCEPT ![c] = r] /\ r.pc \in {"queue", "offered", "list", "assign"}
  <2>1. CASE cycle' = [cycle EXCEPT ![c] = [@ EXCEPT !.pc = "assign", !.cands = {}, !.tried = {}]]
    <3> DEFINE r == [cycle[c] EXCEPT !.pc = "assign", !.cands = {}, !.tried = {}]
    <3>1. Proper(r) /\ r.pc = "assign"
      BY <1>1, <1>3 DEF Proper, CycleRec, Ended
    <3> QED BY <2>1, <3>1
  <2>2. CASE SelectNext(c, cycle[c].cands, Tried(c))
    BY <1>1, <1>3, <2>2, SelectMoves
  <2>3. CASE cycle' = [cycle EXCEPT ![c] = [@ EXCEPT !.pc = "list", !.cur = NoDriver, !.cands = {},
                                                    !.tried = Tried(c)]]
    <3> DEFINE r == [cycle[c] EXCEPT !.pc = "list", !.cur = NoDriver, !.cands = {}, !.tried = Tried(c)]
    <3>1. Proper(r) /\ r.pc = "list"
      BY <1>1, <1>3 DEF Proper, CycleRec, Ended
    <3> QED BY <2>3, <3>1
  <2> QED BY <2>1, <2>2, <2>3 DEF ApplyDecision
<1> QED BY <1>1, <1>2, <1>4, CycleMoves

----------------------------------------------------------------------------
\* The transactions on a job's row.

\* A transaction locks the row of job j and picks driver d, for a cycle or
\* for the auto-assignment: the count is read now.
LEMMA PickKeeps ==
    ASSUME DispatchIInv, NEW j \in Job, NEW d \in Driver, flight[j] = NoDriver, Eligible(d),
           flight' = [flight EXCEPT ![j] = d], UNCHANGED <<job, capacity, stale>>,
           job[j].status \in {"new", "open"}
    PROVE  flight' \in [Job -> Driver \cup {NoDriver}] /\ RoomAhead' /\ JobsInOrder'
<1> USE DEF DispatchIInv, DispatchTypeOK
<1>1. \A e : OpenJobs(e)' = OpenJobs(e)
  BY DEF OpenJobs
<1>2. OpenJobs(d) < capacity[d]
  BY DEF Eligible
<1>3. RoomAhead'
  BY <1>1, <1>2 DEF RoomAhead
<1>4. JobsInOrder'
  BY DEF JobsInOrder
<1> QED BY <1>3, <1>4

\* The commit raises one driver's count; another transaction that has picked
\* that driver is stale from now on.
LEMMA WrittenKeeps ==
    ASSUME DispatchIInv, NEW j \in Job, flight[j] # NoDriver, Written(j), UNCHANGED capacity
    PROVE  /\ job' \in [Job -> [status : Status, assignee : Driver \cup {NoDriver}]]
           /\ flight' \in [Job -> Driver \cup {NoDriver}] /\ stale' \subseteq {k \in Job : flight'[k] # NoDriver}
           /\ RoomAhead' /\ JobsInOrder'
           /\ \A k \in Job \ {j} : job'[k] = job[k] /\ flight'[k] = flight[k]
           /\ job'[j].assignee = flight[j] /\ job'[j].status = "open" /\ flight'[j] = NoDriver
<1> USE DEF DispatchIInv, DispatchTypeOK
<1>1. flight[j] \in Driver /\ job[j].status \in {"new", "open"}
  BY DEF JobsInOrder
<1>2. /\ job' = [job EXCEPT ![j].assignee = flight[j], ![j].status = IF @ = "new" THEN "open" ELSE @]
      /\ flight' = [flight EXCEPT ![j] = NoDriver]
      /\ stale' = (stale \cup Picked(flight[j])) \ {j}
  BY DEF Written
<1>3. /\ job' \in [Job -> [status : Status, assignee : Driver \cup {NoDriver}]]
      /\ job'[j].assignee = flight[j] /\ job'[j].status = "open"
      /\ \A k \in Job \ {j} : job'[k] = job[k]
  BY <1>1, <1>2 DEF Status
<1>4. /\ flight' \in [Job -> Driver \cup {NoDriver}] /\ flight'[j] = NoDriver
      /\ \A k \in Job \ {j} : flight'[k] = flight[k]
  BY <1>2
<1>5. stale' \subseteq {k \in Job : flight'[k] # NoDriver}
  BY <1>1, <1>2, <1>4, DispatchConstants DEF Picked
<1>6. \A d \in Driver : d # flight[j] =>
         OpenJobs(d) \in Nat /\ OpenJobs(d)' \in Nat /\ OpenJobs(d)' <= OpenJobs(d)
  <2> TAKE d \in Driver
  <2> HAVE d # flight[j]
  <2>1. \A k \in Job : (job'[k].assignee = d /\ job'[k].status = "open")
                          => (job[k].assignee = d /\ job[k].status = "open")
    BY <1>3
  <2> QED BY <2>1, NoneMore
<1>7. RoomAhead'
  <2> SUFFICES ASSUME NEW k \in Job, NEW d \in Driver, flight'[k] = d, k \notin stale'
               PROVE  OpenJobs(d)' < capacity[d]
    BY DEF RoomAhead
  <2>1. k # j /\ flight[k] = d /\ d # flight[j] /\ k \notin stale
    BY <1>2, <1>4, DispatchConstants DEF Picked
  <2>2. OpenJobs(d) < capacity[d]
    BY <2>1 DEF RoomAhead
  <2> QED BY <2>1, <2>2, <1>6, DispatchConstants
<1>8. JobsInOrder'
  BY <1>3, <1>4 DEF JobsInOrder
<1> QED BY <1>3, <1>4, <1>5, <1>7, <1>8

\* A cycle takes a row: it is the only one that holds it.
LEMMA CycleHolds ==
    ASSUME DispatchIInv, NEW c \in Cycle, NEW r, Proper(r), NEW j \in Job, NEW d \in Driver,
           flight[j] = NoDriver, Eligible(d), flight' = [flight EXCEPT ![j] = d],
           job[j].status \in {"new", "open"}, r.job = j, cycle[c].pc \notin {"commit", "queued"},
           \/ r.pc = "commit" /\ r.cur = d
           \/ r.pc = "queued" /\ job[j].assignee = NoDriver,
           cycle' = [cycle EXCEPT ![c] = r],
           UNCHANGED <<job, onDuty, capacity, desk, stale>>, events' \in 0 .. MaxEvents
    PROVE  DispatchIInv'
<1> USE DEF DispatchIInv
<1>1. flight' \in [Job -> Driver \cup {NoDriver}] /\ RoomAhead' /\ JobsInOrder'
  BY PickKeeps
<1>2. /\ cycle'[c] = r /\ \A e \in Cycle \ {c} : cycle'[e] = cycle[e]
      /\ flight'[j] = d /\ \A k \in Job \ {j} : flight'[k] = flight[k]
  BY DEF DispatchTypeOK
<1>3. \A e \in Cycle \ {c} : cycle[e].pc \in {"commit", "queued"} => cycle[e].job \in Job \ {j}
  BY DEF DispatchTypeOK, CyclesInOrder, Ended
<1>4. DispatchTypeOK'
  BY <1>1, <1>2, <1>3, DispatchConstants DEF DispatchTypeOK, Proper, CycleRec
<1>5. CyclesInOrder'
  <2> SUFFICES ASSUME NEW e \in Cycle PROVE
        /\ cycle'[e].pc \notin Ended \cup {"unborn"} =>
              cycle'[e].job \in Job /\ job'[cycle'[e].job].status \in {"open", "closed"}
        /\ cycle'[e].pc \in {"offered", "assign", "commit"} => cycle'[e].cur \in Driver
        /\ cycle'[e].pc = "commit" => flight'[cycle'[e].job] = cycle'[e].cur
        /\ \A f \in Cycle \ {e} :
              (cycle'[e].pc \in {"commit", "queued"} /\ cycle'[f].pc \in {"commit", "queued"})
                 => cycle'[e].job # cycle'[f].job
    BY DEF CyclesInOrder
  <2>1. CASE e = c
    BY <2>1, <1>2, <1>3 DEF Proper
  <2>2. CASE e # c
    BY <2>2, <1>2, <1>3 DEF CyclesInOrder
  <2> QED BY <2>1, <2>2
<1>6. AutoTakesFree'
  BY <1>2, DispatchConstants DEF DispatchTypeOK, AutoTakesFree, At
<1> QED
  BY <1>1, <1>4, <1>5, <1>6 DEF DeskInOrder

\* A cycle's transaction commits and the cycle goes on.
LEMMA CycleLetsGo ==
    ASSUME DispatchIInv, NEW c \in Cycle, NEW r, Proper(r),
           cycle[c].pc \in {"commit", "queued"}, Written(cycle[c].job),
           cycle' = [cycle EXCEPT ![c] = r], r.pc \notin {"commit", "queued"},
           UNCHANGED <<onDuty, capacity, desk>>, events' \in 0 .. MaxEvents
    PROVE  DispatchIInv'
<1> USE DEF DispatchIInv
<1> DEFINE j == cycle[c].job
<1>1. j \in Job /\ flight[j] # NoDriver
  BY DEF DispatchTypeOK, CyclesInOrder, Ended
<1> HIDE DEF j
<1>2. /\ job' \in [Job -> [status : Status, assignee : Driver \cup {NoDriver}]]
      /\ flight' \in [Job -> Driver \cup {NoDriver}] /\ stale' \subseteq {k \in Job : flight'[k] # NoDriver}
      /\ RoomAhead' /\ JobsInOrder'
      /\ \A k \in Job \ {j} : job'[k] = job[k] /\ flight'[k] = flight[k]
      /\ job'[j].assignee = flight[j] /\ job'[j].status = "open" /\ flight'[j] = NoDriver
  BY <1>1, WrittenKeeps DEF j
<1>3. cycle'[c] = r /\ \A e \in Cycle \ {c} : cycle'[e] = cycle[e]
  BY DEF DispatchTypeOK
<1>4. \A e \in Cycle \ {c} : cycle[e].pc \in {"commit", "queued"} => cycle[e].job \in Job \ {j}
  BY DEF DispatchTypeOK, CyclesInOrder, Ended, j
<1>5. \A k \in Job : job[k].status \in {"open", "closed"} => job'[k].status \in {"open", "closed"}
  BY <1>2
<1>6. DispatchTypeOK'
  BY <1>2, <1>3, <1>4, DispatchConstants DEF DispatchTypeOK, Proper, CycleRec
<1>7. CyclesInOrder'
  <2> SUFFICES ASSUME NEW e \in Cycle PROVE
        /\ cycle'[e].pc \notin Ended \cup {"unborn"} =>
              cycle'[e].job \in Job /\ job'[cycle'[e].job].status \in {"open", "closed"}
        /\ cycle'[e].pc \in {"offered", "assign", "commit"} => cycle'[e].cur \in Driver
        /\ cycle'[e].pc = "commit" => flight'[cycle'[e].job] = cycle'[e].cur
        /\ \A f \in Cycle \ {e} :
              (cycle'[e].pc \in {"commit", "queued"} /\ cycle'[f].pc \in {"commit", "queued"})
                 => cycle'[e].job # cycle'[f].job
    BY DEF CyclesInOrder
  <2>1. CASE e = c
    BY <2>1, <1>3, <1>5 DEF Proper
  <2>2. CASE e # c
    BY <2>2, <1>2, <1>3, <1>4, <1>5 DEF CyclesInOrder
  <2> QED BY <2>1, <2>2
<1>8. AutoTakesFree'
  <2> SUFFICES ASSUME NEW k \in Job, flight'[k] # NoDriver, job'[k].assignee # NoDriver
               PROVE  \E e \in Cycle : cycle'[e].pc = "commit" /\ cycle'[e].job = k
    BY DEF AutoTakesFree, At
  <2>1. k # j /\ flight[k] # NoDriver /\ job[k].assignee # NoDriver
    BY <1>2
  <2>2. PICK e \in Cycle : cycle[e].pc = "commit" /\ cycle[e].job = k
    BY <2>1 DEF AutoTakesFree, At
  <2> QED BY <1>3, <2>1, <2>2 DEF j
<1>9. DeskInOrder'
  BY <1>5 DEF DeskInOrder, DispatchTypeOK
<1> QED
  BY <1>2, <1>6, <1>7, <1>8, <1>9

\* A row is held by nobody, so no cycle is in the middle of writing it.
LEMMA Unheld ==
    ASSUME DispatchIInv, NEW j \in Job, flight[j] = NoDriver
    PROVE  \A e \in Cycle : cycle[e].pc \in {"commit", "queued"} => cycle[e].job \in Job \ {j}
BY DEF DispatchIInv, DispatchTypeOK, CyclesInOrder, Ended

LEMMA AssignIInv ==
    ASSUME DispatchIInv, NEW c \in Cycle, AssignJob(c) PROVE DispatchIInv'
<1>1. cycle[c].pc = "assign" /\ UNCHANGED <<job, onDuty, capacity, desk, stale>>
  BY DEF AssignJob, At
<1>2. events' \in 0 .. MaxEvents
  BY EventBounded DEF AssignJob
<1>3. Proper(cycle[c])
  BY CycleProper
<1>4. CASE Fails(c) /\ UNCHANGED flight
  <2>1. \E r : Proper(r) /\ cycle' = [cycle EXCEPT ![c] = r] /\ r.pc \in {"assign", "error"}
    BY <1>1, <1>4, FailsMoves
  <2> QED BY <1>1, <1>2, <1>4, <2>1, CycleMoves
<1>5. CASE /\ Unlocked(cycle[c].job) /\ Assignable(c)
           /\ flight' = [flight EXCEPT ![cycle[c].job] = cycle[c].cur]
           /\ cycle' = [cycle EXCEPT ![c].pc = "commit"]
  <2> DEFINE r == [cycle[c] EXCEPT !.pc = "commit"]
  <2>1. /\ cycle[c].job \in Job /\ job[cycle[c].job].status = "open" /\ cycle[c].cur \in Driver
        /\ flight[cycle[c].job] = NoDriver /\ Eligible(cycle[c].cur)
    BY <1>1, <1>3, <1>5 DEF Proper, Ended, Assignable, Unlocked
  <2>2. Proper(r) /\ r.pc = "commit" /\ r.job = cycle[c].job /\ r.cur = cycle[c].cur
    BY <1>3, <2>1 DEF Proper, CycleRec
  <2>3. cycle' = [cycle EXCEPT ![c] = r]
    BY <1>5
  <2> HIDE DEF r
  <2> QED BY <1>1, <1>2, <1>5, <2>1, <2>2, <2>3, CycleHolds
<1> QED BY <1>4, <1>5 DEF AssignJob, Refused

LEMMA CommitIInv ==
    ASSUME DispatchIInv, NEW c \in Cycle, AssignCommits(c) PROVE DispatchIInv'
<1>1. cycle[c].pc = "commit" /\ Written(cycle[c].job) /\ UNCHANGED <<onDuty, capacity, desk>>
  BY DEF AssignCommits, At
<1>2. events' \in 0 .. MaxEvents
  BY EventBounded DEF AssignCommits
<1>3. Proper(cycle[c])
  BY CycleProper
<1>4. \E r : Proper(r) /\ cycle' = [cycle EXCEPT ![c] = r] /\ r.pc \in {"assign", "error", "accepted"}
  <2>1. CASE Ends(c, "accepted") \/ Ends(c, "error")
    BY <2>1, UnbornProper DEF Ends, Ended
  <2>2. CASE /\ cycle[c].attempts < MaxAttempts - 1
             /\ cycle' = [cycle EXCEPT ![c].attempts = @ + 1, ![c].pc = "assign"]
    <3> DEFINE r == [cycle[c] EXCEPT !.attempts = @ + 1, !.pc = "assign"]
    <3>1. cycle[c].attempts + 1 \in 0 .. MaxAttempts - 1 /\ cycle[c] \in CycleRec
      BY <1>3, <2>2, DispatchConstants DEF Proper, CycleRec
    <3>2. r \in CycleRec /\ r.pc = "assign" /\ r.job = cycle[c].job /\ r.cur = cycle[c].cur
      BY <3>1 DEF CycleRec
    <3>3. Proper(r)
      BY <1>1, <1>3, <3>2 DEF Proper, Ended
    <3>4. cycle' = [cycle EXCEPT ![c] = r]
      BY <2>2
    <3> QED BY <3>2, <3>3, <3>4
  <2> QED BY <2>1, <2>2 DEF AssignCommits
<1> QED BY <1>1, <1>2, <1>4, CycleLetsGo

LEMMA EnqueueIInv ==
    ASSUME DispatchIInv, NEW c \in Cycle, EnqueueFifo(c) PROVE DispatchIInv'
<1>1. cycle[c].pc = "queue" /\ UNCHANGED <<job, onDuty, capacity, desk, stale>>
  BY DEF EnqueueFifo, At
<1>2. events' \in 0 .. MaxEvents
  BY EventBounded DEF EnqueueFifo
<1>3. Proper(cycle[c]) /\ cycle[c].job \in Job
  BY <1>1, CycleProper DEF Proper, Ended
<1>4. CASE Ends(c, "fifo_queued") /\ UNCHANGED flight
  <2>1. \E r : Proper(r) /\ cycle' = [cycle EXCEPT ![c] = r] /\ r.pc = "fifo_queued"
    BY <1>4, UnbornProper DEF Ends, Ended
  <2> QED BY <1>1, <1>2, <1>4, <2>1, CycleMoves
<1>5. CASE /\ Unlocked(cycle[c].job) /\ TakesDriver(cycle[c].job) /\ AutoPicks(cycle[c].job)
           /\ cycle' = [cycle EXCEPT ![c].pc = "queued"]
  <2> DEFINE r == [cycle[c] EXCEPT !.pc = "queued"]
  <2>1. PICK d \in Driver : Eligible(d) /\ flight' = [flight EXCEPT ![cycle[c].job] = d]
    BY <1>5 DEF AutoPicks
  <2>2. /\ flight[cycle[c].job] = NoDriver /\ job[cycle[c].job].status = "open"
        /\ job[cycle[c].job].assignee = NoDriver
    BY <1>5 DEF Unlocked, TakesDriver
  <2>3. Proper(r) /\ r.pc = "queued" /\ r.job = cycle[c].job
    BY <1>3, <2>2 DEF Proper, CycleRec
  <2>4. cycle' = [cycle EXCEPT ![c] = r]
    BY <1>5
  <2> HIDE DEF r
  <2> QED BY <1>1, <1>2, <1>3, <2>1, <2>2, <2>3, <2>4, CycleHolds
<1> QED BY <1>4, <1>5 DEF EnqueueFifo

LEMMA QueueIInv ==
    ASSUME DispatchIInv, NEW c \in Cycle, QueueCommits(c) PROVE DispatchIInv'
<1>1. cycle[c].pc = "queued" /\ Written(cycle[c].job) /\ UNCHANGED <<onDuty, capacity, desk, events>>
  BY DEF QueueCommits, At
<1>2. events' \in 0 .. MaxEvents
  BY <1>1, EventBounded
<1>3. \E r : Proper(r) /\ cycle' = [cycle EXCEPT ![c] = r] /\ r.pc = "fifo_queued"
  BY UnbornProper DEF QueueCommits, Ends, Ended
<1> QED BY <1>1, <1>2, <1>3, CycleLetsGo

----------------------------------------------------------------------------
\* The auto-assignment outside a cycle.

LEMMA AutoIInv ==
    ASSUME DispatchIInv, NEW j \in Job, AutoAssign(j) PROVE DispatchIInv'
<1> USE DEF DispatchIInv
<1>1. PICK d \in Driver : Eligible(d) /\ flight' = [flight EXCEPT ![j] = d]
  BY DEF AutoAssign, AutoPicks
<1>2. /\ flight[j] = NoDriver /\ job[j].status = "open" /\ job[j].assignee = NoDriver
      /\ UNCHANGED <<job, onDuty, capacity, cycle, desk, stale, events>>
  BY DEF AutoAssign, Unlocked, TakesDriver
<1>3. flight' \in [Job -> Driver \cup {NoDriver}] /\ RoomAhead' /\ JobsInOrder'
  BY <1>1, <1>2, PickKeeps
<1>4. \A e \in Cycle : cycle[e].pc \in {"commit", "queued"} => cycle[e].job \in Job \ {j}
  BY <1>2, Unheld
<1>5. flight'[j] = d /\ \A k \in Job \ {j} : flight'[k] = flight[k]
  BY <1>1 DEF DispatchTypeOK
<1>6. DispatchTypeOK'
  BY <1>2, <1>3, <1>4, <1>5 DEF DispatchTypeOK
<1>7. CyclesInOrder'
  BY <1>2, <1>4, <1>5 DEF CyclesInOrder
<1>8. AutoTakesFree'
  BY <1>2, <1>5 DEF AutoTakesFree, At
<1> QED BY <1>2, <1>3, <1>6, <1>7, <1>8 DEF DeskInOrder

LEMMA AutoCommitsIInv ==
    ASSUME DispatchIInv, NEW j \in Job, AutoCommits(j) PROVE DispatchIInv'
<1> USE DEF DispatchIInv
<1>1. flight[j] # NoDriver /\ Written(j) /\ UNCHANGED <<onDuty, capacity, cycle, desk, events>>
  BY DEF AutoCommits, Unlocked
<1>2. /\ job' \in [Job -> [status : Status, assignee : Driver \cup {NoDriver}]]
      /\ flight' \in [Job -> Driver \cup {NoDriver}] /\ stale' \subseteq {k \in Job : flight'[k] # NoDriver}
      /\ RoomAhead' /\ JobsInOrder'
      /\ \A k \in Job \ {j} : job'[k] = job[k] /\ flight'[k] = flight[k]
      /\ job'[j].assignee = flight[j] /\ job'[j].status = "open" /\ flight'[j] = NoDriver
  BY <1>1, WrittenKeeps
<1>3. \A e \in Cycle : cycle[e].pc \in {"commit", "queued"} => cycle[e].job \in Job \ {j}
  BY DEF AutoCommits, CyclesInOrder, Ended
<1>4. \A k \in Job : job[k].status \in {"open", "closed"} => job'[k].status \in {"open", "closed"}
  BY <1>2
<1>5. DispatchTypeOK'
  BY <1>1, <1>2, <1>3 DEF DispatchTypeOK
<1>6. CyclesInOrder'
  BY <1>1, <1>2, <1>3, <1>4 DEF CyclesInOrder
<1>7. AutoTakesFree'
  BY <1>1, <1>2 DEF AutoTakesFree, At
<1>8. DeskInOrder'
  BY <1>1, <1>4 DEF DeskInOrder, DispatchTypeOK
<1> QED BY <1>2, <1>5, <1>6, <1>7, <1>8

----------------------------------------------------------------------------
\* Jobs begin and end.

\* Rows that are inserted, with a driver picked by the trigger or without, or
\* closed while nobody holds them: no driver gets more open jobs.
LEMMA RowsChange ==
    ASSUME DispatchIInv, NEW j \in Job,
           job' \in [Job -> [status : Status, assignee : Driver \cup {NoDriver}]],
           flight' \in [Job -> Driver \cup {NoDriver}],
           \A k \in Job : job'[k].assignee = job[k].assignee,
           \A k \in Job :
              \/ job'[k].status = job[k].status
              \/ job[k].status = "open" /\ job'[k].status = "closed" /\ flight[k] = NoDriver
              \/ job[k].status = "none" /\ job'[k].status \in {"new", "open"},
           \A k \in Job :
              \/ flight'[k] = flight[k]
              \/ /\ job[k].status = "none" /\ job'[k].status = "new"
                 /\ \E d \in Driver : Eligible(d) /\ flight'[k] = d,
           UNCHANGED <<onDuty, capacity, cycle, desk, stale, events>>
    PROVE  DispatchIInv'
<1> USE DEF DispatchIInv
<1>1. \A d \in Driver : OpenJobs(d) \in Nat /\ OpenJobs(d)' \in Nat /\ OpenJobs(d)' <= OpenJobs(d)
  <2> TAKE d \in Driver
  <2>1. \A k \in Job : (job'[k].assignee = d /\ job'[k].status = "open")
                          => (job[k].assignee = d /\ job[k].status = "open")
    BY DispatchConstants DEF JobsInOrder
  <2> QED BY <2>1, NoneMore
<1>3. RoomAhead'
  <2> SUFFICES ASSUME NEW k \in Job, NEW d \in Driver, flight'[k] = d, k \notin stale
               PROVE  OpenJobs(d)' < capacity[d]
    BY DEF RoomAhead
  <2>1. OpenJobs(d) < capacity[d]
    BY DEF RoomAhead, Eligible
  <2>2. capacity[d] \in Nat
    BY DispatchConstants DEF DispatchTypeOK
  <2> QED BY <1>1, <2>1, <2>2
<1>4. JobsInOrder'
  BY DEF JobsInOrder
<1>5. \A k \in Job : flight[k] # NoDriver => flight'[k] = flight[k]
  BY DEF JobsInOrder
<1>6. DispatchTypeOK'
  <2>1. \A e \in Cycle : cycle[e].pc \in {"commit", "queued"} => cycle[e].job \in Job
    BY DEF CyclesInOrder, Ended
  <2> QED BY <1>5, <2>1 DEF DispatchTypeOK
<1>7. \A k \in Job : job[k].status \in {"open", "closed"} => job'[k].status \in {"open", "closed"}
  OBVIOUS
<1>8. CyclesInOrder'
  <2>1. \A e \in Cycle : cycle[e].pc = "commit" => cycle[e].job \in Job /\ flight[cycle[e].job] # NoDriver
    BY DEF CyclesInOrder, Ended, DispatchTypeOK
  <2> QED BY <1>5, <1>7, <2>1 DEF CyclesInOrder
<1>9. AutoTakesFree'
  BY <1>4, DispatchConstants DEF AutoTakesFree, At, JobsInOrder
<1>10. DeskInOrder'
  BY <1>7 DEF DeskInOrder, DispatchTypeOK
<1> QED BY <1>3, <1>4, <1>6, <1>8, <1>9, <1>10

LEMMA CreateJobIInv ==
    ASSUME DispatchIInv, NEW j \in Job, CreateJob(j) PROVE DispatchIInv'
<1> USE DEF DispatchIInv, DispatchTypeOK
<1>1. job[j].status = "none" /\ flight[j] = NoDriver
  BY DEF CreateJob, Inserted, JobsInOrder
<1>2. job' = [job EXCEPT ![j].status = InsertedStatus(j)]
  BY DEF CreateJob
<1>3. flight' = flight \/ \E d \in Driver : Eligible(d) /\ flight' = [flight EXCEPT ![j] = d]
  BY DEF CreateJob, Inserted, AutoPicks
<1>4. InsertedStatus(j) \in {"new", "open"} /\ (flight' # flight => InsertedStatus(j) = "new")
  BY <1>1, <1>3, DispatchConstants DEF InsertedStatus
<1>5. /\ job' \in [Job -> [status : Status, assignee : Driver \cup {NoDriver}]]
      /\ \A k \in Job : job'[k].assignee = job[k].assignee
      /\ job'[j].status = InsertedStatus(j)
      /\ \A k \in Job \ {j} : job'[k].status = job[k].status
  BY <1>2, <1>4 DEF Status
<1>6. /\ flight' \in [Job -> Driver \cup {NoDriver}]
      /\ \A k \in Job \ {j} : flight'[k] = flight[k]
      /\ flight'[j] = flight[j] \/ \E d \in Driver : Eligible(d) /\ flight'[j] = d
  BY <1>3
<1>7. UNCHANGED <<onDuty, capacity, cycle, desk, stale, events>>
  BY DEF CreateJob
<1> HIDE DEF DispatchIInv, DispatchTypeOK
<1>8. \A k \in Job :
         \/ flight'[k] = flight[k]
         \/ /\ job[k].status = "none" /\ job'[k].status = "new"
            /\ \E d \in Driver : Eligible(d) /\ flight'[k] = d
  BY <1>1, <1>4, <1>5, <1>6
<1> QED BY <1>1, <1>4, <1>5, <1>6, <1>7, <1>8, RowsChange

LEMMA CloseJobIInv ==
    ASSUME DispatchIInv, NEW j \in Job, CloseJob(j) PROVE DispatchIInv'
<1> USE DEF DispatchIInv, DispatchTypeOK
<1>1. job[j].status = "open" /\ flight[j] = NoDriver /\ UNCHANGED <<onDuty, capacity, cycle, desk, stale, events>>
  BY DEF CloseJob, Unlocked
<1>2. CASE job' = [job EXCEPT ![j].status = "closed"] /\ UNCHANGED flight
  <2>1. /\ job' \in [Job -> [status : Status, assignee : Driver \cup {NoDriver}]]
        /\ \A k \in Job : job'[k].assignee = job[k].assignee
        /\ job'[j].status = "closed" /\ \A k \in Job \ {j} : job'[k].status = job[k].status
    BY <1>2 DEF Status
  <2>2. flight' \in [Job -> Driver \cup {NoDriver}] /\ \A k \in Job : flight'[k] = flight[k]
    BY <1>2
  <2> HIDE DEF DispatchIInv, DispatchTypeOK
  <2> QED BY <1>1, <2>1, <2>2, RowsChange
<1>3. ASSUME NEW i \in Job, Inserted(i),
             job' = [job EXCEPT ![j].status = "closed", ![i].status = InsertedStatus(i)]
      PROVE  DispatchIInv'
  <2>1. job[i].status = "none" /\ flight[i] = NoDriver /\ i # j
    BY <1>1, <1>3 DEF Inserted, JobsInOrder
  <2>2. flight' = flight \/ \E d \in Driver : Eligible(d) /\ flight' = [flight EXCEPT ![i] = d]
    BY <1>3 DEF Inserted, AutoPicks
  <2>3. InsertedStatus(i) \in {"new", "open"} /\ (flight' # flight => InsertedStatus(i) = "new")
    BY <2>1, <2>2, DispatchConstants DEF InsertedStatus
  <2>4. /\ job' \in [Job -> [status : Status, assignee : Driver \cup {NoDriver}]]
        /\ \A k \in Job : job'[k].assignee = job[k].assignee
        /\ job'[j].status = "closed" /\ job'[i].status = InsertedStatus(i)
        /\ \A k \in Job \ {i, j} : job'[k].status = job[k].status
    <3>1. PICK v : v = InsertedStatus(i)
      OBVIOUS
    <3>2. /\ job \in [Job -> [status : Status, assignee : Driver \cup {NoDriver}]]
          /\ job' = [job EXCEPT ![j].status = "closed", ![i].status = v]
          /\ i # j /\ v \in Status /\ "closed" \in Status
      BY <1>3, <2>1, <2>3, <3>1 DEF Status
    <3> HIDE DEF DispatchIInv, DispatchTypeOK
    <3>3. /\ job' \in [Job -> [status : Status, assignee : Driver \cup {NoDriver}]]
          /\ job'[j].status = "closed" /\ job'[i].status = v
      BY <3>2
    <3>4. \A k \in Job : /\ job'[k].assignee = job[k].assignee
                         /\ k \notin {i, j} => job'[k].status = job[k].status
      BY <3>2
    <3> QED BY <3>1, <3>3, <3>4
  <2>5. /\ flight' \in [Job -> Driver \cup {NoDriver}]
        /\ \A k \in Job \ {i} : flight'[k] = flight[k]
        /\ flight'[i] = flight[i] \/ \E d \in Driver : Eligible(d) /\ flight'[i] = d
    BY <2>2
  <2> HIDE DEF DispatchIInv, DispatchTypeOK
  <2>6. \A k \in Job :
           \/ flight'[k] = flight[k]
           \/ /\ job[k].status = "none" /\ job'[k].status = "new"
              /\ \E d \in Driver : Eligible(d) /\ flight'[k] = d
    BY <2>1, <2>3, <2>4, <2>5
  <2>7. \A k \in Job :
           \/ job'[k].status = job[k].status
           \/ job[k].status = "open" /\ job'[k].status = "closed" /\ flight[k] = NoDriver
           \/ job[k].status = "none" /\ job'[k].status \in {"new", "open"}
    BY <1>1, <2>1, <2>3, <2>4
  <2> QED BY <1>1, <2>4, <2>5, <2>6, <2>7, RowsChange
<1> QED BY <1>2, <1>3 DEF CloseJob

----------------------------------------------------------------------------
\* The desk and the drivers.

LEMMA BeginIInv ==
    ASSUME DispatchIInv, NEW j \in Job, BeginOverride(j) PROVE DispatchIInv'
<1>1. events' \in 0 .. MaxEvents
  BY EventBounded DEF BeginOverride
<1>2. desk' = j /\ job[j].status \in {"open", "closed"} /\ UNCHANGED <<job, flight, onDuty, capacity, cycle, stale>>
  BY DEF BeginOverride, Visible
<1>3. DispatchTypeOK' /\ DeskInOrder'
  BY <1>1, <1>2 DEF DispatchIInv, DispatchTypeOK, DeskInOrder
<1> QED
  BY <1>2, <1>3 DEF DispatchIInv, RoomAhead, OpenJobs, JobsInOrder, CyclesInOrder,
                    AutoTakesFree, At

\* A person gives a job to a driver whatever the count is; transactions that
\* have picked that driver are stale from now on.
LEMMA HandGives ==
    ASSUME DispatchIInv, NEW j \in Job, NEW d \in Driver, flight[j] = NoDriver,
           job[j].status \in {"none", "open"},
           job' \in [Job -> [status : Status, assignee : Driver \cup {NoDriver}]],
           job'[j].assignee = d, job'[j].status = "open", \A k \in Job \ {j} : job'[k] = job[k],
           stale' = stale \cup Picked(d), desk' \in {desk, NoJob},
           UNCHANGED <<flight, onDuty, capacity, cycle, events>>
    PROVE  DispatchIInv'
<1> USE DEF DispatchIInv
<1>1. \A e \in Driver \ {d} : OpenJobs(e) \in Nat /\ OpenJobs(e)' \in Nat /\ OpenJobs(e)' <= OpenJobs(e)
  <2> TAKE e \in Driver \ {d}
  <2>1. \A k \in Job : (job'[k].assignee = e /\ job'[k].status = "open")
                          => (job[k].assignee = e /\ job[k].status = "open")
    OBVIOUS
  <2> QED BY <2>1, NoneMore
<1>2. RoomAhead'
  <2> SUFFICES ASSUME NEW k \in Job, NEW e \in Driver, flight[k] = e, k \notin stale'
               PROVE  OpenJobs(e)' < capacity[e]
    BY DEF RoomAhead
  <2>1. e # d /\ k \notin stale
    BY DEF Picked
  <2>2. OpenJobs(e) < capacity[e]
    BY <2>1 DEF RoomAhead
  <2>3. capacity[e] \in Nat
    BY DispatchConstants DEF DispatchTypeOK
  <2> QED BY <1>1, <2>1, <2>2, <2>3
<1>3. \A k \in Job : job[k].status \in {"open", "closed"} => job'[k].status \in {"open", "closed"}
  OBVIOUS
<1>4. JobsInOrder'
  BY DEF JobsInOrder
<1>5. CyclesInOrder'
  BY <1>3 DEF CyclesInOrder
<1>6. DeskInOrder'
  BY <1>3 DEF DeskInOrder, DispatchTypeOK
<1>7. AutoTakesFree'
  BY DEF AutoTakesFree, At
<1>8. DispatchTypeOK'
  <2>1. Picked(d) \subseteq {k \in Job : flight[k] # NoDriver}
    BY DispatchConstants DEF Picked
  <2> QED BY <2>1 DEF DispatchTypeOK
<1> QED BY <1>2, <1>4, <1>5, <1>6, <1>7, <1>8

LEMMA ConfirmIInv ==
    ASSUME DispatchIInv, NEW d \in Driver, ConfirmOverride(d) PROVE DispatchIInv'
<1> USE DEF DispatchIInv, DispatchTypeOK
<1>1. desk \in Job /\ desk' = NoJob /\ UNCHANGED <<flight, onDuty, capacity, cycle, events>>
  BY DEF ConfirmOverride
<1>2. CASE UNCHANGED <<job, stale>>
  BY <1>1, <1>2 DEF RoomAhead, OpenJobs, JobsInOrder, CyclesInOrder, AutoTakesFree, At, DeskInOrder
<1>3. CASE Overridable(desk) /\ job' = [job EXCEPT ![desk].assignee = d] /\ stale' = stale \cup Picked(d)
  <2>1. flight[desk] = NoDriver /\ job[desk].status = "open"
    BY <1>1, <1>3, DispatchConstants DEF Overridable, Unlocked, DeskInOrder
  <2>2. /\ job' \in [Job -> [status : Status, assignee : Driver \cup {NoDriver}]]
        /\ job'[desk].assignee = d /\ job'[desk].status = "open"
        /\ \A k \in Job \ {desk} : job'[k] = job[k]
    BY <1>1, <1>3, <2>1
  <2>3. PICK j \in Job : j = desk
    BY <1>1
  <2> HIDE DEF DispatchIInv, DispatchTypeOK
  <2> QED BY <1>1, <1>3, <2>1, <2>2, <2>3, HandGives
<1> QED BY <1>2, <1>3 DEF ConfirmOverride

LEMMA CreateForIInv ==
    ASSUME DispatchIInv, NEW j \in Job, NEW d \in Driver, CreateJobFor(j, d) PROVE DispatchIInv'
<1>1. job[j].status = "none" /\ flight[j] = NoDriver
  BY DEF CreateJobFor, DispatchIInv, JobsInOrder, DispatchTypeOK
<1>2. /\ job' \in [Job -> [status : Status, assignee : Driver \cup {NoDriver}]]
      /\ job'[j].assignee = d /\ job'[j].status = "open" /\ \A k \in Job \ {j} : job'[k] = job[k]
  BY DEF CreateJobFor, DispatchIInv, DispatchTypeOK, Status
<1>3. stale' = stale \cup Picked(d) /\ UNCHANGED <<flight, onDuty, capacity, cycle, desk, events>>
  BY DEF CreateJobFor
<1> QED BY <1>1, <1>2, <1>3, HandGives

\* Whoever lowers a capacity makes the transactions that picked the driver stale.
LEMMA PresenceIInv ==
    ASSUME DispatchIInv, NEW d \in Driver, NEW n \in 0 .. MaxCapacity, SetPresence(d, n)
    PROVE  DispatchIInv'
<1>1. events' \in 0 .. MaxEvents
  BY EventBounded DEF SetPresence
<1>2. /\ onDuty' \subseteq Driver /\ UNCHANGED <<job, flight, cycle, desk>>
      /\ capacity' = [capacity EXCEPT ![d] = n]
      /\ stale' = IF n < capacity[d] THEN stale \cup Picked(d) ELSE stale
  BY DEF SetPresence, DispatchIInv, DispatchTypeOK
<1>3. DispatchTypeOK'
  <2>1. Picked(d) \subseteq {k \in Job : flight[k] # NoDriver}
    BY DispatchConstants DEF Picked
  <2> QED BY <1>1, <1>2, <2>1 DEF DispatchIInv, DispatchTypeOK
<1>4. RoomAhead'
  <2> SUFFICES ASSUME NEW k \in Job, NEW e \in Driver, flight[k] = e, k \notin stale'
               PROVE  OpenJobs(e)' < capacity'[e]
    BY <1>2 DEF RoomAhead
  <2>1. OpenJobs(e)' = OpenJobs(e) /\ OpenJobs(e) < capacity[e]
    BY <1>2 DEF OpenJobs, DispatchIInv, RoomAhead
  <2>2. capacity'[e] = capacity[e] \/ (e = d /\ capacity'[e] = n /\ ~(n < capacity[d]))
    BY <1>2 DEF Picked, DispatchIInv, DispatchTypeOK
  <2>3. capacity[e] \in Nat /\ n \in Nat /\ OpenJobs(e) \in Nat
    <3>1. OpenJobs(e) \in Nat
      BY CountNat
    <3> QED BY <3>1, DispatchConstants DEF DispatchIInv, DispatchTypeOK
  <2> QED BY <2>1, <2>2, <2>3
<1> QED
  BY <1>2, <1>3, <1>4 DEF DispatchIInv, JobsInOrder, CyclesInOrder, AutoTakesFree, At, DeskInOrder

----------------------------------------------------------------------------
\* The invariant.

LEMMA DispatchInitIInv == DispatchInit => DispatchIInv
<1> SUFFICES ASSUME DispatchInit PROVE DispatchIInv
  OBVIOUS
<1> USE DEF DispatchInit
<1>1. Unborn \in CycleRec /\ Unborn.pc = "unborn"
  BY DispatchConstants DEF Unborn, CycleRec
<1>2. DispatchTypeOK
  BY <1>1, DispatchConstants DEF DispatchTypeOK, CycleRec, Status
<1>4. RoomAhead
  BY DispatchConstants DEF RoomAhead
<1>5. JobsInOrder /\ CyclesInOrder /\ DeskInOrder /\ AutoTakesFree
  BY <1>1 DEF JobsInOrder, CyclesInOrder, DeskInOrder, AutoTakesFree
<1> QED BY <1>2, <1>4, <1>5 DEF DispatchIInv

\* Every step preserves it.
LEMMA DispatchNextIInv == DispatchIInv /\ [DispatchNext]_dispatchVars => DispatchIInv'
<1> SUFFICES ASSUME DispatchIInv, [DispatchNext]_dispatchVars PROVE DispatchIInv'
  OBVIOUS
<1>1. CASE UNCHANGED dispatchVars
  BY <1>1 DEF dispatchVars, DispatchIInv, DispatchTypeOK, RoomAhead, OpenJobs,
              JobsInOrder, CyclesInOrder, AutoTakesFree, At, DeskInOrder
<1>2. ASSUME NEW c \in Cycle, CycleStep(c) PROVE DispatchIInv'
  BY <1>2, ListIInv, DecisionIInv, AssignIInv, CommitIInv, EnqueueIInv, QueueIInv DEF CycleStep
<1>3. ASSUME NEW j \in Job, CreateJob(j) \/ CloseJob(j) \/ BeginOverride(j) \/ AutoAssign(j) \/ AutoCommits(j)
      PROVE  DispatchIInv'
  BY <1>3, CreateJobIInv, CloseJobIInv, BeginIInv, AutoIInv, AutoCommitsIInv
<1> QED
  BY <1>1, <1>2, <1>3, StartIInv, ConfirmIInv, CreateForIInv, PresenceIInv DEF DispatchNext

(***************************************************************************)
(* The jobs, the open transactions, the drivers and the cycles stay well   *)
(* typed, an activity within its attempts.                                 *)
(***************************************************************************)
THEOREM DispatchTypesOK == DispatchSpec => []DispatchTypeOK
<1>1. DispatchIInv => DispatchTypeOK
  BY DEF DispatchIInv
<1> QED BY <1>1, DispatchInitIInv, DispatchNextIInv, PTL DEF DispatchSpec

----------------------------------------------------------------------------
\* Action properties.

\* A job that a person gives away raises the count of nobody else.
LEMMA HandCounts ==
    ASSUME NEW j \in Job, NEW d \in Driver, NEW e \in Driver, Unlocked(j),
           job'[j].assignee = e, \A k \in Job \ {j} : job'[k] = job[k],
           OpenJobs(d)' > OpenJobs(d)
    PROVE  \E k \in Job : job'[k] # job[k] /\ job'[k].assignee = d /\ (Unlocked(k) \/ k \in stale)
<1>1. job'[j] # job[j] /\ e = d
  <2> SUFFICES ASSUME job'[j] = job[j] \/ e # d PROVE FALSE
    OBVIOUS
  <2>1. \A k \in Job : (job'[k].assignee = d /\ job'[k].status = "open")
                          => (job[k].assignee = d /\ job[k].status = "open")
    OBVIOUS
  <2>2. OpenJobs(d) \in Nat /\ OpenJobs(d)' \in Nat /\ OpenJobs(d)' <= OpenJobs(d)
    BY <2>1, NoneMore
  <2> QED BY <2>2
<1> QED BY <1>1

\* A step that takes a driver past the capacity is a person's, or commits a
\* transaction that is stale: a fresh one has room for the one job it adds.
LEMMA StepOverload ==
    ASSUME DispatchIInv, [DispatchNext]_dispatchVars, NEW d \in Driver,
           OpenJobs(d)' > OpenJobs(d), OpenJobs(d)' > capacity[d]
    PROVE  \E j \in Job : job'[j] # job[j] /\ job'[j].assignee = d /\ (Unlocked(j) \/ j \in stale)
<1> USE DEF DispatchIInv
<1>1. ASSUME NEW i \in Job, \A k \in Job : (job'[k].assignee = d /\ job'[k].status = "open")
                                            => (job[k].assignee = d /\ job[k].status = "open")
      PROVE  FALSE
  <2>1. OpenJobs(d) \in Nat /\ OpenJobs(d)' \in Nat /\ OpenJobs(d)' <= OpenJobs(d)
    BY <1>1, NoneMore
  <2> QED BY <2>1
<1>2. ASSUME NEW i \in Job, flight[i] # NoDriver, Written(i)
      PROVE  job'[i] # job[i] /\ job'[i].assignee = d /\ i \in stale
  <2>1. job'[i].assignee = flight[i] /\ \A k \in Job \ {i} : job'[k] = job[k]
    BY <1>2 DEF Written, DispatchTypeOK
  <2>2. job'[i] # job[i] /\ flight[i] = d
    BY <1>1, <2>1
  <2>3. OpenJobs(d) \in Nat /\ OpenJobs(d)' \in Nat /\ OpenJobs(d)' <= OpenJobs(d) + 1
    BY <2>1, OneMore
  <2>4. ~(OpenJobs(d) < capacity[d])
    <3>1. capacity[d] \in Nat
      BY DispatchConstants DEF DispatchTypeOK
    <3> QED BY <2>3, <3>1
  <2> QED BY <2>1, <2>2, <2>4 DEF RoomAhead
<1>3. ~UNCHANGED job
  <2>1. UNCHANGED job => OpenJobs(d)' = OpenJobs(d)
    BY DEF OpenJobs
  <2> QED BY <2>1, CountNat
<1>4. ASSUME NEW c \in Cycle, AssignCommits(c) \/ QueueCommits(c)
      PROVE  \E j \in Job : job'[j] # job[j] /\ job'[j].assignee = d /\ j \in stale
  <2>1. cycle[c].job \in Job /\ flight[cycle[c].job] # NoDriver /\ Written(cycle[c].job)
    BY <1>4 DEF AssignCommits, QueueCommits, At, DispatchTypeOK, CyclesInOrder, Ended
  <2> QED BY <1>2, <2>1
<1>5. ASSUME NEW i \in Job, AutoCommits(i)
      PROVE  job'[i] # job[i] /\ job'[i].assignee = d /\ i \in stale
  BY <1>2, <1>5 DEF AutoCommits, Unlocked
<1>6. ASSUME NEW i \in Job, CreateJob(i) \/ CloseJob(i) PROVE FALSE
  <2>1. \E x, y \in Job : \E v :
           /\ job[y].status = "none"
           /\ \/ job' = [job EXCEPT ![y].status = v]
              \/ job' = [job EXCEPT ![x].status = "closed", ![y].status = v]
              \/ job' = [job EXCEPT ![x].status = "closed"]
     \/ job' = [job EXCEPT ![i].status = "closed"]
    BY <1>6 DEF CreateJob, CloseJob, Inserted
  <2>2. \A k \in Job : /\ job'[k].assignee = job[k].assignee
                       /\ job'[k].status = "open" => job[k].status \in {"open", "none"}
    BY <2>1 DEF DispatchTypeOK
  <2>3. \A k \in Job : (job'[k].assignee = d /\ job'[k].status = "open")
                          => (job[k].assignee = d /\ job[k].status = "open")
    BY <2>2, DispatchConstants DEF JobsInOrder
  <2> QED BY <1>1, <1>6, <2>3
<1>7. ASSUME NEW i \in Job, NEW e \in Driver, CreateJobFor(i, e)
      PROVE  \E j \in Job : job'[j] # job[j] /\ job'[j].assignee = d /\ (Unlocked(j) \/ j \in stale)
  <2>1. Unlocked(i) /\ job'[i].assignee = e /\ \A k \in Job \ {i} : job'[k] = job[k]
    BY <1>7 DEF CreateJobFor, DispatchTypeOK, JobsInOrder, Unlocked
  <2> QED BY <2>1, HandCounts
<1>8. ASSUME NEW e \in Driver, ConfirmOverride(e), job' # job
      PROVE  \E j \in Job : job'[j] # job[j] /\ job'[j].assignee = d /\ (Unlocked(j) \/ j \in stale)
  <2>1. PICK i \in Job : /\ Unlocked(i) /\ job'[i].assignee = e
                         /\ \A k \in Job \ {i} : job'[k] = job[k]
    BY <1>8 DEF ConfirmOverride, Overridable, DispatchTypeOK
  <2> QED BY <2>1, HandCounts
<1> QED
  BY <1>3, <1>4, <1>5, <1>6, <1>7, <1>8
  DEF DispatchNext, CycleStep, dispatchVars, ListDrivers, ApplyDecision, AssignJob, EnqueueFifo,
      StartCycle, BeginOverride, AutoAssign, SetPresence

(***************************************************************************)
(* A driver gets a job beyond the capacity only from the desk, or from an  *)
(* assignment that checked the driver before another job or a lower        *)
(* capacity came in between (create_delivery_job, assign_delivery_job,     *)
(* _try_auto_assign_delivery_job, set_driver_presence).                    *)
(***************************************************************************)
THEOREM OverloadsExplained == DispatchSpec => OverloadExplained
<1>1. DispatchIInv /\ [DispatchNext]_dispatchVars
         => [\A d \in Driver :
               (OpenJobs(d)' > OpenJobs(d) /\ OpenJobs(d)' > capacity[d])
                  => \E j \in Job : /\ job'[j] # job[j] /\ job'[j].assignee = d
                                   /\ (Unlocked(j) \/ j \in stale)]_dispatchVars
  BY StepOverload
<1> QED BY <1>1, DispatchInitIInv, DispatchNextIInv, PTL DEF DispatchSpec, OverloadExplained

\* A step changes the job only of a row that is not finished.
LEMMA StepFrozen ==
    ASSUME DispatchIInv, [DispatchNext]_dispatchVars, NEW j \in Job, job[j].status = "closed"
    PROVE  job'[j] = job[j]
<1> USE DEF DispatchIInv
<1>1. \A i \in Job : flight[i] # NoDriver => i # j
  BY DEF JobsInOrder
<1>2. ASSUME NEW i \in Job, flight[i] # NoDriver, Written(i) PROVE job'[j] = job[j]
  BY <1>1, <1>2 DEF Written, DispatchTypeOK
<1>3. CASE UNCHANGED job
  BY <1>3
<1>4. ASSUME NEW c \in Cycle, AssignCommits(c) \/ QueueCommits(c) PROVE job'[j] = job[j]
  BY <1>2, <1>4 DEF AssignCommits, QueueCommits, At, DispatchTypeOK, CyclesInOrder, Ended
<1>5. ASSUME NEW i \in Job, CreateJob(i) \/ CloseJob(i) PROVE job'[j] = job[j]
  BY <1>5 DEF CreateJob, CloseJob, Inserted, DispatchTypeOK
<1>8. ASSUME NEW i \in Job, NEW d \in Driver, CreateJobFor(i, d) PROVE job'[j] = job[j]
  BY <1>8 DEF CreateJobFor, DispatchTypeOK
<1>6. ASSUME NEW i \in Job, AutoCommits(i) PROVE job'[j] = job[j]
  BY <1>2, <1>6 DEF AutoCommits, Unlocked
<1>7. ASSUME NEW d \in Driver, ConfirmOverride(d) PROVE job'[j] = job[j]
  BY <1>7 DEF ConfirmOverride, Overridable, DispatchTypeOK
<1> QED
  BY <1>3, <1>4, <1>5, <1>6, <1>7, <1>8
  DEF DispatchNext, CycleStep, dispatchVars, ListDrivers, ApplyDecision, AssignJob, EnqueueFifo,
      StartCycle, BeginOverride, AutoAssign, SetPresence

(***************************************************************************)
(* A completed or failed job keeps its status and its driver, however late *)
(* a cycle, a desk or a transaction comes along (assign_delivery_job).     *)
(***************************************************************************)
THEOREM FinishedJobsFrozen == DispatchSpec => FinishedJobFrozen
<1>1. DispatchIInv /\ [DispatchNext]_dispatchVars
         => [\A j \in Job : job[j].status = "closed" => job'[j] = job[j]]_dispatchVars
  BY StepFrozen
<1> QED BY <1>1, DispatchInitIInv, DispatchNextIInv, PTL DEF DispatchSpec, FinishedJobFrozen

\* Only a commit ends a cycle as 'accepted', and it has written the driver.
LEMMA StepAccepted ==
    ASSUME DispatchIInv, [DispatchNext]_dispatchVars, NEW c \in Cycle,
           ~At(c, "accepted"), cycle'[c].pc = "accepted"
    PROVE  job'[cycle[c].job].assignee = cycle[c].cur
<1> USE DEF DispatchIInv
<1>1. Unborn \in CycleRec /\ Unborn.pc = "unborn"
  BY DispatchConstants DEF Unborn, CycleRec
<1>2. \A p : [Unborn EXCEPT !.pc = p].pc = p /\ [Unborn EXCEPT !.pc = p, !.job = cycle[c].job].pc = p
  BY <1>1 DEF CycleRec
<1> HIDE DEF Unborn
<1>3. cycle[c] \in CycleRec /\ cycle \in [Cycle -> CycleRec]
  BY DEF DispatchTypeOK, CycleRec
<1>4. CASE AssignCommits(c)
  <2>1. cycle[c].pc = "commit" /\ Written(cycle[c].job)
    BY <1>4 DEF AssignCommits, At
  <2>2. cycle[c].job \in Job /\ flight[cycle[c].job] = cycle[c].cur
    BY <2>1 DEF CyclesInOrder, Ended
  <2> QED BY <2>1, <2>2 DEF Written, DispatchTypeOK
<1>5. ASSUME NEW e \in Cycle, CycleStep(e), e # c PROVE cycle'[c] = cycle[c]
  <2>1. CASE ListDrivers(e)
    BY <1>3, <1>5, <2>1 DEF ListDrivers, SelectNext, Fails, Ends
  <2>2. ASSUME NEW accept \in BOOLEAN, ApplyDecision(e, accept) PROVE cycle'[c] = cycle[c]
    BY <1>3, <1>5, <2>2 DEF ApplyDecision, SelectNext
  <2>3. CASE AssignJob(e)
    BY <1>3, <1>5, <2>3 DEF AssignJob, Refused, Fails, Ends
  <2>4. CASE AssignCommits(e)
    BY <1>3, <1>5, <2>4 DEF AssignCommits, Ends
  <2>5. CASE EnqueueFifo(e) \/ QueueCommits(e)
    BY <1>3, <1>5, <2>5 DEF EnqueueFifo, QueueCommits, Ends
  <2> QED BY <1>5, <2>1, <2>2, <2>3, <2>4, <2>5 DEF CycleStep
<1>6. ~ListDrivers(c)
  <2> SUFFICES ASSUME ListDrivers(c) PROVE FALSE
    OBVIOUS
  <2>1. cycle[c].pc = "list" /\ cycle[c].tried \in SUBSET Driver
    BY <1>3 DEF ListDrivers, At, CycleRec
  <2>2. SelectNext(c, {d \in Driver : Eligible(d)}, cycle[c].tried) \/ Fails(c)
    BY DEF ListDrivers
  <2>3. \E r : cycle' = [cycle EXCEPT ![c] = r] /\ r.pc # "accepted"
    BY <2>1, <2>2, SelectMoves, FailsMoves
  <2> QED BY <1>3, <2>3
<1>7. ASSUME NEW accept \in BOOLEAN, ApplyDecision(c, accept) PROVE FALSE
  <2>1. cycle[c].pc = "offered" /\ cycle[c].cands \in SUBSET Driver /\ Tried(c) \in SUBSET Driver
    BY <1>3, <1>7, CycleProper DEF ApplyDecision, At, CycleRec, Tried, Proper
  <2>2. CASE SelectNext(c, cycle[c].cands, Tried(c))
    <3>1. \E r : cycle' = [cycle EXCEPT ![c] = r] /\ r.pc # "accepted"
      BY <2>1, <2>2, SelectMoves
    <3> QED BY <1>3, <3>1
  <2>3. CASE ~SelectNext(c, cycle[c].cands, Tried(c))
    BY <1>3, <1>7, <2>3 DEF ApplyDecision, CycleRec
  <2> QED BY <2>2, <2>3
<1>8. ~AssignJob(c)
  <2> SUFFICES ASSUME AssignJob(c) PROVE FALSE
    OBVIOUS
  <2>1. cycle[c].pc = "assign"
    BY DEF AssignJob, At
  <2>2. CASE Fails(c)
    <3>1. \E r : cycle' = [cycle EXCEPT ![c] = r] /\ r.pc # "accepted"
      BY <2>1, <2>2, FailsMoves
    <3> QED BY <1>3, <3>1
  <2>3. CASE ~Fails(c)
    BY <1>3, <2>3 DEF AssignJob, Refused, CycleRec
  <2> QED BY <2>2, <2>3
<1>9. ~(EnqueueFifo(c) \/ QueueCommits(c))
  <2> SUFFICES ASSUME EnqueueFifo(c) \/ QueueCommits(c) PROVE FALSE
    OBVIOUS
  <2>1. CASE Ends(c, "fifo_queued")
    <3>1. cycle'[c] = [Unborn EXCEPT !.pc = "fifo_queued"]
      BY <1>3, <2>1 DEF Ends
    <3> QED BY <1>2, <3>1
  <2>2. CASE cycle' = [cycle EXCEPT ![c].pc = "queued"]
    BY <1>3, <2>2 DEF CycleRec
  <2> QED BY <2>1, <2>2 DEF EnqueueFifo, QueueCommits
<1>10. ASSUME NEW e \in Cycle, NEW j \in Job, StartCycle(e, j) PROVE FALSE
  BY <1>3, <1>10 DEF StartCycle, At, CycleRec
<1>11. CASE UNCHANGED cycle
  BY <1>11 DEF At
<1>12. ASSUME NEW e \in Cycle, CycleStep(e) PROVE job'[cycle[c].job].assignee = cycle[c].cur
  <2>1. e = c
    BY <1>5, <1>12 DEF At
  <2> QED BY <1>4, <1>6, <1>7, <1>8, <1>9, <1>12, <2>1 DEF CycleStep
<1> QED
  BY <1>10, <1>11, <1>12
  DEF DispatchNext, dispatchVars, CreateJob, CreateJobFor, CloseJob, BeginOverride, AutoAssign, AutoCommits,
      ConfirmOverride, SetPresence

(***************************************************************************)
(* A cycle that ends as 'accepted' has left the job with the driver who    *)
(* accepted, whatever was refused, lost or tried again on the way          *)
(* (runSqlDeliveryDispatchCycle, DeliveryDispatchWorkflow).                *)
(***************************************************************************)
THEOREM AcceptedJobsAssigned == DispatchSpec => AcceptedIsAssigned
<1>1. DispatchIInv /\ [DispatchNext]_dispatchVars
         => [\A c \in Cycle : (~At(c, "accepted") /\ cycle'[c].pc = "accepted")
                => job'[cycle[c].job].assignee = cycle[c].cur]_dispatchVars
  BY StepAccepted
<1> QED BY <1>1, DispatchInitIInv, DispatchNextIInv, PTL DEF DispatchSpec, AcceptedIsAssigned

\* Who may take an assigned job away from its driver.
LEMMA StepKeeps ==
    ASSUME DispatchIInv, [DispatchNext]_dispatchVars, NEW j \in Job,
           job[j].assignee # NoDriver, job'[j].assignee # job[j].assignee
    PROVE  \/ desk = j /\ Unlocked(j)
           \/ \E c \in Cycle : At(c, "commit") /\ cycle[c].job = j /\ job'[j].assignee = cycle[c].cur
<1> USE DEF DispatchIInv
<1>1. ASSUME NEW i \in Job, flight[i] # NoDriver, Written(i)
      PROVE  \E c \in Cycle : At(c, "commit") /\ cycle[c].job = j /\ job'[j].assignee = cycle[c].cur
  <2>1. i = j /\ job'[j].assignee = flight[j]
    BY <1>1 DEF Written, DispatchTypeOK
  <2>2. PICK c \in Cycle : At(c, "commit") /\ cycle[c].job = j
    BY <1>1, <2>1 DEF AutoTakesFree
  <2> QED BY <2>1, <2>2 DEF CyclesInOrder, At
<1>2. ASSUME NEW c \in Cycle, AssignCommits(c) \/ QueueCommits(c)
      PROVE  \E e \in Cycle : At(e, "commit") /\ cycle[e].job = j /\ job'[j].assignee = cycle[e].cur
  <2>1. cycle[c].job \in Job /\ flight[cycle[c].job] # NoDriver /\ Written(cycle[c].job)
    BY <1>2 DEF AssignCommits, QueueCommits, At, DispatchTypeOK, CyclesInOrder, Ended
  <2> QED BY <1>1, <2>1
<1>3. CASE UNCHANGED job
  BY <1>3
<1>4. ASSUME NEW i \in Job, CreateJob(i) \/ CloseJob(i) PROVE FALSE
  <2>1. job \in [Job -> [status : Status, assignee : Driver \cup {NoDriver}]]
    BY DEF DispatchTypeOK
  <2>2. \E x, y \in Job : \E u, v : \/ job' = [job EXCEPT ![x].status = u, ![y].status = v]
                                  \/ job' = [job EXCEPT ![x].status = u]
    BY <1>4 DEF CreateJob, CloseJob
  <2> HIDE DEF DispatchIInv
  <2> QED BY <2>1, <2>2
<1>5. ASSUME NEW i \in Job, AutoCommits(i)
      PROVE  \E c \in Cycle : At(c, "commit") /\ cycle[c].job = j /\ job'[j].assignee = cycle[c].cur
  BY <1>1, <1>5 DEF AutoCommits, Unlocked
<1>6. ASSUME NEW d \in Driver, ConfirmOverride(d) PROVE desk = j /\ Unlocked(j)
  BY <1>6 DEF ConfirmOverride, Overridable, DispatchTypeOK
<1>7. ASSUME NEW i \in Job, NEW d \in Driver, CreateJobFor(i, d) PROVE FALSE
  BY <1>7 DEF CreateJobFor, DispatchTypeOK, JobsInOrder
<1> QED
  BY <1>2, <1>3, <1>4, <1>5, <1>6, <1>7
  DEF DispatchNext, CycleStep, dispatchVars, ListDrivers, ApplyDecision, AssignJob, EnqueueFifo,
      StartCycle, BeginOverride, AutoAssign, SetPresence

(***************************************************************************)
(* A driver loses an assigned job only to a driver who accepted it in a    *)
(* cycle or to the desk: the auto-assignment gives away free jobs only,    *)
(* though it commits long after it looked (_try_auto_assign_delivery_job). *)
(***************************************************************************)
THEOREM DriversKeepJobs == DispatchSpec => DriverKeepsJob
<1>1. DispatchIInv /\ [DispatchNext]_dispatchVars
         => [\A j \in Job :
               (job[j].assignee # NoDriver /\ job'[j].assignee # job[j].assignee)
                  => \/ desk = j /\ Unlocked(j)
                     \/ \E c \in Cycle : At(c, "commit") /\ cycle[c].job = j
                                         /\ job'[j].assignee = cycle[c].cur]_dispatchVars
  BY StepKeeps
<1> QED BY <1>1, DispatchInitIInv, DispatchNextIInv, PTL DEF DispatchSpec, DriverKeepsJob
=============================================================================
