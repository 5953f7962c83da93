--------------------------- MODULE DeliveryDispatch ---------------------------
(***************************************************************************)
(* Finding a driver for a delivery job.  A dispatch cycle lists the        *)
(* eligible drivers, offers the job to one after the other and assigns it  *)
(* to the first who accepts; when nobody is left it hands the job to the   *)
(* SQL auto-assignment.  The cycle is run by the Edge function             *)
(* delivery-dispatch-cycle and, the same, by runSqlDeliveryDispatchCycle   *)
(* ("edge"), and by the Temporal DeliveryDispatchWorkflow ("workflow"),    *)
(* whose activities are tried up to three times and which lists the        *)
(* drivers again after every offer.                                        *)
(*                                                                         *)
(* Cycles, the dispatcher's desk, the insert trigger and the drivers'      *)
(* presence interleave.  assign_delivery_job and                           *)
(* _try_auto_assign_delivery_job lock the job's row, read the driver's     *)
(* presence and open jobs without a lock, and then write: two transactions *)
(* on different jobs overlap, so the read and the commit are two steps     *)
(* here.  A call may be lost on the way to the database or on the way      *)
(* back.  The ranking by distance and load is left open: any driver of the *)
(* list may be the next.                                                   *)
(***************************************************************************)
EXTENDS Integers, FiniteSets

CONSTANTS
    Job, Driver,
    Cycle,        \* a cycle of each of these implementations is run, once
    NoJob, NoDriver,
    MaxCapacity,  \* bound: the greatest capacity a driver sets
    MaxAttempts,  \* retry.maximumAttempts of the workflow's activities
    MaxEvents     \* bound: lost calls, changes of presence or capacity, override forms

\* driver_presence.capacity >= 0; an activity is tried at least once.
ASSUME DispatchConstants ==
    /\ IsFiniteSet(Job) /\ NoJob \notin Job /\ NoDriver \notin Driver
    /\ MaxCapacity \in Nat \ {0} /\ MaxAttempts \in Nat \ {0} /\ MaxEvents \in Nat

VARIABLES
    job,      \* delivery_jobs: status and assignee_user_id
    flight,   \* the driver an open transaction on the job's row is about to write
    onDuty,   \* drivers 'available' or 'on_duty' within their shift
    capacity, \* driver_presence.capacity
    cycle,    \* the dispatch cycles
    desk,     \* the job for which the dispatcher has opened the override form
    stale,    \* history: open transactions that picked a driver who has since been
              \* given a job by another step, or has lowered the capacity
    events

dispatchVars == <<job, flight, onDuty, capacity, cycle, desk, stale, events>>

\* 'pending' and 'dispatched' are one here: nothing that assigns a driver
\* tells them apart.  So are 'completed' and 'failed'.  A job is "new" while
\* the transaction that inserts it is open.
Status   == {"none", "new", "open", "closed"}
Visible  == {j \in Job : job[j].status \in {"open", "closed"}}
Ended    == {"accepted", "fifo_queued", "error"}

\* A cycle that has not begun.
Unborn == [pc |-> "unborn", job |-> NoJob, cands |-> {},
           tried |-> {}, cur |-> NoDriver, attempts |-> 0]

DispatchTypeOK ==
    /\ job \in [Job -> [status : Status,
                        assignee : Driver \cup {NoDriver}]]
    /\ flight \in [Job -> Driver \cup {NoDriver}]
    /\ onDuty \subseteq Driver /\ capacity \in [Driver -> 0 .. MaxCapacity]
    /\ cycle \in [Cycle -> [pc : {"unborn", "list", "offered", "assign", "commit",
                                  "queue", "queued"} \cup Ended,
                            job : Job \cup {NoJob}, cands : SUBSET Driver,
                            tried : SUBSET Driver, cur : Driver \cup {NoDriver},
                            attempts : 0 .. MaxAttempts - 1]]
    /\ desk \in Job \cup {NoJob}
    /\ stale \subseteq {j \in Job : flight[j] # NoDriver}
    /\ events \in 0 .. MaxEvents
    /\ \A c \in Cycle : cycle[c].pc \in {"commit", "queued"} => flight[cycle[c].job] # NoDriver

DispatchInit ==
    /\ job = [j \in Job |-> [status |-> "none", assignee |-> NoDriver]]
    /\ flight = [j \in Job |-> NoDriver]
    /\ onDuty = Driver /\ capacity = [d \in Driver |-> 1]
    /\ cycle = [c \in Cycle |-> Unborn]
    /\ desk = NoJob /\ stale = {} /\ events = 0

----------------------------------------------------------------------------
\* Shared conditions.

\* _driver_open_job_count.
OpenJobs(d) == Cardinality({j \in Job : job[j].assignee = d /\ job[j].status = "open"})

\* _driver_eligible_for_assign, and the same condition in the two queries.
\* Mutation: a driver at the capacity still takes one more.
EligibleAtCapacity(d) == d \in onDuty /\ OpenJobs(d) <= capacity[d]
Eligible(d) == d \in onDuty /\ OpenJobs(d) < capacity[d]

\* The job's row is not locked by an open transaction.
Unlocked(j) == flight[j] = NoDriver

Event == events < MaxEvents /\ events' = events + 1

\* The open transactions that have picked the driver: what they read of the
\* jobs and the capacity is no longer so when another step changes it.
Picked(d) == {k \in Job : flight[k] = d}

\* The open transaction on job j commits.
Written(j) ==
    /\ job' = [job EXCEPT ![j].assignee = flight[j],
                          ![j].status = IF @ = "new" THEN "open" ELSE @]
    /\ flight' = [flight EXCEPT ![j] = NoDriver]
    /\ stale' = (stale \cup Picked(flight[j])) \ {j}

At(c, pc) == cycle[c].pc = pc

\* The cycle is over.
Ends(c, result) == cycle' = [cycle EXCEPT ![c] = [Unborn EXCEPT !.pc = result]]

\* An activity has failed: the workflow tries it again, up to MaxAttempts
\* times in all; the Edge function answers with the error.
\* Mutation: the attempts are not limited.
FailsForever(c) ==
    IF c = "workflow" THEN cycle' = [cycle EXCEPT ![c].attempts = @ + 1] ELSE Ends(c, "error")
Fails(c) ==
    IF c = "workflow" /\ cycle[c].attempts < MaxAttempts - 1
    THEN cycle' = [cycle EXCEPT ![c].attempts = @ + 1]
    ELSE Ends(c, "error")

----------------------------------------------------------------------------
\* The dispatch cycle.

StartCycle(c, j) ==
    /\ At(c, "unborn") /\ j \in Visible
    /\ cycle' = [cycle EXCEPT ![c] = [@ EXCEPT !.pc = "list", !.job = j]]
    /\ UNCHANGED <<job, flight, onDuty, capacity, desk, stale, events>>

\* selectNextCourierOffer / selectNext, and sendOffer, which does nothing: a
\* listed driver who has not been tried, or the queue.
SelectNext(c, cands, tried) ==
    IF cands \subseteq tried
    THEN cycle' = [cycle EXCEPT ![c] = [Unborn EXCEPT !.pc = "queue", !.job = cycle[c].job]]
    ELSE \E d \in cands \ tried :
            cycle' = [cycle EXCEPT ![c] = [@ EXCEPT !.pc = "offered", !.cur = d, !.cands = cands,
                                                    !.tried = tried, !.attempts = 0]]

\* listEligibleCouriers / suggest_delivery_assignees.
ListDrivers(c) ==
    /\ At(c, "list")
    /\ \/ SelectNext(c, {d \in Driver : Eligible(d)}, cycle[c].tried) /\ UNCHANGED events
       \/ Event /\ Fails(c)
    /\ UNCHANGED <<job, flight, onDuty, capacity, desk, stale>>

\* The drivers who will not be asked again: a refusal and the timeout count
\* alike.  Mutation: the driver who turned the offer down is not noted.
TriedForgets(c) == cycle[c].tried
Tried(c) == cycle[c].tried \cup {cycle[c].cur}

\* applyOfferDecision / applyDecision.  The Edge function goes on with the
\* list it has, the workflow asks for a new one.
ApplyDecision(c, accept) ==
    /\ At(c, "offered")
    /\ \/ accept /\ cycle' = [cycle EXCEPT ![c] = [@ EXCEPT !.pc = "assign", !.cands = {}, !.tried = {}]]
       \/ ~accept /\ c = "edge" /\ SelectNext(c, cycle[c].cands, Tried(c))
       \/ /\ ~accept /\ c = "workflow"
          /\ cycle' = [cycle EXCEPT ![c] = [@ EXCEPT !.pc = "list", !.cur = NoDriver, !.cands = {},
                                                     !.tried = Tried(c)]]
    /\ UNCHANGED <<job, flight, onDuty, capacity, desk, stale, events>>

\* assign_delivery_job with p_override = false, up to the UPDATE: the job's
\* row is locked, a finished job and a driver who is no longer eligible are
\* refused.  An assignee the job already has is no reason to refuse.
\* Mutations: the status is not looked at; the refusal passes for success.
AssignableAny(c) == Eligible(cycle[c].cur)
Assignable(c)    == job[cycle[c].job].status # "closed" /\ Eligible(cycle[c].cur)
RefusedQuietly(c) == Ends(c, "accepted")
Refused(c) == Fails(c)

AssignJob(c) ==
    /\ At(c, "assign")
    /\ \/ /\ Unlocked(cycle[c].job) /\ Assignable(c)
          /\ flight' = [flight EXCEPT ![cycle[c].job] = cycle[c].cur]
          /\ cycle' = [cycle EXCEPT ![c].pc = "commit"]
          /\ UNCHANGED events
       \/ /\ Unlocked(cycle[c].job) /\ ~Assignable(c)
          /\ Refused(c)
          /\ UNCHANGED <<flight, events>>
       \/ /\ Event /\ Fails(c)                    \* the call does not arrive
          /\ UNCHANGED flight
    /\ UNCHANGED <<job, onDuty, capacity, desk, stale>>

\* The UPDATE commits and the cycle hears of it, or does not.
AssignCommits(c) ==
    /\ At(c, "commit")
    /\ Written(cycle[c].job)
    /\ \/ Ends(c, "accepted") /\ UNCHANGED events
       \/ /\ Event
          /\ IF c = "workflow" /\ cycle[c].attempts < MaxAttempts - 1
             THEN cycle' = [cycle EXCEPT ![c].attempts = @ + 1, ![c].pc = "assign"]
             ELSE Ends(c, "error")
    /\ UNCHANGED <<onDuty, capacity, desk>>

\* _try_auto_assign_delivery_job leaves a job that has a driver or is closed,
\* and otherwise takes an eligible driver.
\* Mutation: it looks for a driver although the job has one.
TakesDriverAlways(j) == job[j].status = "open"
TakesDriver(j) == job[j].status = "open" /\ job[j].assignee = NoDriver
AutoPicks(j) == \E d \in Driver : Eligible(d) /\ flight' = [flight EXCEPT ![j] = d]

\* enqueueFifo: the cycle ignores what the auto-assignment answers, and
\* whether it failed.
EnqueueFifo(c) ==
    LET j == cycle[c].job
    IN  /\ At(c, "queue")
        /\ \/ /\ Unlocked(j) /\ TakesDriver(j) /\ AutoPicks(j)
              /\ cycle' = [cycle EXCEPT ![c].pc = "queued"]
              /\ UNCHANGED events
           \/ /\ Unlocked(j) /\ ~(TakesDriver(j) /\ \E d \in Driver : Eligible(d))
              /\ Ends(c, "fifo_queued")
              /\ UNCHANGED <<flight, events>>
           \/ /\ Event /\ Ends(c, "fifo_queued")    \* the call does not arrive
              /\ UNCHANGED flight
        /\ UNCHANGED <<job, onDuty, capacity, desk, stale>>

QueueCommits(c) ==
    /\ At(c, "queued")
    /\ Written(cycle[c].job)
    /\ Ends(c, "fifo_queued")
    /\ UNCHANGED <<onDuty, capacity, desk, events>>

\* The mode sql_auto, trySqlAutoAssign, and the end of picking an online
\* order: the auto-assignment by itself.
AutoAssign(j) ==
    /\ j \in Visible /\ Unlocked(j) /\ TakesDriver(j) /\ AutoPicks(j)
    /\ UNCHANGED <<job, onDuty, capacity, cycle, desk, stale, events>>

\* It commits, or the insert whose trigger ran it does.
AutoCommits(j) ==
    /\ ~Unlocked(j)
    /\ ~\E c \in Cycle : cycle[c].job = j /\ cycle[c].pc \in {"commit", "queued"}
    /\ Written(j)
    /\ UNCHANGED <<onDuty, capacity, cycle, desk, events>>

----------------------------------------------------------------------------
\* The jobs, the desk and the drivers.

\* INSERT INTO delivery_jobs with no assignee.  For an online order the
\* insert trigger runs the auto-assignment in the same transaction, which
\* nobody sees before it commits.
Inserted(j) ==
    /\ job[j].status = "none"
    /\ UNCHANGED flight \/ AutoPicks(j)
InsertedStatus(j) == IF flight'[j] = NoDriver THEN "open" ELSE "new"

\* create_delivery_job: without an assignee; or with the one the dispatcher
\* names, who is not asked for presence or capacity, and whose job the insert
\* trigger leaves alone.
CreateJob(j) ==
    /\ Inserted(j)
    /\ job' = [job EXCEPT ![j].status = InsertedStatus(j)]
    /\ UNCHANGED <<onDuty, capacity, cycle, desk, stale, events>>

CreateJobFor(j, d) ==
    /\ job[j].status = "none"
    /\ job' = [job EXCEPT ![j].status = "open", ![j].assignee = d]
    /\ stale' = stale \cup Picked(d)
    /\ UNCHANGED <<flight, onDuty, capacity, cycle, desk, events>>

\* submit_delivery_pod, or fail_delivery_job, the latter with another job
\* for the second attempt or without.
CloseJob(j) ==
    /\ job[j].status = "open" /\ Unlocked(j)
    /\ \/ /\ job' = [job EXCEPT ![j].status = "closed"]
          /\ UNCHANGED flight
       \/ \E k \in Job : /\ Inserted(k)
                         /\ job' = [job EXCEPT ![j].status = "closed",
                                               ![k].status = InsertedStatus(k)]
    /\ UNCHANGED <<onDuty, capacity, cycle, desk, stale, events>>

\* onBeginOverrideAssign: the form opens for a job that is shown without a
\* driver (canOverrideAssignDeliveryJob).
BeginOverride(j) ==
    /\ desk = NoJob /\ j \in Visible
    /\ job[j].status # "closed" /\ job[j].assignee = NoDriver
    /\ desk' = j /\ Event
    /\ UNCHANGED <<job, flight, onDuty, capacity, cycle, stale>>

\* onConfirmOverrideAssign: canOverrideAssignDeliveryJob is asked again of
\* the list loaded when the form opened; assign_delivery_job with
\* p_override = true skips the eligibility, not the status.  Or the form is
\* left.
Overridable(j) == Unlocked(j) /\ job[j].status # "closed"

ConfirmOverride(d) ==
    /\ desk # NoJob
    /\ \/ /\ Overridable(desk)
          /\ job' = [job EXCEPT ![desk].assignee = d]
          /\ stale' = stale \cup Picked(d)
       \/ UNCHANGED <<job, stale>>
    /\ desk' = NoJob
    /\ UNCHANGED <<flight, onDuty, capacity, cycle, events>>

\* set_driver_presence: the driver's status and, if given, the capacity, which
\* nothing compares with the jobs the driver has.  The beginning and the end of
\* the shift and a GPS message change the status alone.
SetPresence(d, n) ==
    /\ \E on \in SUBSET {d} : onDuty' = (onDuty \ {d}) \cup on
    /\ capacity' = [capacity EXCEPT ![d] = n]
    /\ stale' = IF n < capacity[d] THEN stale \cup Picked(d) ELSE stale
    /\ Event
    /\ UNCHANGED <<job, flight, cycle, desk>>

----------------------------------------------------------------------------
CycleStep(c) ==
    \/ ListDrivers(c)
    \/ \E accept \in BOOLEAN : ApplyDecision(c, accept)
    \/ AssignJob(c) \/ AssignCommits(c)
    \/ EnqueueFifo(c) \/ QueueCommits(c)

DispatchNext ==
    \/ \E c \in Cycle : CycleStep(c)
    \/ \E c \in Cycle, j \in Job : StartCycle(c, j)
    \/ \E j \in Job : \/ CreateJob(j) \/ CloseJob(j) \/ BeginOverride(j)
                      \/ AutoAssign(j) \/ AutoCommits(j)
    \/ \E d \in Driver : \/ ConfirmOverride(d)
                         \/ \E j \in Job : CreateJobFor(j, d)
                         \/ \E n \in 0 .. MaxCapacity : SetPresence(d, n)

DispatchSpec == DispatchInit /\ [][DispatchNext]_dispatchVars

\* Each cycle is a running request or a durable workflow, whose offers have a
\* timeout; a transaction commits.  The people owe nothing.
DispatchFairSpec ==
    /\ DispatchSpec
    /\ \A c \in Cycle : WF_dispatchVars(CycleStep(c))
    /\ \A j \in Job : WF_dispatchVars(AutoCommits(j))

----------------------------------------------------------------------------
\* Properties.

\* Only a person's decision or a race takes a driver past the capacity: the
\* job that does was given by the desk (on creation or by the override form,
\* neither of which looks at the capacity), or by an assignment that had
\* checked the driver, and the driver got another job or lowered the capacity
\* between the check and the commit.  Old lists, late decisions, repeated
\* activities, the insert trigger and second attempts do not by themselves.
OverloadExplained ==
    [][\A d \in Driver :
          (OpenJobs(d)' > OpenJobs(d) /\ OpenJobs(d)' > capacity[d])
             => \E j \in Job : /\ job'[j] # job[j] /\ job'[j].assignee = d
                              /\ (Unlocked(j) \/ j \in stale)]_dispatchVars

\* A completed or failed job keeps its status and its driver, however late a
\* cycle or a desk that saw it open comes along.
FinishedJobFrozen ==
    [][\A j \in Job : job[j].status = "closed" => job'[j] = job[j]]_dispatchVars

\* A cycle that ends as 'accepted' has left the job with the driver who
\* accepted, whatever was refused or lost on the way.
AcceptedIsAssigned ==
    [][\A c \in Cycle : (~At(c, "accepted") /\ cycle'[c].pc = "accepted")
          => job'[cycle[c].job].assignee = cycle[c].cur]_dispatchVars

\* A driver loses a job that is open only to a driver who accepted it in a
\* cycle, or to the desk when nobody holds the row: the auto-assignment, which every queued cycle, the
\* trigger and the cron path run at any time, gives away unassigned jobs only.
DriverKeepsJob ==
    [][\A j \in Job :
          (job[j].assignee # NoDriver /\ job'[j].assignee # job[j].assignee)
             => \/ desk = j /\ Unlocked(j)
                \/ \E c \in Cycle : At(c, "commit") /\ cycle[c].job = j
                                    /\ job'[j].assignee = cycle[c].cur]_dispatchVars

\* Every cycle comes to an end, though the list of drivers may change after
\* every offer and a driver who turned the job down may be listed again.
CycleEnds ==
    []<>(\A c \in Cycle : cycle[c].pc \in Ended \cup {"unborn"})
=============================================================================
