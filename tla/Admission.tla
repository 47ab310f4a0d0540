------------------------------ MODULE Admission ------------------------------
(***************************************************************************)
(* How a request becomes a job: admit() as it is called, concurrently, by  *)
(* the webhook (with GitHub's delivery id), by a manual run and by the     *)
(* replay of a failed job (without one).                                   *)
(*                                                                         *)
(* admit() looks the delivery up, looks for a live job of the same key,    *)
(* and then writes in one transaction: it joins that job, or counts itself *)
(* into the minute's window and creates one.  The lookups are statements   *)
(* of their own, so what they saw may be stale when the transaction        *)
(* commits; the unique constraints catch it, and the lookups start over,   *)
(* three times at most.                                                    *)
(***************************************************************************)
EXTENDS Naturals, FiniteSets

CONSTANTS
    Requests,       \* HTTP requests being served
    Deliveries,     \* values of X-GitHub-Delivery
    Keys,           \* values of active_key
    KeyOf,          \* the key of the event a delivery carries
    JobIds,         \* primary keys of "jobs": a bound on the jobs created
    Windows,        \* the minutes: a bound on the time that passes
    Limit,          \* MAX_JOBS_PER_MINUTE
    Tries,          \* attempts of admit at a conflict-free transaction
    None

ASSUME AdmissionAssumption ==
    /\ KeyOf \in [Deliveries -> Keys]
    /\ Windows \subseteq Nat /\ 0 \in Windows
    /\ Limit \in Nat /\ Tries \in Nat \ {0}
    /\ None \notin JobIds \cup Deliveries \cup Keys

VARIABLES
    row,            \* jobs: key, whether it is live, and who created it
    delivery,       \* webhook_deliveries: the job of each delivery id
    count,          \* admission_windows
    minute,         \* the current minute
    req             \* the requests' control state

vars == <<row, delivery, count, minute, req>>

-----------------------------------------------------------------------------
Unborn == [state |-> "absent", key |-> None, by |-> None, window |-> 0]

Idle == [pc |-> "idle", key |-> None, id |-> None, try |-> 0, found |-> None,
         window |-> 0, answer |-> "none", job |-> None]

Init ==
    /\ row = [j \in JobIds |-> Unborn]
    /\ delivery = [d \in Deliveries |-> None]
    /\ count = [m \in Windows |-> 0]
    /\ minute = 0
    /\ req = [r \in Requests |-> Idle]

-----------------------------------------------------------------------------
(***************************************************************************)
(* Slips that a change of the code could make, each a variant of the       *)
(* definition it is named after.                                           *)
(***************************************************************************)
RoomOffByOne(m) == count[m] =< Limit

KeyFreeUnchecked(k) == TRUE

DeliveryFreeUnchecked(d) == TRUE

RecordedByCreatorOnly(me, j) ==
    IF me.id = None \/ me.pc = "join" THEN delivery
    ELSE [delivery EXCEPT ![me.id] = j]

CountedAnyway(m, created) == [count EXCEPT ![m] = @ + 1]

-----------------------------------------------------------------------------
(***************************************************************************)
(* A request arrives: a webhook carries its delivery id and the key of its *)
(* event, and GitHub may send it again; a manual request has a key only.   *)
(***************************************************************************)
FirstStep(d) == IF d = None THEN "active" ELSE "delivery"

Arrive(r, k, d) ==
    /\ req[r].pc = "idle"
    /\ (d # None => k = KeyOf[d])
    /\ req' = [req EXCEPT ![r] = [Idle EXCEPT
                 !.pc = FirstStep(d),
                 !.key = k, !.id = d]]
    /\ UNCHANGED <<row, delivery, count, minute>>

Answer(r, a, j) ==
    req' = [req EXCEPT ![r] = [@ EXCEPT !.pc = "done", !.answer = a, !.job = j]]

\* "delivery = db.get(Delivery, delivery_id)": a known delivery has its job.
LookUpDelivery(r) ==
    LET me == req[r] IN
    /\ me.pc = "delivery"
    /\ IF delivery[me.id] # None
         THEN Answer(r, "duplicate", delivery[me.id])
         ELSE req' = [req EXCEPT ![r].pc = "active"]
    /\ UNCHANGED <<row, delivery, count, minute>>

Live(k) == {j \in JobIds : row[j].state = "live" /\ row[j].key = k}

\* "existing": a live job of the key is joined, and answered at once when there
\* is no delivery to record.
FindLive(r) ==
    /\ req[r].pc = "active"
    /\ \E j \in Live(req[r].key) :
          IF req[r].id = None
            THEN Answer(r, "duplicate", j)
            ELSE req' = [req EXCEPT ![r] = [@ EXCEPT !.pc = "join", !.found = j]]
    /\ UNCHANGED <<row, delivery, count, minute>>

\* Nothing to join; the stamp that names the window is read now.
FindNone(r) ==
    /\ req[r].pc = "active"
    /\ Live(req[r].key) = {}
    /\ req' = [req EXCEPT ![r] = [@ EXCEPT !.pc = "create", !.window = minute]]
    /\ UNCHANGED <<row, delivery, count, minute>>

\* IntegrityError: rollback, and the lookups again while tries are left.
Conflict(r) ==
    req' = [req EXCEPT ![r] =
              IF req[r].try + 1 < Tries
                THEN [@ EXCEPT !.pc = FirstStep(req[r].id), !.try = req[r].try + 1,
                               !.found = None]
                ELSE [@ EXCEPT !.pc = "done", !.answer = "error"]]

DeliveryFree(d) == d # None => delivery[d] = None

\* The delivery table with this request's delivery mapped to j.
Recorded(me, j) ==
    IF me.id = None THEN delivery ELSE [delivery EXCEPT ![me.id] = j]

Join(r) ==
    LET me == req[r] IN
    /\ me.pc = "join"
    /\ IF DeliveryFree(me.id)
         THEN /\ delivery' = Recorded(me, me.found)
              /\ Answer(r, "duplicate", me.found)
         ELSE Conflict(r) /\ UNCHANGED delivery
    /\ UNCHANGED <<row, count, minute>>

-----------------------------------------------------------------------------
(***************************************************************************)
(* The creating transaction.  The conditional UPDATE of the window comes   *)
(* first and locks its row; a full window or a unique constraint rolls     *)
(* the whole transaction back, the count included.                         *)
(***************************************************************************)
Room(m) == count[m] < Limit

KeyFree(k) == Live(k) = {}

\* The window's count after the transaction: a rollback takes the increment back.
Counted(m, created) == IF created THEN [count EXCEPT ![m] = @ + 1] ELSE count

Refuse(r) ==
    LET me == req[r] IN
    /\ me.pc = "create"
    /\ ~ Room(me.window)
    /\ Answer(r, "limited", None)
    /\ UNCHANGED <<row, delivery, count, minute>>

CreateConflicts(r) ==
    LET me == req[r] IN
    /\ me.pc = "create"
    /\ Room(me.window)
    /\ ~ (KeyFree(me.key) /\ DeliveryFree(me.id))
    /\ count' = Counted(me.window, FALSE)
    /\ Conflict(r)
    /\ UNCHANGED <<row, delivery, minute>>

Create(r, j) ==
    LET me == req[r] IN
    /\ me.pc = "create"
    /\ Room(me.window)
    /\ KeyFree(me.key) /\ DeliveryFree(me.id)
    /\ row[j].state = "absent"
    /\ row' = [row EXCEPT ![j] = [state |-> "live", key |-> me.key,
                                  by |-> me.id, window |-> me.window]]
    /\ delivery' = Recorded(me, j)
    /\ count' = Counted(me.window, TRUE)
    /\ Answer(r, "queued", j)
    /\ UNCHANGED minute

\* The response is sent and the request is over.
Reply(r) ==
    /\ req[r].pc = "done"
    /\ req' = [req EXCEPT ![r] = Idle]
    /\ UNCHANGED <<row, delivery, count, minute>>

\* The web process dies: no answer, and nothing uncommitted stays.
Dies(r) ==
    /\ req[r].pc \notin {"idle", "done"}
    /\ req' = [req EXCEPT ![r] = Idle]
    /\ UNCHANGED <<row, delivery, count, minute>>

-----------------------------------------------------------------------------
\* The queue ends a job at any moment and releases its key (see JobQueue).
EndJob(j) ==
    /\ row[j].state = "live"
    /\ row' = [row EXCEPT ![j].state = "ended"]
    /\ UNCHANGED <<delivery, count, minute, req>>

NextMinute ==
    /\ minute + 1 \in Windows
    /\ minute' = minute + 1
    /\ UNCHANGED <<row, delivery, count, req>>

RequestStep(r) ==
    \/ \E k \in Keys, d \in Deliveries \cup {None} : Arrive(r, k, d)
    \/ LookUpDelivery(r)
    \/ FindLive(r)
    \/ FindNone(r)
    \/ Join(r)
    \/ Refuse(r)
    \/ CreateConflicts(r)
    \/ \E j \in JobIds : Create(r, j)
    \/ Reply(r)
    \/ Dies(r)

Next ==
    \/ \E r \in Requests : RequestStep(r)
    \/ \E j \in JobIds : EndJob(j)
    \/ NextMinute

Spec == Init /\ [][Next]_vars

-----------------------------------------------------------------------------
(***************************************************************************)
(* Safety.                                                                 *)
(***************************************************************************)
Row == [state : {"absent", "live", "ended"}, key : Keys \cup {None},
        by : Deliveries \cup {None}, window : Windows]

Request ==
    [pc : {"idle", "delivery", "active", "join", "create", "done"},
     key : Keys \cup {None}, id : Deliveries \cup {None}, try : 0 .. Tries - 1,
     found : JobIds \cup {None}, window : Windows,
     answer : {"none", "queued", "duplicate", "limited", "error"},
     job : JobIds \cup {None}]

\* The state has the shape of the tables and of the requests' local variables.
TypeOK ==
    /\ row \in [JobIds -> Row]
    /\ delivery \in [Deliveries -> JobIds \cup {None}]
    /\ count \in [Windows -> 0 .. Limit]
    /\ minute \in Windows
    /\ req \in [Requests -> Request]

\* No answer before the commit: a webhook told "queued" or "duplicate" finds its
\* delivery recorded, under the very job it was told (job_service.py:32).
AnswerIsRecorded ==
    \A r \in Requests :
        req[r].answer \in {"queued", "duplicate"} /\ req[r].id # None =>
            delivery[req[r].id] = req[r].job

\* Deduplication survives completion: a delivery sent again, at the same time or
\* after its job has ended, never creates a second job.
OneJobPerDelivery ==
    \A i, j \in JobIds :
        row[i].by # None /\ row[i].by = row[j].by => i = j

\* One live job per resource, and a recorded delivery leads to a job of the
\* resource its event is about, however stale the lookup that found it.
OneLiveJobPerKey ==
    /\ \A i, j \in JobIds :
          row[i].state = "live" /\ row[j].state = "live" /\ row[i].key = row[j].key
          => i = j
    /\ \A d \in Deliveries : delivery[d] # None =>
          row[delivery[d]].state # "absent" /\ row[delivery[d]].key = KeyOf[d]

\* The counter of a window is the number of jobs admitted in it: conflicts and
\* refusals consume nothing, and nobody is admitted uncounted.
WindowCountsJobs ==
    \A m \in Windows :
        count[m] = Cardinality({j \in JobIds :
                                  row[j].state # "absent" /\ row[j].window = m})

-----------------------------------------------------------------------------
(***************************************************************************)
(* What makes these inductive: a request that has found a job knows one of *)
(* its own resource, and the creator of a job is recorded under that job.  *)
(***************************************************************************)
RequestsAgree ==
    \A r \in Requests :
        /\ req[r].pc # "idle" =>
              /\ req[r].key \in Keys
              /\ req[r].id # None => req[r].key = KeyOf[req[r].id]
        /\ req[r].pc # "done" => req[r].answer = "none"
        /\ req[r].answer \in {"queued", "duplicate"} => req[r].job # None
        /\ req[r].pc = "delivery" => req[r].id # None
        /\ req[r].pc = "join" =>
              /\ req[r].id # None /\ req[r].found # None
              /\ row[req[r].found].state # "absent"
              /\ row[req[r].found].key = req[r].key

CreatorsRecorded ==
    \A j \in JobIds :
        /\ row[j].by # None => delivery[row[j].by] = j
        /\ row[j].state = "absent" <=> row[j].key = None

InductiveInvariant ==
    /\ TypeOK
    /\ RequestsAgree
    /\ CreatorsRecorded
    /\ AnswerIsRecorded
    /\ OneLiveJobPerKey
    /\ WindowCountsJobs

\* A delivery keeps the job it was first recorded under.
DeliveryNeverMoves ==
    [][\A d \in Deliveries : delivery[d] # None => delivery'[d] = delivery[d]]_vars
=============================================================================
