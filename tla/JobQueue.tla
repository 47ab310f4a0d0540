------------------------------ MODULE JobQueue ------------------------------
(***************************************************************************)
(* The durable job queue of DevInBox: rows of the SQL table "jobs", the    *)
(* dispatchers that turn pending rows into Redis notifications, and the RQ *)
(* work horses that claim a row, run the pipeline and record its verdict.  *)
(*                                                                         *)
(* Every action is one transaction (or one Redis call) of one process, so  *)
(* TLC interleaves the processes wherever the code commits.  Times are     *)
(* kept relative to the present: a lease is the time left before           *)
(* lease_until has passed (-1: it has), a wait is the time left before     *)
(* available_at, and Tick lets one unit of time pass.                      *)
(***************************************************************************)
EXTENDS Integers, FiniteSets

CONSTANTS
    Jobs,           \* identifiers of rows of "jobs"
    Keys,           \* values of active_key: a kind, a repository and a number
    KeyOf,          \* the key each job is admitted under
    Workers,        \* RQ work horses
    Dispatchers,    \* processes running dispatcher.py
    Tokens,         \* dispatch tokens; one no longer referred to is fresh again
    None,           \* SQL NULL
    MaxAttempts,    \* MAX_ATTEMPTS
    Lease,          \* LEASE_SECONDS
    Timeout,        \* the time after which RQ has killed a work horse
    RetryDelay,     \* retry delay after the n-th attempt: 30 s, then 120 s
    EnqueueDelay,   \* delay after a failed enqueue: 5 s
    BatchSize       \* batch_size

ASSUME ConstantsAssumption ==
    /\ KeyOf \in [Jobs -> Keys]
    /\ MaxAttempts \in Nat \ {0}
    /\ Lease \in Nat /\ Timeout \in Nat
    /\ RetryDelay \in [1 .. MaxAttempts -> Nat]
    /\ EnqueueDelay \in Nat
    /\ BatchSize \in Nat \ {0}
    /\ None \notin Jobs \cup Tokens

\* job_service.py:11 "longer than RQ's enforced 600s execution timeout".
ASSUME LeaseAssumption == Timeout =< Lease

VARIABLES
    job,            \* the table "jobs"
    queue,          \* the notifications in Redis
    worker,         \* what each work horse is doing
    disp            \* what each dispatcher is doing

vars == <<job, queue, worker, disp>>

-----------------------------------------------------------------------------
Live     == {"pending", "dispatched", "running"}
Terminal == {"failed", "succeeded"}
Verdicts == {"ok", "retry", "fatal"}
Notes    == [job : Jobs, token : Tokens]

Absent == [status |-> "absent", active |-> FALSE, attempts |-> 0,
           token |-> None, lease |-> -1, wait |-> 0]

IdleWorker == [pc |-> "idle", job |-> None, token |-> None, left |-> 0,
               verdict |-> "ok", last |-> FALSE, seen |-> 0]

IdleDispatcher == [pc |-> "idle", ids |-> {}, age |-> 0,
                   job |-> None, token |-> None]

Init ==
    /\ job = [j \in Jobs |-> Absent]
    /\ queue = {}
    /\ worker = [w \in Workers |-> IdleWorker]
    /\ disp = [d \in Dispatchers |-> IdleDispatcher]

-----------------------------------------------------------------------------
(***************************************************************************)
(* Slips that a change of the code could make, each a variant of the       *)
(* definition it is named after; the properties below tell them apart.     *)
(***************************************************************************)
AttemptsLeftOffByOne(n) == n =< MaxAttempts

ExpiredRunningOnly(row) == row.status = "running" /\ row.lease < 0

ExpireKeepingKey(row) ==
    [row EXCEPT !.status = IF row.attempts < MaxAttempts THEN "pending" ELSE "failed",
                !.wait = 0]

ExpireRetryingForEver(row) == [row EXCEPT !.status = "pending", !.wait = 0]

DueAtOnce(rows) == {j \in Jobs : rows[j].status = "pending"}

ResetByTokenOnly(row, t) == row.token = t

ClaimByTokenOnly(row, t) == row.token = t

ClaimedKeepingLease(row) ==
    [row EXCEPT !.status = "running", !.attempts = @ + 1]

FinishIgnoringStatus(row, t) == row.token = t

FinishIgnoringToken(row, t) == row.status = "running"

-----------------------------------------------------------------------------
(***************************************************************************)
(* Admission, as one transaction: the unique constraint on active_key lets *)
(* a job in only when no other job holds its key.                          *)
(***************************************************************************)
KeyFree(k) == \A i \in Jobs : job[i].active => KeyOf[i] # k

Admit(j) ==
    /\ job[j].status = "absent"
    /\ KeyFree(KeyOf[j])
    /\ job' = [job EXCEPT ![j] = [@ EXCEPT !.status = "pending",
                                           !.active = TRUE]]
    /\ UNCHANGED <<queue, worker, disp>>

-----------------------------------------------------------------------------
(***************************************************************************)
(* dispatch_batch.  The stamp is read, the expired leases are swept and    *)
(* the batch is selected in one step; then each row of the batch is        *)
(* claimed in one transaction and announced in a Redis call after it.      *)
(***************************************************************************)
AttemptsLeft(n) == n < MaxAttempts

Expired(row) == row.status \in {"dispatched", "running"} /\ row.lease < 0

Expire(row) ==
    IF AttemptsLeft(row.attempts)
      THEN [row EXCEPT !.status = "pending", !.wait = 0]
      ELSE [row EXCEPT !.status = "failed", !.wait = 0, !.active = FALSE]

Swept == [j \in Jobs |-> IF Expired(job[j]) THEN Expire(job[j]) ELSE job[j]]

Due(rows) == {j \in Jobs : rows[j].status = "pending" /\ rows[j].wait = 0}

StartBatch(d) ==
    /\ disp[d].pc = "idle"
    /\ job' = Swept
    /\ \E ids \in SUBSET Due(Swept) :
          /\ Cardinality(ids) =< BatchSize
          /\ Cardinality(ids) = BatchSize \/ ids = Due(Swept)
          /\ disp' = [disp EXCEPT ![d] =
                [@ EXCEPT !.pc = "batch", !.ids = ids, !.age = 0]]
    /\ UNCHANGED <<queue, worker>>

\* uuid4: a token nothing refers to any more.
Fresh(t) ==
    /\ \A j \in Jobs : job[j].token # t
    /\ \A n \in queue : n.token # t
    /\ \A w \in Workers : worker[w].token # t
    /\ \A d \in Dispatchers : disp[d].token # t

\* lease_until is the stamp plus LEASE_SECONDS, and the stamp has aged.
LeaseFromStamp(age) == IF age > Lease THEN -1 ELSE Lease - age

Dispatch(d, j, t) ==
    /\ disp[d].pc = "batch"
    /\ j \in disp[d].ids
    /\ job[j].status = "pending"
    /\ Fresh(t)
    /\ job' = [job EXCEPT ![j] = [@ EXCEPT
                 !.status = "dispatched", !.token = t,
                 !.lease = LeaseFromStamp(disp[d].age)]]
    /\ disp' = [disp EXCEPT ![d] = [@ EXCEPT
                  !.pc = "enqueue", !.ids = disp[d].ids \ {j},
                  !.job = j, !.token = t]]
    /\ UNCHANGED <<queue, worker>>

\* Another dispatcher was faster: "if not claimed: continue".
SkipTaken(d, j) ==
    /\ disp[d].pc = "batch"
    /\ j \in disp[d].ids
    /\ job[j].status # "pending"
    /\ disp' = [disp EXCEPT ![d].ids = @ \ {j}]
    /\ UNCHANGED <<job, queue, worker>>

NoteOf(d) == [job |-> disp[d].job, token |-> disp[d].token]

BackToBatch(d) ==
    disp' = [disp EXCEPT ![d] =
               [@ EXCEPT !.pc = "batch", !.job = None, !.token = None]]

Enqueue(d) ==
    /\ disp[d].pc = "enqueue"
    /\ queue' = queue \cup {NoteOf(d)}
    /\ BackToBatch(d)
    /\ UNCHANGED <<job, worker>>

\* The call raises; the notification may be in Redis all the same.
EnqueueRaises(d) ==
    /\ disp[d].pc = "enqueue"
    /\ queue' \in {queue, queue \cup {NoteOf(d)}}
    /\ disp' = [disp EXCEPT ![d].pc = "reset"]
    /\ UNCHANGED <<job, worker>>

\* The WHERE clause that dispatch_batch's reset and claim have in common.
HoldsDispatch(row, t) == row.status = "dispatched" /\ row.token = t

ResetApplies(row, t) == HoldsDispatch(row, t)

Reset(d) ==
    /\ disp[d].pc = "reset"
    /\ job' = IF ResetApplies(job[disp[d].job], disp[d].token)
                THEN [job EXCEPT ![disp[d].job] = [@ EXCEPT
                        !.status = "pending", !.token = None,
                        !.wait = EnqueueDelay]]
                ELSE job
    /\ BackToBatch(d)
    /\ UNCHANGED <<queue, worker>>

EndBatch(d) ==
    /\ disp[d].pc = "batch"
    /\ disp[d].ids = {}
    /\ disp' = [disp EXCEPT ![d] = IdleDispatcher]
    /\ UNCHANGED <<job, queue, worker>>

\* The process dies, or a database call raises and main() starts over.
DispatcherStops(d) ==
    /\ disp[d].pc # "idle"
    /\ disp' = [disp EXCEPT ![d] = IdleDispatcher]
    /\ UNCHANGED <<job, queue, worker>>

-----------------------------------------------------------------------------
(***************************************************************************)
(* Redis and RQ.  A notification can be lost (Redis keeps no second copy)  *)
(* and can be delivered again (an operator's "rq requeue --all").  RQ      *)
(* starts counting the job's timeout when a horse picks a notification.    *)
(***************************************************************************)
Lose(n) ==
    /\ n \in queue
    /\ queue' = queue \ {n}
    /\ UNCHANGED <<job, worker, disp>>

Pick(w, n) ==
    /\ n \in queue
    /\ worker[w].pc = "idle"
    /\ queue' \in {queue, queue \ {n}}
    /\ worker' = [worker EXCEPT ![w] = [@ EXCEPT
                    !.pc = "picked", !.job = n.job, !.token = n.token,
                    !.left = Timeout]]
    /\ UNCHANGED <<job, disp>>

-----------------------------------------------------------------------------
(***************************************************************************)
(* execute_job and claim.                                                  *)
(***************************************************************************)
ClaimApplies(row, t) == HoldsDispatch(row, t)

Claimed(row) ==
    [row EXCEPT !.status = "running", !.attempts = @ + 1, !.lease = Lease]

Claim(w) ==
    /\ worker[w].pc = "picked"
    /\ ClaimApplies(job[worker[w].job], worker[w].token)
    /\ job' = [job EXCEPT ![worker[w].job] = Claimed(@)]
    /\ worker' = [worker EXCEPT ![w].pc = "executing"]
    /\ UNCHANGED <<queue, disp>>

StaleNotification(w) ==
    /\ worker[w].pc = "picked"
    /\ ~ ClaimApplies(job[worker[w].job], worker[w].token)
    /\ worker' = [worker EXCEPT ![w] = IdleWorker]
    /\ UNCHANGED <<job, queue, disp>>

\* The pipeline returns (last = FALSE: finish runs inside the try) or raises
\* (last = TRUE: finish runs in the except clause, which then re-raises).
PipelineEnds(w, verdict, last) ==
    /\ worker[w].pc = "executing"
    /\ last => verdict # "ok"
    /\ worker' = [worker EXCEPT ![w] = [@ EXCEPT
                    !.pc = "finish", !.verdict = verdict, !.last = last]]
    /\ UNCHANGED <<job, queue, disp>>

-----------------------------------------------------------------------------
(***************************************************************************)
(* finish: a read, a check and an UPDATE by primary key, two statements    *)
(* whose only tie is the check.                                            *)
(***************************************************************************)
FinishApplies(row, t) == row.token = t /\ row.status = "running"

\* What happens when finish returns: the job is over, or the RuntimeError of
\* a failed result reaches the except clause, which calls finish again.
AfterFinish(me) ==
    IF me.last \/ me.verdict = "ok"
      THEN IdleWorker
      ELSE [me EXCEPT !.pc = "finish", !.verdict = "retry", !.last = TRUE]

\* What happens when it raises: the except clause, or the end of the horse.
AfterFinishRaises(me) ==
    IF me.last
      THEN IdleWorker
      ELSE [me EXCEPT !.pc = "finish", !.verdict = "retry", !.last = TRUE]

FinishReads(w) ==
    /\ worker[w].pc = "finish"
    /\ FinishApplies(job[worker[w].job], worker[w].token)
    /\ worker' = [worker EXCEPT ![w] = [@ EXCEPT
                    !.pc = "write", !.seen = job[worker[w].job].attempts]]
    /\ UNCHANGED <<job, queue, disp>>

FinishIgnored(w) ==
    /\ worker[w].pc = "finish"
    /\ ~ FinishApplies(job[worker[w].job], worker[w].token)
    /\ worker' = [worker EXCEPT ![w] = AfterFinish(@)]
    /\ UNCHANGED <<job, queue, disp>>

\* The row finish writes, from the attempts it read.
VerdictWritten(row, verdict, seen) ==
    IF verdict = "retry" /\ AttemptsLeft(seen)
      THEN [row EXCEPT !.status = "pending", !.wait = RetryDelay[seen]]
      ELSE [row EXCEPT !.status = IF verdict = "ok" THEN "succeeded" ELSE "failed",
                       !.active = FALSE]

WrittenBy(w) ==
    [job EXCEPT ![worker[w].job] =
       VerdictWritten(@, worker[w].verdict, worker[w].seen)]

FinishWrites(w) ==
    /\ worker[w].pc = "write"
    /\ job' = WrittenBy(w)
    /\ worker' = [worker EXCEPT ![w] = AfterFinish(@)]
    /\ UNCHANGED <<queue, disp>>

\* The commit raises; it may have been applied all the same.
FinishRaises(w) ==
    /\ worker[w].pc \in {"finish", "write"}
    /\ \/ UNCHANGED job
       \/ worker[w].pc = "write" /\ job' = WrittenBy(w)
    /\ worker' = [worker EXCEPT ![w] = AfterFinishRaises(@)]
    /\ UNCHANGED <<queue, disp>>

\* The horse dies, at any point; RQ kills it when its time is up.
Dies(w) ==
    /\ worker[w].pc # "idle"
    /\ worker' = [worker EXCEPT ![w] = IdleWorker]
    /\ UNCHANGED <<job, queue, disp>>

-----------------------------------------------------------------------------
(***************************************************************************)
(* Time.  It cannot pass a work horse whose time is up: RQ kills it first. *)
(***************************************************************************)
TimedOut(w) == worker[w].pc # "idle" /\ worker[w].left = 0

Less(n) == IF n > 0 THEN n - 1 ELSE 0

Tick ==
    /\ \A w \in Workers : ~ TimedOut(w)
    /\ job' = [j \in Jobs |-> [job[j] EXCEPT
                 !.lease = IF @ < 0 THEN -1 ELSE @ - 1,
                 !.wait = Less(@)]]
    /\ worker' = [w \in Workers |-> [worker[w] EXCEPT !.left = Less(@)]]
    /\ disp' = [d \in Dispatchers |->
                  IF disp[d].pc = "idle" \/ disp[d].age > Lease THEN disp[d]
                  ELSE [disp[d] EXCEPT !.age = @ + 1]]
    /\ UNCHANGED queue

-----------------------------------------------------------------------------
DispatcherStep(d) ==
    \/ StartBatch(d)
    \/ \E j \in Jobs : SkipTaken(d, j)
    \/ \E j \in Jobs, t \in Tokens : Dispatch(d, j, t)
    \/ Enqueue(d)
    \/ EnqueueRaises(d)
    \/ Reset(d)
    \/ EndBatch(d)
    \/ DispatcherStops(d)

WorkerStep(w) ==
    \/ \E n \in queue : Pick(w, n)
    \/ Claim(w)
    \/ StaleNotification(w)
    \/ \E verdict \in Verdicts, last \in BOOLEAN : PipelineEnds(w, verdict, last)
    \/ FinishReads(w)
    \/ FinishIgnored(w)
    \/ FinishWrites(w)
    \/ FinishRaises(w)
    \/ Dies(w)

Next ==
    \/ \E j \in Jobs : Admit(j)
    \/ \E d \in Dispatchers : DispatcherStep(d)
    \/ \E w \in Workers : WorkerStep(w)
    \/ \E n \in queue : Lose(n)
    \/ Tick

Spec == Init /\ [][Next]_vars

-----------------------------------------------------------------------------
(***************************************************************************)
(* Safety.                                                                 *)
(***************************************************************************)
JobRow == [status : {"absent"} \cup Live \cup Terminal, active : BOOLEAN,
           attempts : 0 .. MaxAttempts, token : Tokens \cup {None},
           lease : -1 .. Lease, wait : Nat]

WorkerState ==
    [pc : {"idle", "picked", "executing", "finish", "write"},
     job : Jobs \cup {None}, token : Tokens \cup {None}, left : 0 .. Timeout,
     verdict : Verdicts, last : BOOLEAN, seen : 0 .. MaxAttempts]

DispatcherState ==
    [pc : {"idle", "batch", "enqueue", "reset"}, ids : SUBSET Jobs,
     age : 0 .. Lease + 1, job : Jobs \cup {None}, token : Tokens \cup {None}]

\* The state has the shape of the tables and of the processes' local variables;
\* a process past "idle" or "batch" names a job and a token.
TypeOK ==
    /\ job \in [Jobs -> JobRow]
    /\ queue \subseteq Notes
    /\ worker \in [Workers -> WorkerState]
    /\ disp \in [Dispatchers -> DispatcherState]
    /\ \A w \in Workers : worker[w].pc # "idle" =>
          worker[w].job \in Jobs /\ worker[w].token \in Tokens
    /\ \A d \in Dispatchers : disp[d].pc \in {"enqueue", "reset"} =>
          disp[d].job \in Jobs /\ disp[d].token \in Tokens

Executing(w) == worker[w].pc = "executing"

\* Two work horses never run the pipeline for one resource at a time, whatever
\* notifications are lost or delivered again and whoever crashes: active_key
\* keeps a second job out, the token and the lease a second horse.
ExclusiveExecution ==
    \A v, w \in Workers :
        v # w /\ Executing(v) /\ Executing(w) =>
            KeyOf[worker[v].job] # KeyOf[worker[w].job]

\* A horse that runs the pipeline, or is between the two statements of finish,
\* still owns its row: the row is running under its token, and the lease
\* outlasts the time RQ leaves the horse (job_service.py:11, :112-125).
Owns(w) ==
    LET row == job[worker[w].job] IN
        /\ row.status = "running"
        /\ row.token = worker[w].token
        /\ row.lease >= worker[w].left

LeaseCoversExecution ==
    \A w \in Workers : worker[w].pc \in {"executing", "write"} => Owns(w)

\* The resource is held exactly as long as the job is live: no path to a
\* terminal state keeps the key (which would refuse the resource for ever) and
\* none gives it up early; and one live job holds a key.
KeyHeldWhileLive ==
    /\ \A j \in Jobs : job[j].active <=> job[j].status \in Live
    /\ \A i, j \in Jobs : job[i].active /\ job[j].active /\ KeyOf[i] = KeyOf[j]
                          => i = j

\* Only a job with attempts left waits for another one: the budget of three
\* executions holds across failures, lost workers and failed enqueues.
AttemptsLeftWhileWaiting ==
    \A j \in Jobs : job[j].status \in {"pending", "dispatched"} =>
        job[j].attempts < MaxAttempts

-----------------------------------------------------------------------------
(***************************************************************************)
(* What makes the safety properties inductive.  Between its claim and the  *)
(* end of execute_job a horse is engaged; its token is spent: it is not    *)
(* up for a claim again, no other horse is engaged under it, and the row,  *)
(* if it still runs under it, has a lease that outlasts the horse.         *)
(***************************************************************************)
Engaged(w) == worker[w].pc \in {"executing", "finish", "write"}

RowOf(w) == job[worker[w].job]

TokenSpent ==
    \A w \in Workers : Engaged(w) => ~ HoldsDispatch(RowOf(w), worker[w].token)

NoTwins ==
    \A v, w \in Workers :
        Engaged(v) /\ Engaged(w) /\ v # w =>
            worker[v].job # worker[w].job \/ worker[v].token # worker[w].token

LeaseOutlastsHorse ==
    \A w \in Workers :
        Engaged(w) /\ RowOf(w).status = "running" /\ RowOf(w).token = worker[w].token
        => RowOf(w).lease >= worker[w].left

AttemptsCounted ==
    /\ \A j \in Jobs : job[j].status = "absent" => job[j].attempts = 0
    /\ \A j \in Jobs : job[j].status = "running" => job[j].attempts > 0
    /\ \A w \in Workers : worker[w].pc = "write" => worker[w].seen = RowOf(w).attempts

InductiveInvariant ==
    /\ TypeOK
    /\ KeyHeldWhileLive
    /\ AttemptsLeftWhileWaiting
    /\ AttemptsCounted
    /\ LeaseCoversExecution
    /\ TokenSpent
    /\ NoTwins
    /\ LeaseOutlastsHorse

\* Once a job has failed or succeeded, nothing writes its outcome again: not a
\* late finish, the second finish of execute_job, a sweep or a redelivery.
OutcomeIsFinal ==
    [][\A j \in Jobs : job[j].status \in Terminal =>
          /\ job'[j].status = job[j].status
          /\ job'[j].attempts = job[j].attempts]_vars

\* While a horse runs the pipeline for a job, nobody else ends that attempt:
\* no sweep, no reset after an ambiguous enqueue and no other horse's finish.
NobodyElseEndsAnAttempt ==
    [][\A w \in Workers : Executing(w) /\ Executing(w)' =>
          job'[worker[w].job].status = "running"]_vars

\* A job is dispatched no earlier than available_at (HARDENING.md:27, "30/120-
\* second retry backoff").
BackoffRespected ==
    [][\A j \in Jobs :
          job[j].status = "pending" /\ job'[j].status = "dispatched"
          => job[j].wait = 0]_vars

\* What BackoffRespected rests on when there is one dispatcher: nobody else touches
\* a row between its selection and its claim.
OneDispatcher == \A d, e \in Dispatchers : d = e

SelectedAreDue ==
    \A d \in Dispatchers : \A j \in disp[d].ids :
        job[j].status = "pending" /\ job[j].wait = 0

-----------------------------------------------------------------------------
(***************************************************************************)
(* The queue implements the ledger: dispatched and pending rows wait.      *)
(***************************************************************************)
PhaseOf(status) ==
    IF status \in {"pending", "dispatched"} THEN "waiting" ELSE status

Ledger == INSTANCE JobLedger WITH
            phase <- [j \in Jobs |-> PhaseOf(job[j].status)],
            attempts <- [j \in Jobs |-> job[j].attempts]

\* Behind all its interleavings the queue is the ledger: each admitted job is
\* attempted one attempt at a time, MaxAttempts times at most, and ends once.
ImplementsLedger == Ledger!LedgerSpec

-----------------------------------------------------------------------------
(***************************************************************************)
(* Liveness.  The processes are restarted and loop for ever (weak          *)
(* fairness).  A dispatcher reaches its claim, Redis takes its             *)
(* notification, RQ hands out a current one and a horse reaches its claim  *)
(* whenever each has been possible often enough (strong fairness).  From   *)
(* some time on Redis loses no current notification, and batches and       *)
(* claims take no time on the scale of the lease.                          *)
(***************************************************************************)
Current(n) == ClaimApplies(job[n.job], n.token)

PickCurrent(w) == \E n \in queue : Current(n) /\ Pick(w, n)

\* A stale notification is not redelivered for ever, so its token is fresh again.
LoseStale == \E n \in queue : ~ Current(n) /\ Lose(n)

Calm ==
    /\ ~ \E n \in queue : Current(n) /\ Lose(n)
    /\ Tick => /\ \A w \in Workers : worker[w].pc # "picked"
               /\ \A d \in Dispatchers : disp[d].pc = "idle"

DispatcherFairness(d) ==
    /\ WF_vars(StartBatch(d))
    /\ WF_vars(Reset(d) \/ EndBatch(d) \/ \E j \in Jobs : SkipTaken(d, j))
    /\ SF_vars(\E j \in Jobs, t \in Tokens : Dispatch(d, j, t))
    /\ SF_vars(Enqueue(d))

WorkerFairness(w) ==
    /\ SF_vars(PickCurrent(w))
    /\ SF_vars(Claim(w))
    /\ WF_vars(StaleNotification(w))
    /\ WF_vars(FinishReads(w) \/ FinishIgnored(w) \/ FinishWrites(w))
    /\ WF_vars(TimedOut(w) /\ Dies(w))

Fairness ==
    /\ WF_vars(Tick)
    /\ WF_vars(LoseStale)
    /\ <>[][Calm]_vars
    /\ \A d \in Dispatchers : DispatcherFairness(d)
    /\ \A w \in Workers : WorkerFairness(w)

FairSpec == Spec /\ Fairness

\* Every admitted job ends and gives its resource back (HARDENING.md:72-74):
\* a lost notification, a failed enqueue, a dead worker, a dead dispatcher and
\* a verdict that could not be written are all recovered.
EveryJobEnds ==
    \A j \in Jobs : (job[j].status \in Live) ~>
        (job[j].status \in Terminal /\ ~ job[j].active)
=============================================================================
