--------------------------- MODULE JobQueueProofs ---------------------------
(***************************************************************************)
(* Theorems about JobQueue, for every number of jobs, keys, horses,        *)
(* dispatchers, tokens and attempts, and for every lease at least as long  *)
(* as the time RQ leaves a horse.                                          *)
(***************************************************************************)
EXTENDS JobQueue, TLAPS

-----------------------------------------------------------------------------
(***************************************************************************)
(* Rows stay rows.                                                         *)
(***************************************************************************)
LEMMA ExpireType ==
    ASSUME NEW row \in JobRow
    PROVE  Expire(row) \in JobRow
  BY DEF Expire, JobRow, Live, Terminal

LEMMA ClaimedType ==
    ASSUME NEW row \in JobRow, row.attempts < MaxAttempts
    PROVE  Claimed(row) \in JobRow
<1>1. row.attempts + 1 \in 0 .. MaxAttempts /\ Lease \in -1 .. Lease
  BY ConstantsAssumption DEF JobRow
<1> QED
  BY <1>1 DEF Claimed, JobRow, Live

LEMMA VerdictType ==
    ASSUME NEW row \in JobRow, NEW verdict \in Verdicts,
           NEW seen \in 1 .. MaxAttempts
    PROVE  VerdictWritten(row, verdict, seen) \in JobRow
  BY ConstantsAssumption DEF VerdictWritten, JobRow, Live, Terminal

LEMMA AbsentType == Absent \in JobRow
  BY ConstantsAssumption, LeaseAssumption DEF Absent, JobRow, Live, Terminal

LEMMA IdleWorkerType == IdleWorker \in WorkerState /\ IdleWorker.pc = "idle"
  BY ConstantsAssumption DEF IdleWorker, WorkerState, Verdicts

LEMMA IdleDispatcherType ==
    IdleDispatcher \in DispatcherState /\ IdleDispatcher.pc = "idle"
  BY ConstantsAssumption DEF IdleDispatcher, DispatcherState

LEMMA AfterFinishType ==
    ASSUME NEW me \in WorkerState
    PROVE  /\ AfterFinish(me) \in WorkerState
           /\ AfterFinishRaises(me) \in WorkerState
  BY IdleWorkerType DEF AfterFinish, AfterFinishRaises, WorkerState, Verdicts

LEMMA InitInvariant == Init => InductiveInvariant
<1> SUFFICES ASSUME Init PROVE InductiveInvariant
  OBVIOUS
<1> USE DEF Init
<1>1. TypeOK
  <2>1. job \in [Jobs -> JobRow]
    BY AbsentType
  <2>2. worker \in [Workers -> WorkerState]
    BY IdleWorkerType
  <2>3. disp \in [Dispatchers -> DispatcherState]
    BY IdleDispatcherType
  <2> QED
    BY <2>1, <2>2, <2>3 DEF TypeOK, IdleWorker, IdleDispatcher
<1>2. KeyHeldWhileLive /\ AttemptsLeftWhileWaiting
  BY DEF KeyHeldWhileLive, AttemptsLeftWhileWaiting, Absent, Live
<1>3. \A w \in Workers : worker[w].pc = "idle"
  BY DEF IdleWorker
<1>4. AttemptsCounted /\ LeaseCoversExecution /\ TokenSpent /\ NoTwins
      /\ LeaseOutlastsHorse
  BY <1>3 DEF AttemptsCounted, LeaseCoversExecution, TokenSpent, NoTwins,
              LeaseOutlastsHorse, Engaged, Absent
<1> QED
  BY <1>1, <1>2, <1>4 DEF InductiveInvariant

LEMMA AdmitPreserves ==
    ASSUME InductiveInvariant, NEW j \in Jobs, Admit(j)
    PROVE  InductiveInvariant'
<1> USE DEF InductiveInvariant, Admit
<1>1. TypeOK'
  BY DEF TypeOK, JobRow, Live
<1>2. KeyHeldWhileLive'
  BY DEF KeyHeldWhileLive, TypeOK, JobRow, Live, KeyFree
<1>3. AttemptsLeftWhileWaiting'
  BY ConstantsAssumption DEF AttemptsLeftWhileWaiting, AttemptsCounted, TypeOK
<1>4. AttemptsCounted' /\ LeaseCoversExecution' /\ TokenSpent' /\ NoTwins'
      /\ LeaseOutlastsHorse'
  BY DEF AttemptsCounted, LeaseCoversExecution, TokenSpent, NoTwins,
         LeaseOutlastsHorse, Engaged, RowOf, HoldsDispatch, Owns, TypeOK, JobRow
<1> QED
  BY <1>1, <1>2, <1>3, <1>4

-----------------------------------------------------------------------------
(***************************************************************************)
(* Dispatchers.                                                            *)
(***************************************************************************)
\* A step that changes neither the table nor the horses.
LEMMA FrameOfDispatcher ==
    ASSUME InductiveInvariant, TypeOK', UNCHANGED <<job, worker>>
    PROVE  InductiveInvariant'
  BY DEF InductiveInvariant, KeyHeldWhileLive, AttemptsLeftWhileWaiting,
         AttemptsCounted, LeaseCoversExecution, TokenSpent, NoTwins,
         LeaseOutlastsHorse, Engaged, RowOf, HoldsDispatch, Owns

LEMMA StartBatchPreserves ==
    ASSUME InductiveInvariant, NEW d \in Dispatchers, StartBatch(d)
    PROVE  InductiveInvariant'
<1> USE DEF InductiveInvariant
<1>1. job' = Swept /\ UNCHANGED <<queue, worker>>
  BY DEF StartBatch
<1>2. ASSUME NEW j \in Jobs
      PROVE  /\ job'[j] = IF Expired(job[j]) THEN Expire(job[j]) ELSE job[j]
             /\ job[j] \in JobRow
  BY <1>1 DEF Swept, TypeOK
<1>3. TypeOK'
  <2>1. job' \in [Jobs -> JobRow]
    BY <1>1, <1>2, ExpireType DEF Swept
  <2>2. disp' \in [Dispatchers -> DispatcherState]
    <3>1. PICK ids \in SUBSET Due(Swept) :
             disp' = [disp EXCEPT ![d] =
                        [@ EXCEPT !.pc = "batch", !.ids = ids, !.age = 0]]
      BY DEF StartBatch
    <3>2. ids \subseteq Jobs
      BY DEF Due
    <3>3. 0 \in 0 .. Lease + 1
      BY ConstantsAssumption
    <3> QED
      BY <3>1, <3>2, <3>3 DEF TypeOK, DispatcherState
  <2>3. \A c \in Dispatchers : disp'[c].pc \in {"enqueue", "reset"} =>
           disp'[c].job \in Jobs /\ disp'[c].token \in Tokens
    BY DEF StartBatch, TypeOK, DispatcherState
  <2> QED
    BY <1>1, <2>1, <2>2, <2>3 DEF TypeOK
<1>4. KeyHeldWhileLive'
  BY <1>2 DEF KeyHeldWhileLive, Expired, Expire, JobRow, Live
<1>5. AttemptsLeftWhileWaiting'
  BY <1>2 DEF AttemptsLeftWhileWaiting, Expired, Expire, JobRow, AttemptsLeft
<1>6. \A w \in Workers : Engaged(w) /\ RowOf(w).status = "running"
         /\ RowOf(w).token = worker[w].token => ~ Expired(RowOf(w))
  BY DEF Expired, LeaseOutlastsHorse, RowOf, TypeOK, JobRow, WorkerState, Engaged
<1>7. \A w \in Workers : Engaged(w) => worker[w].job \in Jobs
  BY DEF TypeOK, Engaged
<1>8. AttemptsCounted'
  BY <1>1, <1>2, <1>6, <1>7 DEF AttemptsCounted, Expired, Expire, JobRow, RowOf,
     LeaseCoversExecution, Owns, Engaged
<1>9. LeaseCoversExecution'
  BY <1>1, <1>2, <1>6, <1>7 DEF LeaseCoversExecution, Owns, RowOf, Engaged
<1>10. LeaseOutlastsHorse' /\ TokenSpent' /\ NoTwins'
  <2>1. \A j \in Jobs : Expired(job[j]) => job'[j].status \in {"pending", "failed"}
    BY <1>2 DEF Expire, JobRow
  <2> QED
    BY <1>1, <1>2, <1>7, <2>1 DEF LeaseOutlastsHorse, TokenSpent, NoTwins,
       RowOf, Engaged, HoldsDispatch
<1> QED
  BY <1>3, <1>4, <1>5, <1>8, <1>9, <1>10

LEMMA DispatchPreserves ==
    ASSUME InductiveInvariant, NEW d \in Dispatchers, NEW j \in Jobs,
           NEW t \in Tokens, Dispatch(d, j, t)
    PROVE  InductiveInvariant'
<1> USE DEF InductiveInvariant
<1>1. /\ job[j].status = "pending" /\ job[j] \in JobRow
      /\ job' = [job EXCEPT ![j] = [@ EXCEPT
                 !.status = "dispatched", !.token = t,
                 !.lease = LeaseFromStamp(disp[d].age)]]
      /\ UNCHANGED <<queue, worker>>
      /\ job \in [Jobs -> JobRow]
  BY DEF Dispatch, TypeOK
<1>2. \A w \in Workers : worker[w].token # t
  BY DEF Dispatch, Fresh
<1>3. LeaseFromStamp(disp[d].age) \in -1 .. Lease
  BY ConstantsAssumption DEF LeaseFromStamp, TypeOK, DispatcherState
<1>4. TypeOK'
  <2>1. job' \in [Jobs -> JobRow]
    BY <1>1, <1>3 DEF JobRow, Live
  <2>2. disp' \in [Dispatchers -> DispatcherState]
    <3> DEFINE r == [disp[d] EXCEPT !.pc = "enqueue", !.ids = disp[d].ids \ {j},
                                    !.job = j, !.token = t]
    <3>1. r \in DispatcherState
      <4>1. disp[d] \in DispatcherState
        BY DEF TypeOK
      <4>2. disp[d].ids \ {j} \subseteq Jobs
        BY <4>1 DEF DispatcherState
      <4> QED
        BY <4>1, <4>2 DEF DispatcherState
    <3>2. disp' = [disp EXCEPT ![d] = r]
      BY DEF Dispatch
    <3> QED
      BY <3>1, <3>2 DEF TypeOK
  <2>3. \A c \in Dispatchers : disp'[c].pc \in {"enqueue", "reset"} =>
           disp'[c].job \in Jobs /\ disp'[c].token \in Tokens
    BY DEF Dispatch, TypeOK, DispatcherState
  <2> QED
    BY <1>1, <2>1, <2>2, <2>3 DEF TypeOK
<1>5. KeyHeldWhileLive' /\ AttemptsLeftWhileWaiting'
  BY <1>1 DEF KeyHeldWhileLive, AttemptsLeftWhileWaiting, JobRow, Live
<1>6. AttemptsCounted' /\ LeaseCoversExecution' /\ LeaseOutlastsHorse'
      /\ TokenSpent' /\ NoTwins'
  BY <1>1, <1>2 DEF AttemptsCounted, LeaseCoversExecution, LeaseOutlastsHorse,
     TokenSpent, NoTwins, Owns, RowOf, Engaged, HoldsDispatch, JobRow, TypeOK
<1> QED
  BY <1>4, <1>5, <1>6

LEMMA BackToBatchType ==
    ASSUME TypeOK, NEW d \in Dispatchers, BackToBatch(d)
    PROVE  /\ disp' \in [Dispatchers -> DispatcherState]
           /\ \A c \in Dispatchers : disp'[c].pc \in {"enqueue", "reset"} =>
                 disp'[c].job \in Jobs /\ disp'[c].token \in Tokens
  BY DEF BackToBatch, TypeOK, DispatcherState

LEMMA ResetPreserves ==
    ASSUME InductiveInvariant, NEW d \in Dispatchers, Reset(d)
    PROVE  InductiveInvariant'
<1> USE DEF InductiveInvariant
<1> DEFINE j == disp[d].job
<1>1. j \in Jobs /\ job[j] \in JobRow /\ UNCHANGED <<queue, worker>>
      /\ job \in [Jobs -> JobRow]
  BY DEF Reset, TypeOK
<1>2. TypeOK'
  <2>1. job' \in [Jobs -> JobRow]
    BY <1>1, ConstantsAssumption DEF Reset, JobRow, Live
  <2> QED
    BY <1>1, <2>1, BackToBatchType DEF TypeOK, Reset
<1>3. CASE ~ ResetApplies(job[j], disp[d].token)
  BY <1>1, <1>2, <1>3, FrameOfDispatcher DEF Reset
<1>4. CASE ResetApplies(job[j], disp[d].token)
  <2>1. /\ job[j].status = "dispatched"
        /\ job' = [job EXCEPT ![j] = [@ EXCEPT !.status = "pending",
                                     !.token = None, !.wait = EnqueueDelay]]
    BY <1>4 DEF Reset, ResetApplies, HoldsDispatch
  <2>2. KeyHeldWhileLive' /\ AttemptsLeftWhileWaiting'
    BY <1>1, <2>1 DEF KeyHeldWhileLive, AttemptsLeftWhileWaiting, JobRow, Live
  <2>3. AttemptsCounted' /\ LeaseCoversExecution' /\ LeaseOutlastsHorse'
        /\ TokenSpent' /\ NoTwins'
    BY <1>1, <2>1 DEF AttemptsCounted, LeaseCoversExecution, LeaseOutlastsHorse,
       TokenSpent, NoTwins, Owns, RowOf, Engaged, HoldsDispatch, JobRow, TypeOK
  <2> QED
    BY <1>2, <2>2, <2>3
<1> QED
  BY <1>3, <1>4

LEMMA NotificationPreserves ==
    ASSUME InductiveInvariant,
           \/ \E d \in Dispatchers :
                 \/ \E j \in Jobs : SkipTaken(d, j)
                 \/ Enqueue(d) \/ EnqueueRaises(d)
                 \/ EndBatch(d) \/ DispatcherStops(d)
           \/ \E n \in queue : Lose(n)
    PROVE  InductiveInvariant'
<1> SUFFICES TypeOK' /\ UNCHANGED <<job, worker>>
  BY FrameOfDispatcher
<1> USE DEF InductiveInvariant, TypeOK
<1>1. CASE \E d \in Dispatchers, j \in Jobs : SkipTaken(d, j)
  BY <1>1 DEF SkipTaken, DispatcherState
<1>2. ASSUME NEW d \in Dispatchers, Enqueue(d)
      PROVE  TypeOK' /\ UNCHANGED <<job, worker>>
  <2>1. queue' \subseteq Notes
    BY <1>2 DEF Enqueue, NoteOf, Notes
  <2> QED
    BY <1>2, <2>1, BackToBatchType DEF Enqueue
<1>3. ASSUME NEW d \in Dispatchers, EnqueueRaises(d)
      PROVE  TypeOK' /\ UNCHANGED <<job, worker>>
  <2>1. queue' \subseteq Notes
    BY <1>3 DEF EnqueueRaises, NoteOf, Notes
  <2> QED
    BY <1>3, <2>1 DEF EnqueueRaises, DispatcherState
<1>4. CASE \E d \in Dispatchers : EndBatch(d) \/ DispatcherStops(d)
  BY <1>4, IdleDispatcherType DEF EndBatch, DispatcherStops
<1>5. CASE \E n \in queue : Lose(n)
  BY <1>5 DEF Lose
<1> QED
  BY <1>1, <1>2, <1>3, <1>4, <1>5

-----------------------------------------------------------------------------
(***************************************************************************)
(* Work horses.                                                            *)
(***************************************************************************)
\* A horse moves and the table does not: it leaves, picks a notification, or
\* goes on inside finish under the same notification and clock.
LEMMA HorseMoves ==
    ASSUME InductiveInvariant, NEW w \in Workers, NEW me \in WorkerState,
           worker' = [worker EXCEPT ![w] = me], UNCHANGED job, TypeOK',
           \/ me.pc \in {"idle", "picked"}
           \/ /\ Engaged(w)
              /\ me.pc \in {"finish", "write"}
              /\ me.job = worker[w].job
              /\ me.token = worker[w].token
              /\ me.left = worker[w].left
              /\ me.pc = "write" =>
                    /\ FinishApplies(RowOf(w), worker[w].token)
                    /\ me.seen = RowOf(w).attempts
    PROVE  InductiveInvariant'
<1> USE DEF InductiveInvariant
<1>1. worker \in [Workers -> WorkerState]
  BY DEF TypeOK
<1>2. \A v \in Workers : worker'[v] = IF v = w THEN me ELSE worker[v]
  BY <1>1
<1>3. KeyHeldWhileLive' /\ AttemptsLeftWhileWaiting'
  BY DEF KeyHeldWhileLive, AttemptsLeftWhileWaiting
<1>4. AttemptsCounted' /\ LeaseCoversExecution'
  BY <1>2 DEF AttemptsCounted, LeaseCoversExecution, LeaseOutlastsHorse,
     FinishApplies, Owns, RowOf, Engaged
<1>5. TokenSpent' /\ NoTwins' /\ LeaseOutlastsHorse'
  BY <1>2 DEF TokenSpent, NoTwins, LeaseOutlastsHorse, RowOf, Engaged
<1> QED
  BY <1>3, <1>4, <1>5

\* The shape of a horse's record after a step of its own.
LEMMA HorseType ==
    ASSUME TypeOK, NEW w \in Workers, NEW me \in WorkerState,
           worker' = [worker EXCEPT ![w] = me],
           me.pc # "idle" => me.job \in Jobs /\ me.token \in Tokens,
           job' \in [Jobs -> JobRow], queue' \subseteq Notes, UNCHANGED disp
    PROVE  TypeOK'
  BY DEF TypeOK

LEMMA PickPreserves ==
    ASSUME InductiveInvariant, NEW w \in Workers, NEW n \in queue, Pick(w, n)
    PROVE  InductiveInvariant'
<1> DEFINE me == [worker[w] EXCEPT !.pc = "picked", !.job = n.job,
                                   !.token = n.token, !.left = Timeout]
<1>1. TypeOK /\ n.job \in Jobs /\ n.token \in Tokens
  BY DEF InductiveInvariant, TypeOK, Notes
<1>2. worker[w] \in WorkerState
  BY <1>1 DEF TypeOK
<1>3. Timeout \in 0 .. Timeout
  BY ConstantsAssumption
<1>4. me \in WorkerState /\ me.pc = "picked" /\ me.job = n.job /\ me.token = n.token
  BY <1>1, <1>2, <1>3 DEF WorkerState
<1>5. /\ worker' = [worker EXCEPT ![w] = me]
      /\ job' \in [Jobs -> JobRow] /\ queue' \subseteq Notes
      /\ UNCHANGED job /\ UNCHANGED disp
  BY <1>1 DEF Pick, TypeOK
<1> HIDE DEF me
<1>6. TypeOK'
  BY <1>1, <1>4, <1>5, HorseType
<1> QED
  BY <1>4, <1>5, <1>6, HorseMoves

LEMMA ClaimPreserves ==
    ASSUME InductiveInvariant, NEW w \in Workers, Claim(w)
    PROVE  InductiveInvariant'
<1> USE DEF InductiveInvariant
<1> DEFINE mine == worker[w].job
           me == [worker[w] EXCEPT !.pc = "executing"]
<1>1. /\ mine \in Jobs /\ worker[w].token \in Tokens
      /\ job \in [Jobs -> JobRow] /\ worker \in [Workers -> WorkerState]
      /\ job[mine] \in JobRow /\ worker[w] \in WorkerState
  BY DEF Claim, TypeOK
<1>2. job[mine].status = "dispatched" /\ job[mine].token = worker[w].token
  BY DEF Claim, ClaimApplies, HoldsDispatch
<1>3. job[mine].attempts < MaxAttempts
  BY <1>1, <1>2 DEF AttemptsLeftWhileWaiting
<1>4. /\ Claimed(job[mine]) \in JobRow
      /\ Claimed(job[mine]).status = "running"
      /\ Claimed(job[mine]).attempts = job[mine].attempts + 1
      /\ Claimed(job[mine]).lease = Lease
      /\ Claimed(job[mine]).token = job[mine].token
      /\ Claimed(job[mine]).active = job[mine].active
  BY <1>1, <1>3, ClaimedType DEF Claimed, JobRow
<1>5. \A i \in Jobs : job'[i] = IF i = mine THEN Claimed(job[mine]) ELSE job[i]
  BY <1>1 DEF Claim
<1>6. \A v \in Workers : worker'[v] = IF v = w THEN me ELSE worker[v]
  BY <1>1 DEF Claim
<1>7. me.pc = "executing" /\ me.job = mine /\ me.token = worker[w].token
      /\ me.left = worker[w].left /\ me \in WorkerState
  BY <1>1 DEF WorkerState
<1>8. TypeOK'
  <2>1. job' \in [Jobs -> JobRow] /\ worker' = [worker EXCEPT ![w] = me]
        /\ UNCHANGED <<queue, disp>>
    BY <1>1, <1>4 DEF Claim
  <2> HIDE DEF me
  <2> QED
    BY <1>1, <1>7, <2>1, HorseType DEF TypeOK
<1>9. KeyHeldWhileLive'
  BY <1>1, <1>2, <1>4, <1>5 DEF KeyHeldWhileLive, Live
<1>10. AttemptsLeftWhileWaiting'
  BY <1>4, <1>5 DEF AttemptsLeftWhileWaiting
<1> HIDE DEF me
<1>11. \A v \in Workers : Engaged(v) => worker[v].job \in Jobs
  BY DEF TypeOK, Engaged
\* No horse was engaged under this notification, and none owned the row.
<1>12. \A v \in Workers : Engaged(v) /\ v # w =>
          worker[v].job # mine \/ worker[v].token # worker[w].token
  BY <1>2 DEF TokenSpent, RowOf, HoldsDispatch
<1>13. \A v \in Workers : worker[v].pc \in {"executing", "write"} => worker[v].job # mine
  BY <1>2 DEF LeaseCoversExecution, Owns
<1>14. worker[w].left =< Lease
  BY <1>1, ConstantsAssumption, LeaseAssumption DEF WorkerState
<1>15. AttemptsCounted'
  <2>1. \A i \in Jobs :
           /\ job'[i].status = "absent" => job'[i].attempts = 0
           /\ job'[i].status = "running" => job'[i].attempts > 0
    BY <1>1, <1>4, <1>5 DEF AttemptsCounted, JobRow
  <2>2. \A v \in Workers : worker'[v].pc = "write" =>
           /\ v # w /\ worker'[v] = worker[v]
           /\ job'[worker[v].job] = job[worker[v].job]
    <3> SUFFICES ASSUME NEW v \in Workers, worker'[v].pc = "write"
                 PROVE  /\ v # w /\ worker'[v] = worker[v]
                        /\ job'[worker[v].job] = job[worker[v].job]
      OBVIOUS
    <3>1. v # w /\ worker'[v] = worker[v]
      BY <1>6, <1>7
    <3>2. worker[v].job \in Jobs /\ worker[v].job # mine
      BY <1>11, <1>13, <3>1 DEF Engaged
    <3> QED
      BY <1>5, <3>1, <3>2
  <2>3. \A v \in Workers : worker'[v].pc = "write" =>
           worker'[v].seen = job'[worker'[v].job].attempts
    BY <2>2 DEF AttemptsCounted, RowOf
  <2> QED
    BY <2>1, <2>3 DEF AttemptsCounted, RowOf
<1>16. LeaseCoversExecution' /\ LeaseOutlastsHorse'
  BY <1>1, <1>2, <1>4, <1>5, <1>6, <1>7, <1>11, <1>12, <1>13, <1>14
  DEF LeaseCoversExecution, LeaseOutlastsHorse, Owns, RowOf, Engaged
<1>17. TokenSpent'
  <2>1. ASSUME NEW v \in Workers, Engaged(v)'
        PROVE  ~ HoldsDispatch(job'[worker'[v].job], worker'[v].token)
    <3>1. CASE worker'[v].job = mine
      BY <1>1, <1>4, <1>5, <3>1 DEF HoldsDispatch
    <3>2. CASE worker'[v].job # mine
      BY <1>5, <1>6, <1>7, <1>11, <2>1, <3>2 DEF TokenSpent, RowOf, Engaged, HoldsDispatch
    <3> QED
      BY <3>1, <3>2
  <2> QED
    BY <2>1 DEF TokenSpent, RowOf, HoldsDispatch
<1>18. NoTwins'
  BY <1>6, <1>7, <1>12 DEF NoTwins, Engaged
<1> QED
  BY <1>8, <1>9, <1>10, <1>15, <1>16, <1>17, <1>18

LEMMA LeavingPreserves ==
    ASSUME InductiveInvariant, NEW w \in Workers,
           StaleNotification(w) \/ Dies(w)
    PROVE  InductiveInvariant'
<1>1. /\ worker' = [worker EXCEPT ![w] = IdleWorker]
      /\ UNCHANGED job /\ UNCHANGED queue /\ UNCHANGED disp
  BY DEF StaleNotification, Dies
<1>2. TypeOK'
  BY <1>1, HorseType, IdleWorkerType DEF InductiveInvariant, TypeOK
<1> QED
  BY <1>1, <1>2, IdleWorkerType, HorseMoves

LEMMA PipelineEndsPreserves ==
    ASSUME InductiveInvariant, NEW w \in Workers, NEW verdict \in Verdicts,
           NEW last \in BOOLEAN, PipelineEnds(w, verdict, last)
    PROVE  InductiveInvariant'
<1> DEFINE me == [worker[w] EXCEPT !.pc = "finish", !.verdict = verdict,
                                   !.last = last]
<1>1. /\ worker[w].pc = "executing" /\ worker[w] \in WorkerState
      /\ worker' = [worker EXCEPT ![w] = me]
      /\ UNCHANGED job /\ UNCHANGED queue /\ UNCHANGED disp
  BY DEF PipelineEnds, InductiveInvariant, TypeOK
<1>2. /\ me \in WorkerState /\ me.pc = "finish" /\ me.job = worker[w].job
      /\ me.token = worker[w].token /\ me.left = worker[w].left
  BY <1>1 DEF WorkerState
<1> HIDE DEF me
<1>3. TypeOK'
  BY <1>1, <1>2, HorseType DEF InductiveInvariant, TypeOK
<1> QED
  BY <1>1, <1>2, <1>3, HorseMoves DEF Engaged

\* After finish a horse is idle or calls finish again, under the same clock.
LEMMA AfterFinishShape ==
    ASSUME NEW me \in WorkerState,
           NEW next \in {AfterFinish(me), AfterFinishRaises(me)}
    PROVE  /\ next \in WorkerState
           /\ \/ next.pc = "idle"
              \/ /\ next.pc = "finish" /\ next.job = me.job
                 /\ next.token = me.token /\ next.left = me.left
  BY AfterFinishType, IdleWorkerType DEF AfterFinish, AfterFinishRaises, WorkerState

LEMMA FinishReadsPreserves ==
    ASSUME InductiveInvariant, NEW w \in Workers, FinishReads(w)
    PROVE  InductiveInvariant'
<1> DEFINE me == [worker[w] EXCEPT !.pc = "write",
                                   !.seen = job[worker[w].job].attempts]
<1>1. /\ worker[w].pc = "finish" /\ worker[w] \in WorkerState
      /\ worker[w].job \in Jobs /\ worker[w].token \in Tokens
      /\ job[worker[w].job] \in JobRow
      /\ worker' = [worker EXCEPT ![w] = me]
      /\ FinishApplies(RowOf(w), worker[w].token)
      /\ UNCHANGED job /\ UNCHANGED queue /\ UNCHANGED disp
  BY DEF FinishReads, InductiveInvariant, TypeOK, RowOf
<1>2. /\ me \in WorkerState /\ me.pc = "write" /\ me.job = worker[w].job
      /\ me.token = worker[w].token /\ me.left = worker[w].left
      /\ me.seen = RowOf(w).attempts
  BY <1>1 DEF WorkerState, JobRow, RowOf
<1> HIDE DEF me
<1>3. TypeOK'
  BY <1>1, <1>2, HorseType DEF InductiveInvariant, TypeOK
<1> QED
  BY <1>1, <1>2, <1>3, HorseMoves DEF Engaged

\* finish returns or raises without having written the row.
LEMMA FinishUnwrittenPreserves ==
    ASSUME InductiveInvariant, NEW w \in Workers,
           worker[w].pc \in {"finish", "write"},
           NEW me \in {AfterFinish(worker[w]), AfterFinishRaises(worker[w])},
           worker' = [worker EXCEPT ![w] = me],
           UNCHANGED job, UNCHANGED queue, UNCHANGED disp
    PROVE  InductiveInvariant'
<1>1. worker[w] \in WorkerState /\ worker[w].job \in Jobs /\ worker[w].token \in Tokens
  BY DEF InductiveInvariant, TypeOK
<1>2. /\ me \in WorkerState
      /\ \/ me.pc = "idle"
         \/ /\ me.pc = "finish" /\ me.job = worker[w].job
            /\ me.token = worker[w].token /\ me.left = worker[w].left
  BY <1>1, AfterFinishShape
<1>3. TypeOK'
  BY <1>1, <1>2, HorseType DEF InductiveInvariant, TypeOK
<1> QED
  BY <1>2, <1>3, HorseMoves DEF Engaged

\* What finish makes of a row, when it read the attempts the row has.
LEMMA VerdictShape ==
    ASSUME NEW row \in JobRow, NEW verdict \in Verdicts, row.attempts > 0
    PROVE  LET new == VerdictWritten(row, verdict, row.attempts) IN
           /\ new \in JobRow
           /\ new.attempts = row.attempts
           /\ \/ /\ new.status = "pending" /\ row.attempts < MaxAttempts
                 /\ new.active = row.active
              \/ new.status \in Terminal /\ ~ new.active
<1>1. row.attempts \in 1 .. MaxAttempts
  BY ConstantsAssumption DEF JobRow
<1> QED
  BY <1>1, VerdictType DEF VerdictWritten, JobRow, Terminal, AttemptsLeft

LEMMA FinishWrittenPreserves ==
    ASSUME InductiveInvariant, NEW w \in Workers, worker[w].pc = "write",
           NEW me \in {AfterFinish(worker[w]), AfterFinishRaises(worker[w])},
           worker' = [worker EXCEPT ![w] = me],
           job' = WrittenBy(w), UNCHANGED queue, UNCHANGED disp
    PROVE  InductiveInvariant'
<1> USE DEF InductiveInvariant
<1> DEFINE mine == worker[w].job
           row == job[mine]
           new == VerdictWritten(row, worker[w].verdict, row.attempts)
<1>1. /\ worker[w] \in WorkerState /\ mine \in Jobs /\ worker[w].token \in Tokens
      /\ job \in [Jobs -> JobRow] /\ worker \in [Workers -> WorkerState]
      /\ row \in JobRow /\ worker[w].verdict \in Verdicts
  BY DEF TypeOK, WorkerState
<1>2. row.status = "running" /\ row.token = worker[w].token
  BY DEF LeaseCoversExecution, Owns
<1>3. row.attempts > 0 /\ worker[w].seen = row.attempts
  BY <1>1, <1>2 DEF AttemptsCounted, RowOf
<1>4. /\ new \in JobRow /\ new.attempts = row.attempts
      /\ \/ /\ new.status = "pending" /\ row.attempts < MaxAttempts
            /\ new.active = row.active
         \/ new.status \in Terminal /\ ~ new.active
  BY <1>1, <1>3, VerdictShape
<1>5. job' = [job EXCEPT ![mine] = new]
  BY <1>3 DEF WrittenBy
<1>6. /\ me \in WorkerState
      /\ \/ me.pc = "idle"
         \/ /\ me.pc = "finish" /\ me.job = mine
            /\ me.token = worker[w].token /\ me.left = worker[w].left
  BY <1>1, AfterFinishShape
<1> HIDE DEF new
<1>7. \A i \in Jobs : job'[i] = IF i = mine THEN new ELSE job[i]
  BY <1>1, <1>5
<1>8. \A v \in Workers : worker'[v] = IF v = w THEN me ELSE worker[v]
  BY <1>1
<1>9. TypeOK'
  <2>1. job' \in [Jobs -> JobRow] /\ queue' \subseteq Notes
    BY <1>1, <1>4, <1>5 DEF TypeOK
  <2> QED
    BY <1>1, <1>6, <2>1, HorseType DEF TypeOK
<1>10. KeyHeldWhileLive'
  BY <1>1, <1>2, <1>4, <1>7 DEF KeyHeldWhileLive, Live, Terminal
<1>11. AttemptsLeftWhileWaiting'
  BY <1>4, <1>7 DEF AttemptsLeftWhileWaiting, Terminal
<1>12. \A v \in Workers : Engaged(v) => worker[v].job \in Jobs
  BY DEF TypeOK, Engaged
<1>13. \A v \in Workers : v # w /\ worker[v].pc \in {"executing", "write"} =>
          worker[v].job # mine
  BY <1>2 DEF NoTwins, Engaged, LeaseCoversExecution, Owns
<1>14. new.status # "running" /\ new.status # "dispatched" /\ new.status # "absent"
  BY <1>4 DEF Terminal
\* A horse that is past its claim after the step, and still has to end its try,
\* is another one, with another row.
<1>15. \A v \in Workers : worker'[v].pc \in {"executing", "write"} =>
          /\ worker'[v] = worker[v]
          /\ job'[worker[v].job] = job[worker[v].job]
  <2> SUFFICES ASSUME NEW v \in Workers, worker'[v].pc \in {"executing", "write"}
               PROVE  /\ worker'[v] = worker[v]
                      /\ job'[worker[v].job] = job[worker[v].job]
    OBVIOUS
  <2>1. v # w /\ worker'[v] = worker[v]
    BY <1>6, <1>8
  <2>2. worker[v].job \in Jobs /\ worker[v].job # mine
    BY <1>12, <1>13, <2>1 DEF Engaged
  <2> QED
    BY <1>7, <2>1, <2>2
<1>16. AttemptsCounted'
  <2>1. \A i \in Jobs :
           /\ job'[i].status = "absent" => job'[i].attempts = 0
           /\ job'[i].status = "running" => job'[i].attempts > 0
    BY <1>7, <1>14 DEF AttemptsCounted
  <2> QED
    BY <1>15, <2>1 DEF AttemptsCounted, RowOf
<1>17. LeaseCoversExecution'
  BY <1>15 DEF LeaseCoversExecution, Owns
<1>18. \A v \in Workers : Engaged(v)' =>
          /\ Engaged(v)
          /\ worker'[v].job = worker[v].job
          /\ worker'[v].token = worker[v].token
          /\ worker'[v].left = worker[v].left
  BY <1>6, <1>8 DEF Engaged
<1>19. TokenSpent' /\ NoTwins' /\ LeaseOutlastsHorse'
  BY <1>7, <1>12, <1>14, <1>18
  DEF TokenSpent, NoTwins, LeaseOutlastsHorse, RowOf, HoldsDispatch
<1> QED
  BY <1>9, <1>10, <1>11, <1>16, <1>17, <1>19

-----------------------------------------------------------------------------
(***************************************************************************)
(* Time.                                                                   *)
(***************************************************************************)
LEMMA TickPreserves ==
    ASSUME InductiveInvariant, Tick
    PROVE  InductiveInvariant'
<1> USE DEF InductiveInvariant
<1>1. /\ job \in [Jobs -> JobRow] /\ worker \in [Workers -> WorkerState]
      /\ disp \in [Dispatchers -> DispatcherState]
  BY DEF TypeOK
<1>2. \A j \in Jobs :
         /\ job'[j] \in JobRow
         /\ job'[j].status = job[j].status /\ job'[j].active = job[j].active
         /\ job'[j].attempts = job[j].attempts /\ job'[j].token = job[j].token
         /\ job'[j].lease = IF job[j].lease < 0 THEN -1 ELSE job[j].lease - 1
  <2> SUFFICES ASSUME NEW j \in Jobs
               PROVE  /\ job'[j] \in JobRow
                      /\ job'[j].status = job[j].status
                      /\ job'[j].active = job[j].active
                      /\ job'[j].attempts = job[j].attempts
                      /\ job'[j].token = job[j].token
                      /\ job'[j].lease = IF job[j].lease < 0 THEN -1
                                         ELSE job[j].lease - 1
    OBVIOUS
  <2> DEFINE l == IF job[j].lease < 0 THEN -1 ELSE job[j].lease - 1
             p == Less(job[j].wait)
  <2>1. job'[j] = [job[j] EXCEPT !.lease = l, !.wait = p]
    BY DEF Tick
  <2>2. job[j] \in JobRow
    BY <1>1
  <2>3. l \in -1 .. Lease /\ p \in Nat
    BY <2>2, ConstantsAssumption DEF JobRow, Less
  <2> HIDE DEF l, p
  <2>4. job'[j] \in JobRow /\ job'[j].lease = l
    BY <2>1, <2>2, <2>3 DEF JobRow
  <2> QED
    BY <2>1, <2>2, <2>4 DEF JobRow, l
<1>3. \A w \in Workers :
         /\ worker'[w] \in WorkerState
         /\ worker'[w].pc = worker[w].pc /\ worker'[w].job = worker[w].job
         /\ worker'[w].token = worker[w].token /\ worker'[w].seen = worker[w].seen
         /\ worker'[w].left = Less(worker[w].left)
  <2> SUFFICES ASSUME NEW w \in Workers
               PROVE  /\ worker'[w] \in WorkerState
                      /\ worker'[w].pc = worker[w].pc
                      /\ worker'[w].job = worker[w].job
                      /\ worker'[w].token = worker[w].token
                      /\ worker'[w].seen = worker[w].seen
                      /\ worker'[w].left = Less(worker[w].left)
    OBVIOUS
  <2> DEFINE l == Less(worker[w].left)
  <2>1. worker'[w] = [worker[w] EXCEPT !.left = l]
    BY DEF Tick
  <2>2. worker[w] \in WorkerState
    BY <1>1
  <2>3. l \in 0 .. Timeout
    BY <2>2, ConstantsAssumption DEF WorkerState, Less
  <2> HIDE DEF l
  <2>4. worker'[w] \in WorkerState /\ worker'[w].left = l
    BY <2>1, <2>2, <2>3 DEF WorkerState
  <2> QED
    BY <2>1, <2>2, <2>4 DEF WorkerState, l
<1>4. \A d \in Dispatchers :
         /\ disp'[d] \in DispatcherState
         /\ disp'[d].pc = disp[d].pc /\ disp'[d].job = disp[d].job
         /\ disp'[d].token = disp[d].token
  <2> SUFFICES ASSUME NEW d \in Dispatchers
               PROVE  /\ disp'[d] \in DispatcherState
                      /\ disp'[d].pc = disp[d].pc /\ disp'[d].job = disp[d].job
                      /\ disp'[d].token = disp[d].token
    OBVIOUS
  <2>1. disp[d] \in DispatcherState
    BY <1>1
  <2>2. CASE disp'[d] = disp[d]
    BY <2>1, <2>2
  <2>3. CASE disp[d].age =< Lease /\ disp'[d] = [disp[d] EXCEPT !.age = @ + 1]
    <3>1. disp[d].age + 1 \in 0 .. Lease + 1
      BY <2>1, <2>3, ConstantsAssumption DEF DispatcherState
    <3> QED
      BY <2>1, <2>3, <3>1 DEF DispatcherState
  <2>4. disp[d].age > Lease \/ disp[d].age =< Lease
    BY <2>1, ConstantsAssumption DEF DispatcherState
  <2>5. disp'[d] = IF disp[d].pc = "idle" \/ disp[d].age > Lease THEN disp[d]
                   ELSE [disp[d] EXCEPT !.age = @ + 1]
    BY DEF Tick
  <2> QED
    BY <2>2, <2>3, <2>4, <2>5
<1>5. TypeOK'
  <2>1. job' \in [Jobs -> JobRow]
    BY <1>2 DEF Tick
  <2>2. worker' \in [Workers -> WorkerState]
    BY <1>3 DEF Tick
  <2>3. disp' \in [Dispatchers -> DispatcherState]
    BY <1>4 DEF Tick
  <2>4. queue' = queue
    BY DEF Tick
  <2> QED
    BY <1>3, <1>4, <2>1, <2>2, <2>3, <2>4 DEF TypeOK
<1>6. KeyHeldWhileLive' /\ AttemptsLeftWhileWaiting'
  BY <1>2 DEF KeyHeldWhileLive, AttemptsLeftWhileWaiting
<1>7. \A w \in Workers : Engaged(w) => worker[w].job \in Jobs
  BY DEF TypeOK, Engaged
<1>8. AttemptsCounted' /\ TokenSpent' /\ NoTwins'
  BY <1>2, <1>3, <1>7 DEF AttemptsCounted, TokenSpent, NoTwins, RowOf,
     HoldsDispatch, Engaged
\* RQ has killed whoever had no time left, so lease and horse age together.
<1>9. \A w \in Workers : Engaged(w) /\ RowOf(w).lease >= worker[w].left =>
         job'[worker'[w].job].lease >= worker'[w].left
  <2> SUFFICES ASSUME NEW w \in Workers, Engaged(w),
                      RowOf(w).lease >= worker[w].left
               PROVE  job'[worker'[w].job].lease >= worker'[w].left
    OBVIOUS
  <2>1. worker[w].left \in Nat /\ worker[w].left # 0
    <3>1. worker[w].left \in Nat
      BY <1>1 DEF WorkerState
    <3> QED
      BY <3>1 DEF Tick, TimedOut, Engaged
  <2>2. job[worker[w].job].lease \in Int
    BY <1>1, <1>7 DEF JobRow
  <2>3. /\ worker'[w].left = worker[w].left - 1
        /\ job'[worker'[w].job].lease = job[worker[w].job].lease - 1
    BY <1>2, <1>3, <1>7, <2>1, <2>2 DEF Less, RowOf
  <2> QED
    BY <2>1, <2>2, <2>3 DEF RowOf
<1>10. LeaseCoversExecution' /\ LeaseOutlastsHorse'
  BY <1>2, <1>3, <1>7, <1>9 DEF LeaseCoversExecution, LeaseOutlastsHorse, Owns,
     RowOf, Engaged
<1> QED
  BY <1>5, <1>6, <1>8, <1>10

-----------------------------------------------------------------------------
LEMMA StutterPreserves ==
    ASSUME InductiveInvariant, UNCHANGED vars
    PROVE  InductiveInvariant'
<1>1. TypeOK'
  BY DEF InductiveInvariant, TypeOK, vars
<1> QED
  BY <1>1, FrameOfDispatcher DEF vars

\* Every step of every process keeps the invariant.
LEMMA NextPreserves == InductiveInvariant /\ [Next]_vars => InductiveInvariant'
<1> SUFFICES ASSUME InductiveInvariant, [Next]_vars PROVE InductiveInvariant'
  OBVIOUS
<1>1. CASE \E j \in Jobs : Admit(j)
  BY <1>1, AdmitPreserves
<1>2. ASSUME NEW d \in Dispatchers, DispatcherStep(d) PROVE InductiveInvariant'
  BY <1>2, StartBatchPreserves, DispatchPreserves, ResetPreserves,
     NotificationPreserves DEF DispatcherStep
<1>3. ASSUME NEW w \in Workers, WorkerStep(w) PROVE InductiveInvariant'
  <2>1. CASE \E n \in queue : Pick(w, n)
    BY <2>1, PickPreserves
  <2>2. CASE Claim(w)
    BY <2>2, ClaimPreserves
  <2>3. CASE StaleNotification(w) \/ Dies(w)
    BY <2>3, LeavingPreserves
  <2>4. CASE \E verdict \in Verdicts, last \in BOOLEAN : PipelineEnds(w, verdict, last)
    BY <2>4, PipelineEndsPreserves
  <2>5. CASE FinishReads(w)
    BY <2>5, FinishReadsPreserves
  <2>6. CASE FinishIgnored(w)
    BY <2>6, FinishUnwrittenPreserves DEF FinishIgnored
  <2>7. CASE FinishWrites(w)
    BY <2>7, FinishWrittenPreserves DEF FinishWrites
  <2>8. CASE FinishRaises(w)
    BY <2>8, FinishWrittenPreserves, FinishUnwrittenPreserves DEF FinishRaises
  <2> QED
    BY <1>3, <2>1, <2>2, <2>3, <2>4, <2>5, <2>6, <2>7, <2>8 DEF WorkerStep
<1>4. CASE \E n \in queue : Lose(n)
  BY <1>4, NotificationPreserves
<1>5. CASE Tick
  BY <1>5, TickPreserves
<1>6. CASE UNCHANGED vars
  BY <1>6, StutterPreserves
<1> QED
  BY <1>1, <1>2, <1>3, <1>4, <1>5, <1>6 DEF Next

-----------------------------------------------------------------------------
(***************************************************************************)
(* The safety properties.                                                  *)
(***************************************************************************)
\* The inductive invariant holds in every reachable state of dispatch_batch,
\* claim, finish and execute_job.
THEOREM InvariantHolds == Spec => []InductiveInvariant
  BY InitInvariant, NextPreserves, PTL DEF Spec

\* Type correctness of the table, the notifications and the processes.
THEOREM TypeCorrect == Spec => []TypeOK
<1>1. InductiveInvariant => TypeOK
  BY DEF InductiveInvariant
<1> QED
  BY <1>1, InvariantHolds, PTL

\* A horse that executes, or is between the check and the UPDATE of finish, owns
\* its row under a lease that outlasts it (job_service.py:11).
THEOREM LeaseCorrect == Spec => []LeaseCoversExecution
<1>1. InductiveInvariant => LeaseCoversExecution
  BY DEF InductiveInvariant
<1> QED
  BY <1>1, InvariantHolds, PTL

\* active_key is held exactly while a job is live, by one job at a time
\* (models/jobs.py:12-13).
THEOREM KeyCorrect == Spec => []KeyHeldWhileLive
<1>1. InductiveInvariant => KeyHeldWhileLive
  BY DEF InductiveInvariant
<1> QED
  BY <1>1, InvariantHolds, PTL

\* No job waits for an attempt it does not have (MAX_ATTEMPTS).
THEOREM BudgetCorrect == Spec => []AttemptsLeftWhileWaiting
<1>1. InductiveInvariant => AttemptsLeftWhileWaiting
  BY DEF InductiveInvariant
<1> QED
  BY <1>1, InvariantHolds, PTL

LEMMA InvariantExcludes == InductiveInvariant => ExclusiveExecution
<1> SUFFICES ASSUME InductiveInvariant, NEW v \in Workers, NEW w \in Workers,
                    v # w, Executing(v), Executing(w),
                    KeyOf[worker[v].job] = KeyOf[worker[w].job]
             PROVE  FALSE
  BY DEF ExclusiveExecution
<1> USE DEF InductiveInvariant
<1>1. worker[v].job \in Jobs /\ worker[w].job \in Jobs
  BY DEF TypeOK, Executing
<1>2. Owns(v) /\ Owns(w)
  BY DEF LeaseCoversExecution, Executing
<1>3. job[worker[v].job].active /\ job[worker[w].job].active
  BY <1>1, <1>2 DEF KeyHeldWhileLive, Owns, Live
<1>4. worker[v].job = worker[w].job
  BY <1>1, <1>3 DEF KeyHeldWhileLive
<1> QED
  BY <1>2, <1>4 DEF Owns, NoTwins, Engaged, Executing

\* Two horses never execute the pipeline for one resource at a time.
THEOREM Exclusion == Spec => []ExclusiveExecution
  BY InvariantHolds, InvariantExcludes, PTL

-----------------------------------------------------------------------------
(***************************************************************************)
(* The queue implements the ledger.                                        *)
(***************************************************************************)
LEMMA LedgerInitially == Init => Ledger!LedgerInit
  BY DEF Init, Ledger!LedgerInit, Absent, PhaseOf

\* Rows whose status keeps its phase and whose attempts stay: a ledger stutter.
LEMMA LedgerStutters ==
    ASSUME \A j \in Jobs : /\ PhaseOf(job'[j].status) = PhaseOf(job[j].status)
                           /\ job'[j].attempts = job[j].attempts
    PROVE  UNCHANGED Ledger!ledger
<1>1. [j \in Jobs |-> PhaseOf(job'[j].status)] = [j \in Jobs |-> PhaseOf(job[j].status)]
  OBVIOUS
<1>2. [j \in Jobs |-> job'[j].attempts] = [j \in Jobs |-> job[j].attempts]
  OBVIOUS
<1> QED
  BY <1>1, <1>2 DEF Ledger!ledger

\* One row changes: the ledger's functions change at that row.
LEMMA LedgerPoint ==
    ASSUME NEW j \in Jobs, NEW row, job \in [Jobs -> JobRow],
           job' = [job EXCEPT ![j] = row]
    PROVE  /\ [i \in Jobs |-> PhaseOf(job'[i].status)] =
                 [[i \in Jobs |-> PhaseOf(job[i].status)] EXCEPT ![j] = PhaseOf(row.status)]
           /\ [i \in Jobs |-> job'[i].attempts] =
                 [[i \in Jobs |-> job[i].attempts] EXCEPT ![j] = row.attempts]
  OBVIOUS

LEMMA LedgerAdmits ==
    ASSUME InductiveInvariant, NEW j \in Jobs, Admit(j)
    PROVE  Ledger!LedgerAdmit(j)
<1> USE DEF InductiveInvariant
<1> DEFINE row == [job[j] EXCEPT !.status = "pending", !.active = TRUE]
<1>1. job[j].status = "absent" /\ job[j] \in JobRow /\ job \in [Jobs -> JobRow]
  BY DEF Admit, TypeOK
<1>2. row.status = "pending" /\ row.attempts = job[j].attempts
  BY <1>1 DEF JobRow
<1>3. job' = [job EXCEPT ![j] = row]
  BY DEF Admit
<1> HIDE DEF row
<1>4. \A i \in Jobs : PhaseOf(job[i].status) \in Ledger!Unfinished => KeyOf[i] # KeyOf[j]
  BY <1>1 DEF Admit, KeyFree, KeyHeldWhileLive, Ledger!Unfinished, PhaseOf, Live,
     JobRow, Terminal
<1>5. [i \in Jobs |-> job'[i].attempts] = [i \in Jobs |-> job[i].attempts]
  BY <1>1, <1>2, <1>3
<1> QED
  BY <1>1, <1>2, <1>3, <1>4, <1>5, LedgerPoint DEF Ledger!LedgerAdmit, PhaseOf

LEMMA LedgerLoses ==
    ASSUME InductiveInvariant, NEW d \in Dispatchers, StartBatch(d)
    PROVE  \E lost \in SUBSET Jobs : Ledger!LedgerLose(lost)
<1> USE DEF InductiveInvariant
<1> DEFINE lost == {j \in Jobs : Expired(job[j]) /\ job[j].status = "running"}
<1>1. \A j \in Jobs : job[j] \in JobRow
  BY DEF TypeOK
<1>2. \A j \in Jobs : job'[j] = IF Expired(job[j]) THEN Expire(job[j]) ELSE job[j]
  BY DEF StartBatch, Swept
<1>3. \A j \in Jobs : job'[j].attempts = job[j].attempts
  BY <1>1, <1>2 DEF Expire, JobRow
<1>4. \A j \in Jobs : PhaseOf(job'[j].status) =
         IF j \notin lost THEN PhaseOf(job[j].status)
         ELSE IF job[j].attempts < MaxAttempts THEN "waiting" ELSE "failed"
  BY <1>1, <1>2 DEF Expire, Expired, AttemptsLeft, PhaseOf, JobRow,
     AttemptsLeftWhileWaiting
<1>5. \A j \in lost : PhaseOf(job[j].status) = "running"
  BY DEF PhaseOf
<1>6. lost \in SUBSET Jobs
  OBVIOUS
<1> HIDE DEF lost
<1>7. Ledger!LedgerLose(lost)
  BY <1>3, <1>4, <1>5, <1>6 DEF Ledger!LedgerLose
<1> QED
  BY <1>6, <1>7

LEMMA LedgerStarts ==
    ASSUME InductiveInvariant, NEW w \in Workers, Claim(w)
    PROVE  \E j \in Jobs : Ledger!LedgerStart(j)
<1> USE DEF InductiveInvariant
<1> DEFINE mine == worker[w].job
           row == Claimed(job[mine])
<1>1. /\ mine \in Jobs /\ job \in [Jobs -> JobRow] /\ job[mine] \in JobRow
      /\ job[mine].status = "dispatched"
  BY DEF Claim, ClaimApplies, HoldsDispatch, TypeOK
<1>2. row.status = "running" /\ row.attempts = job[mine].attempts + 1
  BY <1>1 DEF Claimed, JobRow
<1>3. job' = [job EXCEPT ![mine] = row]
  BY DEF Claim
<1>4. job[mine].attempts < MaxAttempts
  BY <1>1 DEF AttemptsLeftWhileWaiting
<1> HIDE DEF row
<1>5. Ledger!LedgerStart(mine)
  BY <1>1, <1>2, <1>3, <1>4, LedgerPoint DEF Ledger!LedgerStart, PhaseOf
<1> QED
  BY <1>1, <1>5 DEF Ledger!LedgerStart

LEMMA LedgerEnds ==
    ASSUME InductiveInvariant, NEW w \in Workers, worker[w].pc = "write",
           job' = WrittenBy(w)
    PROVE  \E j \in Jobs, p \in Ledger!Phases : Ledger!LedgerEnd(j, p)
<1> USE DEF InductiveInvariant
<1> DEFINE mine == worker[w].job
           row == job[mine]
           new == VerdictWritten(row, worker[w].verdict, row.attempts)
<1>1. /\ mine \in Jobs /\ job \in [Jobs -> JobRow] /\ row \in JobRow
      /\ worker[w].verdict \in Verdicts
  BY DEF TypeOK, WorkerState
<1>2. row.status = "running"
  BY DEF LeaseCoversExecution, Owns
<1>3. row.attempts > 0 /\ worker[w].seen = row.attempts
  BY <1>1, <1>2 DEF AttemptsCounted, RowOf
<1>4. /\ new.attempts = row.attempts
      /\ \/ new.status = "pending" /\ row.attempts < MaxAttempts
         \/ new.status \in Terminal
  BY <1>1, <1>3, VerdictShape
<1>5. job' = [job EXCEPT ![mine] = new]
  BY <1>3 DEF WrittenBy
<1> HIDE DEF new
<1> DEFINE p == PhaseOf(new.status)
<1>6. p \in {"waiting", "failed", "succeeded"} /\ (p = "waiting" => row.attempts < MaxAttempts)
  BY <1>4 DEF PhaseOf, Terminal
<1>7. [i \in Jobs |-> job'[i].attempts] = [i \in Jobs |-> job[i].attempts]
  BY <1>1, <1>4, <1>5
<1>8. [i \in Jobs |-> PhaseOf(job'[i].status)] =
         [[i \in Jobs |-> PhaseOf(job[i].status)] EXCEPT ![mine] = p]
  BY <1>1, <1>5, LedgerPoint
<1>9. PhaseOf(row.status) = "running"
  BY <1>2 DEF PhaseOf
<1> HIDE DEF p
<1>10. Ledger!LedgerEnd(mine, p)
  BY <1>1, <1>6, <1>7, <1>8, <1>9 DEF Ledger!LedgerEnd
<1> QED
  BY <1>1, <1>6, <1>10 DEF Ledger!Phases

LEMMA LedgerSteps ==
    InductiveInvariant /\ [Next]_vars => [Ledger!LedgerNext]_(Ledger!ledger)
<1> SUFFICES ASSUME InductiveInvariant, [Next]_vars
             PROVE  Ledger!LedgerNext \/ UNCHANGED Ledger!ledger
  OBVIOUS
<1> USE DEF Ledger!LedgerNext
<1>1. CASE \E j \in Jobs : Admit(j)
  BY <1>1, LedgerAdmits
<1>2. ASSUME UNCHANGED job PROVE UNCHANGED Ledger!ledger
  BY <1>2, LedgerStutters
<1>3. ASSUME NEW d \in Dispatchers, DispatcherStep(d)
      PROVE  Ledger!LedgerNext \/ UNCHANGED Ledger!ledger
  <2>1. CASE StartBatch(d)
    BY <2>1, LedgerLoses
  <2>2. ASSUME NEW j \in Jobs, NEW t \in Tokens, Dispatch(d, j, t)
        PROVE  UNCHANGED Ledger!ledger
    BY <2>2, LedgerStutters DEF Dispatch, PhaseOf, InductiveInvariant, TypeOK, JobRow
  <2>3. CASE Reset(d)
    BY <2>3, LedgerStutters DEF Reset, ResetApplies, HoldsDispatch, PhaseOf,
       InductiveInvariant, TypeOK, JobRow
  <2>4. CASE \/ \E j \in Jobs : SkipTaken(d, j)
             \/ Enqueue(d) \/ EnqueueRaises(d) \/ EndBatch(d) \/ DispatcherStops(d)
    BY <1>2, <2>4 DEF SkipTaken, Enqueue, EnqueueRaises, EndBatch, DispatcherStops
  <2> QED
    BY <1>3, <2>1, <2>2, <2>3, <2>4 DEF DispatcherStep
<1>4. ASSUME NEW w \in Workers, WorkerStep(w)
      PROVE  Ledger!LedgerNext \/ UNCHANGED Ledger!ledger
  <2>1. CASE Claim(w)
    BY <2>1, LedgerStarts
  <2>2. CASE FinishWrites(w) \/ FinishRaises(w)
    BY <1>2, <2>2, LedgerEnds DEF FinishWrites, FinishRaises
  <2>3. CASE \/ \E n \in queue : Pick(w, n)
             \/ StaleNotification(w)
             \/ \E verdict \in Verdicts, last \in BOOLEAN : PipelineEnds(w, verdict, last)
             \/ FinishReads(w) \/ FinishIgnored(w) \/ Dies(w)
    BY <1>2, <2>3 DEF Pick, StaleNotification, PipelineEnds, FinishReads,
       FinishIgnored, Dies
  <2> QED
    BY <1>4, <2>1, <2>2, <2>3 DEF WorkerStep
<1>5. CASE Tick
  BY <1>5, LedgerStutters DEF Tick, InductiveInvariant, TypeOK, JobRow
<1>6. CASE (\E n \in queue : Lose(n)) \/ UNCHANGED vars
  BY <1>2, <1>6 DEF Lose, vars
<1> QED
  BY <1>1, <1>3, <1>4, <1>5, <1>6 DEF Next

\* The queue, with all its processes, is an implementation of the ledger.
THEOREM Refinement == Spec => ImplementsLedger
<1>1. Spec => Ledger!LedgerInit
  BY LedgerInitially DEF Spec
<1>2. InductiveInvariant /\ [Next]_vars => [Ledger!LedgerNext]_(Ledger!ledger)
  BY LedgerSteps
<1> QED
  BY <1>1, <1>2, InvariantHolds, PTL DEF Spec, ImplementsLedger, Ledger!LedgerSpec

\* A ledger step leaves the phase and the attempts of an ended job alone.
LEMMA EndedStays ==
    ASSUME InductiveInvariant, [Next]_vars, NEW j \in Jobs,
           job[j].status \in Terminal
    PROVE  job'[j].status = job[j].status /\ job'[j].attempts = job[j].attempts
<1> DEFINE phase == [i \in Jobs |-> PhaseOf(job[i].status)]
           phaseNext == [i \in Jobs |-> PhaseOf(job'[i].status)]
           tries == [i \in Jobs |-> job[i].attempts]
           triesNext == [i \in Jobs |-> job'[i].attempts]
<1>1. phase[j] \in Terminal /\ phase[j] = job[j].status
  BY DEF Terminal, PhaseOf
<1>2. job'[j] \in JobRow
  BY NextPreserves DEF InductiveInvariant, TypeOK
<1>3. [Ledger!LedgerNext]_(Ledger!ledger)
  BY LedgerSteps
<1>4. phaseNext[j] = phase[j] /\ triesNext[j] = tries[j]
  <2> HIDE DEF phase, phaseNext, tries, triesNext
  <2>1. CASE UNCHANGED Ledger!ledger
    BY <2>1 DEF Ledger!ledger, phase, phaseNext, tries, triesNext
  <2>2. ASSUME NEW i \in Jobs, Ledger!LedgerAdmit(i) \/ Ledger!LedgerStart(i)
        PROVE  phaseNext[j] = phase[j] /\ triesNext[j] = tries[j]
    BY <1>1, <2>2 DEF Ledger!LedgerAdmit, Ledger!LedgerStart, Terminal,
       phase, phaseNext, tries, triesNext
  <2>3. ASSUME NEW i \in Jobs, NEW p \in Ledger!Phases, Ledger!LedgerEnd(i, p)
        PROVE  phaseNext[j] = phase[j] /\ triesNext[j] = tries[j]
    BY <1>1, <2>3 DEF Ledger!LedgerEnd, Terminal, phase, phaseNext, tries, triesNext
  <2>4. ASSUME NEW lost \in SUBSET Jobs, Ledger!LedgerLose(lost)
        PROVE  phaseNext[j] = phase[j] /\ triesNext[j] = tries[j]
    BY <1>1, <2>4 DEF Ledger!LedgerLose, Terminal, phase, phaseNext, tries, triesNext
  <2> QED
    BY <1>3, <2>1, <2>2, <2>3, <2>4 DEF Ledger!LedgerNext
<1> QED
  BY <1>1, <1>2, <1>4 DEF PhaseOf, JobRow, Terminal, Live

\* The outcome of a job that failed or succeeded is never written again.
THEOREM OutcomeStays == Spec => OutcomeIsFinal
<1>1. InductiveInvariant /\ [Next]_vars =>
         [\A j \in Jobs : job[j].status \in Terminal =>
             /\ job'[j].status = job[j].status
             /\ job'[j].attempts = job[j].attempts]_vars
  BY EndedStays
<1> QED
  BY <1>1, InvariantHolds, PTL DEF Spec, OutcomeIsFinal

\* A horse that goes on executing goes on with the job it claimed.
LEMMA SameJob ==
    ASSUME [Next]_vars, TypeOK, NEW w \in Workers, Executing(w), Executing(w)'
    PROVE  worker'[w].job = worker[w].job
<1> USE DEF Executing
<1>1. worker \in [Workers -> WorkerState]
  BY DEF TypeOK
<1>2. ASSUME NEW u \in Workers, WorkerStep(u)
      PROVE  worker'[w].job = worker[w].job
  <2>1. CASE u = w
    BY <1>1, <1>2, <2>1, IdleWorkerType DEF WorkerStep, Pick, Claim,
       StaleNotification, PipelineEnds, FinishReads, FinishIgnored,
       FinishWrites, FinishRaises, Dies, WorkerState
  <2>2. CASE u # w
    BY <1>1, <1>2, <2>2 DEF WorkerStep, Pick, Claim, StaleNotification,
       PipelineEnds, FinishReads, FinishIgnored, FinishWrites, FinishRaises, Dies
  <2> QED
    BY <2>1, <2>2
<1>3. ASSUME UNCHANGED worker PROVE worker'[w].job = worker[w].job
  BY <1>3
<1>4. CASE Tick
  BY <1>1, <1>4 DEF Tick, WorkerState
<1>5. ASSUME NEW d \in Dispatchers, DispatcherStep(d) PROVE UNCHANGED worker
  BY <1>5 DEF DispatcherStep, StartBatch, SkipTaken, Dispatch, Enqueue,
     EnqueueRaises, Reset, EndBatch, DispatcherStops
<1> QED
  BY <1>2, <1>3, <1>4, <1>5 DEF Next, Admit, Lose, vars

\* No sweep, reset or finish of somebody else ends an attempt under way.
THEOREM AttemptsUndisturbed == Spec => NobodyElseEndsAnAttempt
<1>1. InductiveInvariant /\ [Next]_vars =>
         [\A w \in Workers : Executing(w) /\ Executing(w)' =>
             job'[worker[w].job].status = "running"]_vars
  <2> SUFFICES ASSUME InductiveInvariant, [Next]_vars, NEW w \in Workers,
                      Executing(w), Executing(w)'
               PROVE  job'[worker[w].job].status = "running"
    OBVIOUS
  <2>1. InductiveInvariant'
    BY NextPreserves
  <2>2. job'[worker'[w].job].status = "running"
    BY <2>1 DEF InductiveInvariant, LeaseCoversExecution, Owns, Executing
  <2>3. worker'[w].job = worker[w].job
    BY SameJob DEF InductiveInvariant
  <2> QED
    BY <2>2, <2>3
<1> QED
  BY <1>1, InvariantHolds, PTL DEF Spec, NobodyElseEndsAnAttempt

-----------------------------------------------------------------------------
LEMMA HorsesLeaveDispatchers ==
    ASSUME NEW w \in Workers, WorkerStep(w)
    PROVE  UNCHANGED disp
<1>1. CASE \E n \in queue : Pick(w, n)
  BY <1>1 DEF Pick
<1>2. CASE Claim(w) \/ StaleNotification(w)
  BY <1>2 DEF Claim, StaleNotification
<1>3. CASE \E verdict \in Verdicts, last \in BOOLEAN : PipelineEnds(w, verdict, last)
  BY <1>3 DEF PipelineEnds
<1>4. CASE FinishReads(w) \/ FinishIgnored(w)
  BY <1>4 DEF FinishReads, FinishIgnored
<1>5. CASE FinishWrites(w) \/ FinishRaises(w) \/ Dies(w)
  BY <1>5 DEF FinishWrites, FinishRaises, Dies
<1> QED
  BY <1>1, <1>2, <1>3, <1>4, <1>5 DEF WorkerStep

\* A row that waits is moved by dispatchers only.
LEMMA HorsesPassBy ==
    ASSUME InductiveInvariant, NEW w \in Workers, WorkerStep(w),
           NEW j \in Jobs, job[j].status = "pending"
    PROVE  job'[j] = job[j]
<1>1. CASE Claim(w)
  <2>1. worker[w].job # j
    BY <1>1 DEF Claim, ClaimApplies, HoldsDispatch
  <2> QED
    BY <1>1, <2>1 DEF Claim, InductiveInvariant, TypeOK
<1>2. CASE FinishWrites(w) \/ FinishRaises(w)
  <2>1. ASSUME worker[w].pc = "write", job' = WrittenBy(w)
        PROVE  job'[j] = job[j]
    <3>1. worker[w].job # j
      BY <2>1 DEF InductiveInvariant, LeaseCoversExecution, Owns
    <3> QED
      BY <2>1, <3>1 DEF WrittenBy, InductiveInvariant, TypeOK
  <2> QED
    BY <1>2, <2>1 DEF FinishWrites, FinishRaises
<1>3. CASE \E n \in queue : Pick(w, n)
  BY <1>3 DEF Pick
<1>4. CASE \E verdict \in Verdicts, last \in BOOLEAN : PipelineEnds(w, verdict, last)
  BY <1>4 DEF PipelineEnds
<1>5. CASE StaleNotification(w) \/ FinishReads(w) \/ FinishIgnored(w) \/ Dies(w)
  BY <1>5 DEF StaleNotification, FinishReads, FinishIgnored, Dies
<1> QED
  BY <1>1, <1>2, <1>3, <1>4, <1>5 DEF WorkerStep

\* Time shortens what a row has to wait, and nothing else that a batch goes by.
LEMMA TimeShortensWaits ==
    ASSUME InductiveInvariant, Tick
    PROVE  /\ \A d \in Dispatchers : disp'[d].ids = disp[d].ids
           /\ \A j \in Jobs : /\ job'[j].status = job[j].status
                              /\ job'[j].wait = Less(job[j].wait)
<1>1. disp \in [Dispatchers -> DispatcherState] /\ job \in [Jobs -> JobRow]
  BY DEF InductiveInvariant, TypeOK
<1>2. ASSUME NEW d \in Dispatchers PROVE disp'[d].ids = disp[d].ids
  <2>1. disp'[d] = IF disp[d].pc = "idle" \/ disp[d].age > Lease THEN disp[d]
                   ELSE [disp[d] EXCEPT !.age = @ + 1]
    BY DEF Tick
  <2>2. disp[d] \in DispatcherState
    BY <1>1
  <2> QED
    BY <2>1, <2>2 DEF DispatcherState
<1>3. ASSUME NEW j \in Jobs
      PROVE  job'[j].status = job[j].status /\ job'[j].wait = Less(job[j].wait)
  <2> DEFINE l == IF job[j].lease < 0 THEN -1 ELSE job[j].lease - 1
             p == Less(job[j].wait)
  <2>1. job'[j] = [job[j] EXCEPT !.lease = l, !.wait = p]
    BY DEF Tick
  <2>2. job[j] \in JobRow
    BY <1>1
  <2> HIDE DEF l, p
  <2>3. job'[j].status = job[j].status /\ job'[j].wait = p
    BY <2>1, <2>2 DEF JobRow
  <2> QED
    BY <2>3 DEF p
<1> QED
  BY <1>2, <1>3

\* What a batch has selected is due until the batch comes to it.
LEMMA SelectionLasts ==
    ASSUME OneDispatcher, InductiveInvariant, SelectedAreDue, [Next]_vars
    PROVE  SelectedAreDue'
<1>1. disp \in [Dispatchers -> DispatcherState] /\ job \in [Jobs -> JobRow]
  BY DEF InductiveInvariant, TypeOK
<1>2. ASSUME NEW d \in Dispatchers, disp[d].ids \subseteq Jobs
      PROVE  \A j \in disp[d].ids : j \in Jobs /\ job[j].status = "pending" /\ job[j].wait = 0
  BY <1>2 DEF SelectedAreDue
<1>3. \A d \in Dispatchers : disp[d].ids \subseteq Jobs
  BY <1>1 DEF DispatcherState
<1>4. ASSUME NEW d \in Dispatchers, DispatcherStep(d) PROVE SelectedAreDue'
  <2>1. \A e \in Dispatchers : e = d
    BY DEF OneDispatcher
  <2>2. CASE StartBatch(d)
    <3>1. job' = Swept
      BY <2>2 DEF StartBatch
    <3>2. PICK ids \in SUBSET Due(Swept) :
             disp' = [disp EXCEPT ![d] =
                        [@ EXCEPT !.pc = "batch", !.ids = ids, !.age = 0]]
      BY <2>2 DEF StartBatch
    <3>3. disp'[d].ids = ids
      BY <1>1, <3>2 DEF DispatcherState
    <3>4. \A j \in ids : job'[j].status = "pending" /\ job'[j].wait = 0
      BY <3>1 DEF Due
    <3> QED
      BY <2>1, <3>3, <3>4 DEF SelectedAreDue
  <2>3. CASE \E j \in Jobs, t \in Tokens : Dispatch(d, j, t)
    <3>1. PICK j \in Jobs, t \in Tokens : Dispatch(d, j, t)
      BY <2>3
    <3>2. disp'[d].ids = disp[d].ids \ {j}
      BY <1>1, <3>1 DEF Dispatch, DispatcherState
    <3>3. \A i \in Jobs : i # j => job'[i] = job[i]
      BY <1>1, <3>1 DEF Dispatch
    <3> QED
      BY <1>2, <1>3, <2>1, <3>2, <3>3 DEF SelectedAreDue
  <2>4. CASE Reset(d)
    <3>1. disp'[d].ids = disp[d].ids
      BY <1>1, <2>4 DEF Reset, BackToBatch, DispatcherState
    <3>2. \A i \in disp[d].ids : job'[i] = job[i]
      BY <1>1, <1>2, <1>3, <2>4 DEF Reset, ResetApplies, HoldsDispatch
    <3> QED
      BY <1>2, <1>3, <2>1, <3>1, <3>2 DEF SelectedAreDue
  <2>5. CASE \/ \E j \in Jobs : SkipTaken(d, j)
             \/ Enqueue(d) \/ EnqueueRaises(d) \/ EndBatch(d) \/ DispatcherStops(d)
    <3>1. disp'[d].ids \subseteq disp[d].ids
      <4>1. disp[d] \in DispatcherState
        BY <1>1
      <4>2. CASE \E j \in Jobs : SkipTaken(d, j)
        BY <1>1, <4>1, <4>2 DEF SkipTaken, DispatcherState
      <4>3. CASE Enqueue(d)
        BY <1>1, <4>1, <4>3 DEF Enqueue, BackToBatch, DispatcherState
      <4>4. CASE EnqueueRaises(d)
        BY <1>1, <4>1, <4>4 DEF EnqueueRaises, DispatcherState
      <4>5. CASE EndBatch(d) \/ DispatcherStops(d)
        BY <1>1, <4>5 DEF EndBatch, DispatcherStops, IdleDispatcher
      <4> QED
        BY <2>5, <4>2, <4>3, <4>4, <4>5
    <3>2. UNCHANGED job
      BY <2>5 DEF SkipTaken, Enqueue, EnqueueRaises, EndBatch, DispatcherStops
    <3> QED
      BY <1>2, <1>3, <2>1, <3>1, <3>2 DEF SelectedAreDue
  <2> QED
    BY <1>4, <2>2, <2>3, <2>4, <2>5 DEF DispatcherStep
<1>5. ASSUME UNCHANGED disp,
             \A j \in Jobs : job[j].status = "pending" => job'[j] = job[j]
      PROVE  SelectedAreDue'
  BY <1>2, <1>3, <1>5 DEF SelectedAreDue
<1>6. CASE \E w \in Workers : WorkerStep(w)
  <2>1. PICK w \in Workers : WorkerStep(w)
    BY <1>6
  <2> QED
    BY <1>5, <2>1, HorsesLeaveDispatchers, HorsesPassBy
<1>7. CASE \E j \in Jobs : Admit(j)
  BY <1>1, <1>5, <1>7 DEF Admit
<1>8. CASE Tick
  BY <1>2, <1>3, <1>8, TimeShortensWaits DEF SelectedAreDue, Less
<1>9. CASE (\E n \in queue : Lose(n)) \/ UNCHANGED vars
  BY <1>5, <1>9 DEF Lose, vars
<1> QED
  BY <1>4, <1>6, <1>7, <1>8, <1>9 DEF Next

\* Only a dispatcher that comes to a row of its batch dispatches it.
LEMMA DispatchedFromBatch ==
    ASSUME InductiveInvariant, SelectedAreDue, [Next]_vars, NEW j \in Jobs,
           job[j].status = "pending", job'[j].status = "dispatched"
    PROVE  job[j].wait = 0
<1>1. job \in [Jobs -> JobRow]
  BY DEF InductiveInvariant, TypeOK
<1>2. job'[j] # job[j]
  OBVIOUS
<1>3. ASSUME NEW d \in Dispatchers, DispatcherStep(d) PROVE job[j].wait = 0
  <2>1. CASE StartBatch(d)
    BY <1>2, <2>1 DEF StartBatch, Swept, Expired
  <2>2. CASE \E i \in Jobs, t \in Tokens : Dispatch(d, i, t)
    BY <1>1, <1>2, <2>2 DEF Dispatch, SelectedAreDue
  <2>3. CASE Reset(d)
    BY <1>1, <1>2, <2>3 DEF Reset, ResetApplies, HoldsDispatch
  <2> QED
    BY <1>2, <1>3, <2>1, <2>2, <2>3 DEF DispatcherStep, SkipTaken, Enqueue, EnqueueRaises,
       EndBatch, DispatcherStops
<1>4. CASE \E w \in Workers : WorkerStep(w)
  BY <1>2, <1>4, HorsesPassBy
<1>5. CASE \E i \in Jobs : Admit(i)
  BY <1>1, <1>2, <1>5 DEF Admit
<1>6. CASE Tick
  BY <1>6, TimeShortensWaits
<1>7. CASE (\E n \in queue : Lose(n)) \/ UNCHANGED vars
  BY <1>2, <1>7 DEF Lose, vars
<1> QED
  BY <1>3, <1>4, <1>5, <1>6, <1>7 DEF Next

\* With one dispatcher, as docker-compose.yml:66 deploys it, no attempt begins before
\* its backoff is over, although the claim of a row (job_service.py:83) does not
\* look at available_at again.
THEOREM BackoffWithOneDispatcher ==
    ASSUME OneDispatcher
    PROVE  Spec => BackoffRespected
<1>1. Init => SelectedAreDue
  BY DEF Init, SelectedAreDue, IdleDispatcher
<1>2. InductiveInvariant /\ SelectedAreDue /\ [Next]_vars => SelectedAreDue'
  BY SelectionLasts
<1>3. InductiveInvariant /\ SelectedAreDue /\ [Next]_vars =>
         [\A j \in Jobs :
             job[j].status = "pending" /\ job'[j].status = "dispatched"
             => job[j].wait = 0]_vars
  BY DispatchedFromBatch
<1> QED
  BY <1>1, <1>2, <1>3, InvariantHolds, PTL DEF Spec, BackoffRespected
=============================================================================
