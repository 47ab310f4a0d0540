-------------------------- MODULE AdmissionProofs --------------------------
(***************************************************************************)
(* Theorems about Admission, for any number of requests, deliveries, jobs, *)
(* resources and minutes, and any limit.                                   *)
(***************************************************************************)
EXTENDS Admission, FiniteSetTheorems, TLAPS

\* The jobs that were admitted in a window; they are finitely many, which is what
\* lets them be counted.
Admitted(m) == {j \in JobIds : row[j].state # "absent" /\ row[j].window = m}

Finite == \A m \in Windows : IsFiniteSet(Admitted(m))

Invariant == InductiveInvariant /\ Finite

-----------------------------------------------------------------------------
LEMMA NoneIsNothing == None \notin JobIds /\ None \notin Deliveries /\ None \notin Keys
  BY AdmissionAssumption

LEMMA IdleType == Idle \in Request
  BY AdmissionAssumption DEF Idle, Request

LEMMA UnbornType == Unborn \in Row
  BY AdmissionAssumption DEF Unborn, Row

LEMMA InitInvariant == Init => Invariant
<1> SUFFICES ASSUME Init PROVE Invariant
  OBVIOUS
<1>1. /\ \A j \in JobIds : row[j] = Unborn
      /\ \A r \in Requests : req[r] = Idle
      /\ \A d \in Deliveries : delivery[d] = None
      /\ \A m \in Windows : count[m] = 0
  BY DEF Init
<1>2. TypeOK
  BY IdleType, UnbornType, AdmissionAssumption DEF Init, TypeOK
<1>3. RequestsAgree
  BY <1>1 DEF RequestsAgree, Idle
<1>4. CreatorsRecorded
  BY <1>1 DEF CreatorsRecorded, Unborn
<1>5. AnswerIsRecorded
  BY <1>1 DEF AnswerIsRecorded, Idle
<1>6. OneLiveJobPerKey
  BY <1>1 DEF OneLiveJobPerKey, Unborn
<1>7. \A m \in Windows : Admitted(m) = {}
  BY <1>1 DEF Admitted, Unborn
<1>8. WindowCountsJobs /\ Finite
  BY <1>1, <1>7, FS_EmptySet DEF WindowCountsJobs, Finite, Admitted
<1> QED
  BY <1>2, <1>3, <1>4, <1>5, <1>6, <1>8 DEF Invariant, InductiveInvariant

-----------------------------------------------------------------------------
(***************************************************************************)
(* Most steps are about one request and leave the tables alone.            *)
(***************************************************************************)
RequestAgrees(r) ==
    /\ req[r].pc # "idle" =>
          /\ req[r].key \in Keys
          /\ req[r].id # None => req[r].key = KeyOf[req[r].id]
    /\ req[r].pc # "done" => req[r].answer = "none"
    /\ req[r].answer \in {"queued", "duplicate"} => req[r].job # None
    /\ req[r].pc = "delivery" => req[r].id # None
    /\ req[r].pc = "join" =>
          /\ req[r].id # None /\ req[r].found # None
          /\ row[req[r].found].state # "absent"
          /\ row[req[r].found].key = req[r].key

AnswerRecorded(r) ==
    req[r].answer \in {"queued", "duplicate"} /\ req[r].id # None =>
        delivery[req[r].id] = req[r].job

LEMMA OneRequest ==
    ASSUME Invariant, NEW r \in Requests, NEW me \in Request,
           req' = [req EXCEPT ![r] = me], UNCHANGED <<row, delivery, count, minute>>,
           RequestAgrees(r)', AnswerRecorded(r)'
    PROVE  Invariant'
<1>1. /\ req' \in [Requests -> Request] /\ req'[r] = me
      /\ \A q \in Requests \ {r} : req'[q] = req[q]
  BY DEF Invariant, InductiveInvariant, TypeOK
<1>2. TypeOK'
  BY <1>1 DEF Invariant, InductiveInvariant, TypeOK
<1>3. RequestsAgree'
  BY <1>1 DEF Invariant, InductiveInvariant, RequestsAgree, RequestAgrees
<1>4. AnswerIsRecorded'
  BY <1>1 DEF Invariant, InductiveInvariant, AnswerIsRecorded, AnswerRecorded
<1>5. CreatorsRecorded' /\ OneLiveJobPerKey'
  BY DEF Invariant, InductiveInvariant, CreatorsRecorded, OneLiveJobPerKey
<1>6. WindowCountsJobs' /\ Finite'
  BY DEF Invariant, InductiveInvariant, WindowCountsJobs, Finite, Admitted
<1> QED
  BY <1>2, <1>3, <1>4, <1>5, <1>6 DEF Invariant, InductiveInvariant

\* What the invariant says of one request.
LEMMA AboutRequest ==
    ASSUME Invariant, NEW r \in Requests
    PROVE  req[r] \in Request /\ RequestAgrees(r) /\ AnswerRecorded(r)
  BY DEF Invariant, InductiveInvariant, TypeOK, RequestsAgree, RequestAgrees,
         AnswerIsRecorded, AnswerRecorded

LEMMA ArrivePreserves ==
    ASSUME Invariant, NEW r \in Requests, NEW k \in Keys,
           NEW d \in Deliveries \cup {None}, Arrive(r, k, d)
    PROVE  Invariant'
<1> DEFINE me == [Idle EXCEPT !.pc = FirstStep(d), !.key = k, !.id = d]
<1>1. me \in Request
  BY IdleType DEF FirstStep, Request
<1>2. req' = [req EXCEPT ![r] = me] /\ UNCHANGED <<row, delivery, count, minute>>
  BY DEF Arrive
<1>3. req'[r] = me
  BY <1>2 DEF Invariant, InductiveInvariant, TypeOK
<1>4. me.pc = FirstStep(d) /\ me.key = k /\ me.id = d /\ me.answer = "none"
  BY DEF Idle
<1>5. k \in Keys /\ (d # None => k = KeyOf[d])
  BY DEF Arrive
<1>6. RequestAgrees(r)' /\ AnswerRecorded(r)'
  <2> HIDE DEF me
  <2>1. me.pc = "active" \/ (me.pc = "delivery" /\ d # None)
    BY <1>4 DEF FirstStep
  <2> QED
    BY <1>3, <1>4, <1>5, <2>1 DEF RequestAgrees, AnswerRecorded
<1> QED
  BY <1>1, <1>2, <1>6, OneRequest

\* An answer that is right in the tables as they are.
LEMMA AnswerPreserves ==
    ASSUME Invariant, NEW r \in Requests, NEW a \in {"duplicate", "limited", "error"},
           NEW j \in JobIds \cup {None}, Answer(r, a, j),
           req[r].pc # "idle",
           a = "duplicate" => j # None,
           a = "duplicate" /\ req[r].id # None => delivery[req[r].id] = j,
           UNCHANGED <<row, delivery, count, minute>>
    PROVE  Invariant'
<1> DEFINE me == [req[r] EXCEPT !.pc = "done", !.answer = a, !.job = j]
<1>1. req[r] \in Request /\ RequestAgrees(r)
  BY AboutRequest
<1>2. me \in Request
  BY <1>1 DEF Request
<1>3. req' = [req EXCEPT ![r] = me]
  BY DEF Answer
<1>4. req'[r] = me
  BY <1>3 DEF Invariant, InductiveInvariant, TypeOK
<1>5. me.pc = "done" /\ me.answer = a /\ me.job = j /\ me.id = req[r].id
      /\ me.key = req[r].key
  BY <1>1 DEF Request
<1>6. RequestAgrees(r)' /\ AnswerRecorded(r)'
  BY <1>1, <1>4, <1>5 DEF RequestAgrees, AnswerRecorded
<1> QED
  BY <1>2, <1>3, <1>6, OneRequest

LEMMA LookUpDeliveryPreserves ==
    ASSUME Invariant, NEW r \in Requests, LookUpDelivery(r) PROVE Invariant'
<1>1. req[r] \in Request /\ RequestAgrees(r) /\ AnswerRecorded(r)
      /\ req[r].pc = "delivery" /\ req[r].id \in Deliveries
  BY AboutRequest DEF LookUpDelivery, RequestAgrees, Request
<1>2. CASE delivery[req[r].id] # None
  <2>1. delivery[req[r].id] \in JobIds
    BY <1>1, <1>2 DEF Invariant, InductiveInvariant, TypeOK
  <2> QED
    BY <1>1, <1>2, <2>1, NoneIsNothing, AnswerPreserves DEF LookUpDelivery
<1>3. CASE delivery[req[r].id] = None
  <2> DEFINE me == [req[r] EXCEPT !.pc = "active"]
  <2>1. me \in Request /\ me.pc = "active" /\ me.key = req[r].key
        /\ me.id = req[r].id /\ me.answer = req[r].answer
    BY <1>1 DEF Request
  <2>2. req' = [req EXCEPT ![r] = me] /\ UNCHANGED <<row, delivery, count, minute>>
    BY <1>3 DEF LookUpDelivery
  <2>3. req'[r] = me
    BY <2>2 DEF Invariant, InductiveInvariant, TypeOK
  <2>4. RequestAgrees(r)' /\ AnswerRecorded(r)'
    BY <1>1, <2>1, <2>2, <2>3 DEF RequestAgrees, AnswerRecorded
  <2> QED
    BY <2>1, <2>2, <2>4, OneRequest
<1> QED
  BY <1>2, <1>3

LEMMA FindLivePreserves ==
    ASSUME Invariant, NEW r \in Requests, FindLive(r) PROVE Invariant'
<1>1. req[r] \in Request /\ RequestAgrees(r) /\ req[r].pc = "active"
  BY AboutRequest DEF FindLive
<1>2. PICK j \in Live(req[r].key) :
          IF req[r].id = None
            THEN Answer(r, "duplicate", j)
            ELSE req' = [req EXCEPT ![r] = [@ EXCEPT !.pc = "join", !.found = j]]
  BY DEF FindLive
<1>3. j \in JobIds /\ row[j].state = "live" /\ row[j].key = req[r].key
  BY DEF Live
<1>4. CASE req[r].id = None
  BY <1>1, <1>2, <1>3, <1>4, NoneIsNothing, AnswerPreserves DEF FindLive
<1>5. CASE req[r].id # None
  <2> DEFINE me == [req[r] EXCEPT !.pc = "join", !.found = j]
  <2>1. me \in Request /\ me.pc = "join" /\ me.key = req[r].key /\ me.found = j
        /\ me.id = req[r].id /\ me.answer = req[r].answer
    BY <1>1, <1>3 DEF Request
  <2>2. req' = [req EXCEPT ![r] = me] /\ UNCHANGED <<row, delivery, count, minute>>
    BY <1>2, <1>5 DEF FindLive
  <2>3. req'[r] = me
    BY <2>2 DEF Invariant, InductiveInvariant, TypeOK
  <2>4. RequestAgrees(r)' /\ AnswerRecorded(r)'
    BY <1>1, <1>3, <1>5, <2>1, <2>2, <2>3, NoneIsNothing DEF RequestAgrees, AnswerRecorded
  <2> QED
    BY <2>1, <2>2, <2>4, OneRequest
<1> QED
  BY <1>4, <1>5

LEMMA FindNonePreserves ==
    ASSUME Invariant, NEW r \in Requests, FindNone(r) PROVE Invariant'
<1> DEFINE me == [req[r] EXCEPT !.pc = "create", !.window = minute]
<1>1. req[r] \in Request /\ RequestAgrees(r) /\ req[r].pc = "active"
  BY AboutRequest DEF FindNone
<1>2. minute \in Windows
  BY DEF Invariant, InductiveInvariant, TypeOK
<1>3. me \in Request /\ me.pc = "create" /\ me.key = req[r].key
      /\ me.id = req[r].id /\ me.answer = req[r].answer
  BY <1>1, <1>2 DEF Request
<1>4. req' = [req EXCEPT ![r] = me] /\ UNCHANGED <<row, delivery, count, minute>>
  BY DEF FindNone
<1>5. req'[r] = me
  BY <1>4 DEF Invariant, InductiveInvariant, TypeOK
<1>6. RequestAgrees(r)' /\ AnswerRecorded(r)'
  BY <1>1, <1>3, <1>5 DEF RequestAgrees, AnswerRecorded
<1> QED
  BY <1>3, <1>4, <1>6, OneRequest

LEMMA ConflictPreserves ==
    ASSUME Invariant, NEW r \in Requests, req[r].pc \in {"join", "create"}, Conflict(r),
           UNCHANGED <<row, delivery, count, minute>>
    PROVE  Invariant'
<1>1. req[r] \in Request /\ RequestAgrees(r)
  BY AboutRequest
<1>2. CASE req[r].try + 1 < Tries
  <2> DEFINE me == [req[r] EXCEPT !.pc = FirstStep(req[r].id), !.try = req[r].try + 1,
                                  !.found = None]
  <2>1. req[r].try + 1 \in 0 .. Tries - 1
    BY <1>1, <1>2, AdmissionAssumption DEF Request
  <2>2. me \in Request /\ me.pc = FirstStep(req[r].id) /\ me.key = req[r].key
        /\ me.id = req[r].id /\ me.answer = req[r].answer
    BY <1>1, <2>1 DEF Request, FirstStep
  <2>3. req' = [req EXCEPT ![r] = me]
    BY <1>2 DEF Conflict
  <2>4. req'[r] = me
    BY <2>3 DEF Invariant, InductiveInvariant, TypeOK
  <2>5. RequestAgrees(r)' /\ AnswerRecorded(r)'
    BY <1>1, <2>2, <2>4 DEF RequestAgrees, AnswerRecorded, FirstStep
  <2> QED
    BY <2>2, <2>3, <2>5, OneRequest
<1>3. CASE ~ (req[r].try + 1 < Tries)
  <2> DEFINE me == [req[r] EXCEPT !.pc = "done", !.answer = "error"]
  <2>1. me \in Request /\ me.pc = "done" /\ me.key = req[r].key
        /\ me.id = req[r].id /\ me.answer = "error"
    BY <1>1 DEF Request
  <2>2. req' = [req EXCEPT ![r] = me]
    BY <1>3 DEF Conflict
  <2>3. req'[r] = me
    BY <2>2 DEF Invariant, InductiveInvariant, TypeOK
  <2>4. RequestAgrees(r)' /\ AnswerRecorded(r)'
    BY <1>1, <2>1, <2>3 DEF RequestAgrees, AnswerRecorded
  <2> QED
    BY <2>1, <2>2, <2>4, OneRequest
<1> QED
  BY <1>2, <1>3

\* The request is over, with its response or without.
LEMMA OverPreserves ==
    ASSUME Invariant, NEW r \in Requests, Reply(r) \/ Dies(r) PROVE Invariant'
<1>1. req' = [req EXCEPT ![r] = Idle] /\ UNCHANGED <<row, delivery, count, minute>>
  BY DEF Reply, Dies
<1>2. req'[r] = Idle
  BY <1>1 DEF Invariant, InductiveInvariant, TypeOK
<1>3. RequestAgrees(r)' /\ AnswerRecorded(r)'
  BY <1>2 DEF Idle, RequestAgrees, AnswerRecorded
<1> QED
  BY <1>1, <1>3, IdleType, OneRequest

LEMMA RefusePreserves ==
    ASSUME Invariant, NEW r \in Requests, Refuse(r) PROVE Invariant'
  BY AnswerPreserves DEF Refuse

LEMMA CreateConflictsPreserves ==
    ASSUME Invariant, NEW r \in Requests, CreateConflicts(r) PROVE Invariant'
  BY ConflictPreserves DEF CreateConflicts, Counted

-----------------------------------------------------------------------------
(***************************************************************************)
(* The two transactions.                                                   *)
(***************************************************************************)
\* A delivery that is free has answered nobody and created nothing.
LEMMA FreeDelivery ==
    ASSUME Invariant, NEW d \in Deliveries, delivery[d] = None
    PROVE  /\ \A q \in Requests :
                 req[q].answer \in {"queued", "duplicate"} => req[q].id # d
           /\ \A i \in JobIds : row[i].by # d
<1>1. ASSUME NEW q \in Requests, req[q].answer \in {"queued", "duplicate"}, req[q].id = d
      PROVE  FALSE
  <2>1. req[q].job # None /\ d # None
    BY <1>1, AboutRequest, NoneIsNothing DEF RequestAgrees
  <2> QED
    BY <1>1, <2>1, AboutRequest DEF AnswerRecorded
<1>2. ASSUME NEW i \in JobIds, row[i].by = d PROVE FALSE
  BY <1>2, NoneIsNothing DEF Invariant, InductiveInvariant, CreatorsRecorded
<1> QED
  BY <1>1, <1>2

LEMMA JoinPreserves ==
    ASSUME Invariant, NEW r \in Requests, Join(r) PROVE Invariant'
<1>1. /\ req[r] \in Request /\ RequestAgrees(r) /\ req[r].pc = "join"
      /\ UNCHANGED <<row, count, minute>>
  BY AboutRequest DEF Join
<1>2. CASE ~ DeliveryFree(req[r].id)
  BY <1>1, <1>2, ConflictPreserves DEF Join
<1>3. CASE DeliveryFree(req[r].id)
  <2> DEFINE d == req[r].id
             j == req[r].found
             me == [req[r] EXCEPT !.pc = "done", !.answer = "duplicate", !.job = j]
  <2>1. /\ d \in Deliveries /\ d # None /\ j \in JobIds /\ j # None
        /\ row[j].state # "absent" /\ row[j].key = KeyOf[d]
    BY <1>1, NoneIsNothing DEF RequestAgrees, Request
  <2>2. delivery[d] = None
    BY <1>3, <2>1 DEF DeliveryFree
  <2>3. delivery' = [delivery EXCEPT ![d] = j] /\ req' = [req EXCEPT ![r] = me]
    BY <1>3, <2>1 DEF Join, Recorded, Answer
  <2>4. /\ delivery' \in [Deliveries -> JobIds \cup {None}]
        /\ delivery'[d] = j /\ \A e \in Deliveries \ {d} : delivery'[e] = delivery[e]
    BY <2>1, <2>3 DEF Invariant, InductiveInvariant, TypeOK
  <2>5. me \in Request /\ me.pc = "done" /\ me.answer = "duplicate" /\ me.job = j
        /\ me.id = d /\ me.key = req[r].key
    BY <1>1, <2>1 DEF Request
  <2>6. /\ req' \in [Requests -> Request] /\ req'[r] = me
        /\ \A q \in Requests \ {r} : req'[q] = req[q]
    BY <2>3, <2>5 DEF Invariant, InductiveInvariant, TypeOK
  <2> HIDE DEF d, j, me
  <2>7. TypeOK'
    BY <1>1, <2>4, <2>6 DEF Invariant, InductiveInvariant, TypeOK
  <2>8. RequestsAgree'
    <3>1. RequestAgrees(r)'
      BY <1>1, <2>1, <2>5, <2>6 DEF RequestAgrees, d
    <3> QED
      BY <1>1, <2>6, <3>1 DEF Invariant, InductiveInvariant, RequestsAgree, RequestAgrees
  <2>9. AnswerIsRecorded'
    <3>1. ASSUME NEW q \in Requests \ {r} PROVE AnswerRecorded(q)'
      BY <2>1, <2>2, <2>4, <2>6, FreeDelivery, AboutRequest
      DEF AnswerRecorded, Request
    <3>2. AnswerRecorded(r)'
      BY <2>4, <2>5, <2>6 DEF AnswerRecorded
    <3> QED
      BY <3>1, <3>2 DEF AnswerIsRecorded, AnswerRecorded
  <2>10. CreatorsRecorded'
    BY <1>1, <2>1, <2>2, <2>4, FreeDelivery
    DEF Invariant, InductiveInvariant, CreatorsRecorded, TypeOK, Row
  <2>11. OneLiveJobPerKey'
    BY <1>1, <2>1, <2>4 DEF Invariant, InductiveInvariant, OneLiveJobPerKey
  <2>12. WindowCountsJobs' /\ Finite'
    BY <1>1 DEF Invariant, InductiveInvariant, WindowCountsJobs, Finite, Admitted
  <2> QED
    BY <2>7, <2>8, <2>9, <2>10, <2>11, <2>12 DEF Invariant, InductiveInvariant
<1> QED
  BY <1>2, <1>3

LEMMA CreatePreserves ==
    ASSUME Invariant, NEW r \in Requests, NEW j \in JobIds, Create(r, j) PROVE Invariant'
<1> DEFINE d == req[r].id
           w == req[r].window
           new == [state |-> "live", key |-> req[r].key, by |-> d, window |-> w]
           me == [req[r] EXCEPT !.pc = "done", !.answer = "queued", !.job = j]
<1>1. /\ req[r] \in Request /\ RequestAgrees(r) /\ req[r].pc = "create"
      /\ w \in Windows /\ d \in Deliveries \cup {None}
  BY AboutRequest DEF Create, Request
<1>2. /\ req[r].key \in Keys /\ j # None
      /\ d # None => req[r].key = KeyOf[d] /\ delivery[d] = None
  BY <1>1, NoneIsNothing DEF RequestAgrees, Create, DeliveryFree
<1>3. /\ row' = [row EXCEPT ![j] = new] /\ req' = [req EXCEPT ![r] = me]
      /\ count' = [count EXCEPT ![w] = @ + 1]
      /\ UNCHANGED minute /\ count[w] < Limit /\ row[j].state = "absent"
      /\ KeyFree(req[r].key)
      /\ delivery' = IF d = None THEN delivery ELSE [delivery EXCEPT ![d] = j]
  BY DEF Create, Counted, Recorded, Answer, Room
<1>4. /\ new \in Row /\ new.state = "live" /\ new.key = req[r].key /\ new.by = d
      /\ new.window = w
  BY <1>1 DEF Row, Request
<1>5. /\ me \in Request /\ me.pc = "done" /\ me.answer = "queued" /\ me.job = j
      /\ me.id = d /\ me.key = req[r].key
  BY <1>1 DEF Request
<1> HIDE DEF d, w, new, me
<1>6. /\ row' \in [JobIds -> Row] /\ row'[j] = new
      /\ \A i \in JobIds \ {j} : row'[i] = row[i]
  BY <1>3, <1>4 DEF Invariant, InductiveInvariant, TypeOK
<1>7. /\ req' \in [Requests -> Request] /\ req'[r] = me
      /\ \A q \in Requests \ {r} : req'[q] = req[q]
  BY <1>3, <1>5 DEF Invariant, InductiveInvariant, TypeOK
<1>8. /\ delivery' \in [Deliveries -> JobIds \cup {None}]
      /\ d # None => delivery'[d] = j
      /\ \A e \in Deliveries \ {d} : delivery'[e] = delivery[e]
  BY <1>1, <1>3 DEF Invariant, InductiveInvariant, TypeOK
<1>9. /\ count' \in [Windows -> 0 .. Limit] /\ count'[w] = count[w] + 1
      /\ \A m \in Windows \ {w} : count'[m] = count[m]
  <2>1. count[w] \in Nat /\ count[w] + 1 \in 0 .. Limit
    BY <1>1, <1>3, AdmissionAssumption DEF Invariant, InductiveInvariant, TypeOK
  <2> QED
    BY <1>1, <1>3, <2>1 DEF Invariant, InductiveInvariant, TypeOK
<1>10. TypeOK'
  BY <1>3, <1>6, <1>7, <1>8, <1>9 DEF Invariant, InductiveInvariant, TypeOK
<1>11. RequestsAgree'
  <2>1. RequestAgrees(r)'
    BY <1>2, <1>5, <1>7 DEF RequestAgrees
  <2>2. ASSUME NEW q \in Requests \ {r} PROVE RequestAgrees(q)'
    <3>1. req'[q] = req[q] /\ req[q] \in Request /\ RequestAgrees(q)
      BY <1>7, AboutRequest
    <3>2. CASE req[q].pc = "join"
      <4>1. req[q].found \in JobIds \ {j}
        BY <1>3, <3>1, <3>2 DEF RequestAgrees, Request
      <4> QED
        BY <1>6, <3>1, <3>2, <4>1 DEF RequestAgrees
    <3> QED
      BY <3>1, <3>2 DEF RequestAgrees
  <2> QED
    BY <2>1, <2>2 DEF RequestsAgree, RequestAgrees
<1>12. AnswerIsRecorded'
  <2>1. AnswerRecorded(r)'
    BY <1>5, <1>7, <1>8 DEF AnswerRecorded
  <2>2. ASSUME NEW q \in Requests \ {r} PROVE AnswerRecorded(q)'
    <3>1. req'[q] = req[q] /\ req[q] \in Request /\ AnswerRecorded(q)
      BY <1>7, AboutRequest
    <3> QED
      BY <1>1, <1>2, <1>8, <3>1, FreeDelivery DEF AnswerRecorded, Request
  <2> QED
    BY <2>1, <2>2 DEF AnswerIsRecorded, AnswerRecorded
<1>13. CreatorsRecorded'
  <2>1. ASSUME NEW i \in JobIds \ {j}
        PROVE  /\ row'[i].by # None => delivery'[row'[i].by] = i
               /\ row'[i].state = "absent" <=> row'[i].key = None
    <3>1. row'[i] = row[i] /\ row[i] \in Row
      BY <1>6 DEF Invariant, InductiveInvariant, TypeOK
    <3>2. row[i].by # None => row[i].by \in Deliveries \ {d}
      BY <1>1, <1>2, <3>1, FreeDelivery DEF Row
    <3> QED
      BY <1>8, <3>1, <3>2 DEF Invariant, InductiveInvariant, CreatorsRecorded
  <2>2. /\ row'[j].by # None => delivery'[row'[j].by] = j
        /\ row'[j].state = "absent" <=> row'[j].key = None
    BY <1>2, <1>4, <1>6, <1>8, NoneIsNothing
  <2> QED
    BY <2>1, <2>2 DEF CreatorsRecorded
<1>14. OneLiveJobPerKey'
  <2>1. ASSUME NEW i \in JobIds, NEW h \in JobIds, row'[i].state = "live",
               row'[h].state = "live", row'[i].key = row'[h].key
        PROVE  i = h
    <3>1. ASSUME NEW g \in JobIds \ {j}, row'[g].state = "live" PROVE row'[g].key # req[r].key
      BY <1>3, <1>6, <3>1 DEF KeyFree, Live
    <3> QED
      BY <1>4, <1>6, <2>1, <3>1 DEF Invariant, InductiveInvariant, OneLiveJobPerKey
  <2>2. ASSUME NEW e \in Deliveries, delivery'[e] # None
        PROVE  row'[delivery'[e]].state # "absent" /\ row'[delivery'[e]].key = KeyOf[e]
    <3>1. CASE e = d
      BY <1>2, <1>4, <1>6, <1>8, <3>1, NoneIsNothing
    <3>2. CASE e # d
      <4>1. delivery'[e] = delivery[e] /\ delivery[e] \in JobIds
        BY <1>8, <2>2, <3>2 DEF Invariant, InductiveInvariant, TypeOK
      <4>2. row[delivery[e]].state # "absent" /\ row[delivery[e]].key = KeyOf[e]
        BY <2>2, <4>1 DEF Invariant, InductiveInvariant, OneLiveJobPerKey
      <4> QED
        BY <1>3, <1>6, <4>1, <4>2
    <3> QED
      BY <3>1, <3>2
  <2> QED
    BY <2>1, <2>2 DEF OneLiveJobPerKey
<1>15. WindowCountsJobs' /\ Finite'
  <2>1. ASSUME NEW m \in Windows
        PROVE  IsFiniteSet(Admitted(m)') /\ count'[m] = Cardinality(Admitted(m)')
    <3>1. IsFiniteSet(Admitted(m)) /\ count[m] = Cardinality(Admitted(m))
      BY DEF Invariant, InductiveInvariant, WindowCountsJobs, Finite, Admitted
    <3>2. CASE m = w
      <4>1. Admitted(m)' = Admitted(m) \cup {j} /\ j \notin Admitted(m)
        BY <1>3, <1>4, <1>6, <3>2 DEF Admitted
      <4>2. /\ IsFiniteSet(Admitted(m)')
            /\ Cardinality(Admitted(m)') = Cardinality(Admitted(m)) + 1
        BY <3>1, <4>1, FS_AddElement
      <4> QED
        BY <1>9, <3>1, <3>2, <4>2
    <3>3. CASE m # w
      <4>1. Admitted(m)' = Admitted(m)
        BY <1>3, <1>4, <1>6, <3>3 DEF Admitted
      <4> QED
        BY <1>9, <3>1, <3>3, <4>1
    <3> QED
      BY <3>2, <3>3
  <2> QED
    BY <2>1 DEF WindowCountsJobs, Finite, Admitted
<1> QED
  BY <1>10, <1>11, <1>12, <1>13, <1>14, <1>15 DEF Invariant, InductiveInvariant

-----------------------------------------------------------------------------
(***************************************************************************)
(* The queue and the clock.                                                *)
(***************************************************************************)
LEMMA EndJobPreserves ==
    ASSUME Invariant, NEW j \in JobIds, EndJob(j) PROVE Invariant'
<1> DEFINE new == [row[j] EXCEPT !.state = "ended"]
<1>1. /\ row' = [row EXCEPT ![j] = new] /\ row[j].state = "live"
      /\ UNCHANGED <<delivery, count, minute, req>>
  BY DEF EndJob
<1>2. row \in [JobIds -> Row] /\ row[j] \in Row
  BY DEF Invariant, InductiveInvariant, TypeOK
<1>3. /\ new \in Row /\ new.state = "ended" /\ new.key = row[j].key
      /\ new.by = row[j].by /\ new.window = row[j].window
  BY <1>2 DEF Row
<1> HIDE DEF new
<1>4. /\ row' \in [JobIds -> Row]
      /\ \A i \in JobIds :
            /\ row'[i].key = row[i].key /\ row'[i].by = row[i].by
            /\ row'[i].window = row[i].window
            /\ row'[i].state = "absent" <=> row[i].state = "absent"
            /\ row'[i].state = "live" => row[i].state = "live"
  BY <1>1, <1>2, <1>3
<1>5. TypeOK'
  BY <1>1, <1>4 DEF Invariant, InductiveInvariant, TypeOK
<1>6. RequestsAgree'
  <2>1. ASSUME NEW q \in Requests PROVE RequestAgrees(q)'
    BY <1>1, <1>4, AboutRequest DEF RequestAgrees, Request
  <2> QED
    BY <2>1 DEF RequestsAgree, RequestAgrees
<1>7. AnswerIsRecorded'
  BY <1>1 DEF Invariant, InductiveInvariant, AnswerIsRecorded
<1>8. CreatorsRecorded'
  BY <1>1, <1>4 DEF Invariant, InductiveInvariant, CreatorsRecorded
<1>9. OneLiveJobPerKey'
  BY <1>1, <1>4 DEF Invariant, InductiveInvariant, OneLiveJobPerKey, TypeOK
<1>10. \A m \in Windows : Admitted(m)' = Admitted(m)
  BY <1>1, <1>4 DEF Admitted
<1>11. WindowCountsJobs' /\ Finite'
  BY <1>1, <1>10 DEF Invariant, InductiveInvariant, WindowCountsJobs, Finite, Admitted
<1> QED
  BY <1>5, <1>6, <1>7, <1>8, <1>9, <1>11 DEF Invariant, InductiveInvariant

LEMMA UntouchedPreserves ==
    ASSUME Invariant, UNCHANGED <<row, delivery, count, req>>, minute' \in Windows
    PROVE  Invariant'
  BY DEF Invariant, InductiveInvariant, TypeOK, RequestsAgree, CreatorsRecorded,
         AnswerIsRecorded, OneLiveJobPerKey, WindowCountsJobs, Finite, Admitted

LEMMA StepPreserves == Invariant /\ [Next]_vars => Invariant'
<1> SUFFICES ASSUME Invariant, [Next]_vars PROVE Invariant'
  OBVIOUS
<1>1. ASSUME NEW r \in Requests, RequestStep(r) PROVE Invariant'
  BY <1>1, ArrivePreserves, LookUpDeliveryPreserves, FindLivePreserves,
     FindNonePreserves, JoinPreserves, RefusePreserves, CreateConflictsPreserves,
     CreatePreserves, OverPreserves DEF RequestStep
<1>2. ASSUME NEW j \in JobIds, EndJob(j) PROVE Invariant'
  BY <1>2, EndJobPreserves
<1>3. CASE NextMinute
  BY <1>3, UntouchedPreserves DEF NextMinute
<1>4. CASE UNCHANGED vars
  BY <1>4, UntouchedPreserves DEF vars, Invariant, InductiveInvariant, TypeOK
<1> QED
  BY <1>1, <1>2, <1>3, <1>4 DEF Next

LEMMA Always == Spec => []Invariant
  BY InitInvariant, StepPreserves, PTL DEF Spec

-----------------------------------------------------------------------------
(***************************************************************************)
(* Theorems.                                                               *)
(***************************************************************************)
\* The inductive invariant, the shape of the state with it: admit() may be cut
\* between any two of its statements and the tables still agree.
THEOREM InvariantHolds == Spec => []InductiveInvariant
  BY Always, PTL DEF Invariant

\* A request told that its job is queued or known finds its delivery recorded under
\* that job: admit() answers after the commit (job_service.py:32).
THEOREM AnswerIsRecordedHolds == Spec => []AnswerIsRecorded
<1>1. Invariant => AnswerIsRecorded
  BY DEF Invariant, InductiveInvariant
<1> QED
  BY <1>1, Always, PTL

\* A delivery that GitHub sends again, to any number of requests at once or after
\* its job has ended, creates one job (webhook_deliveries, whose rows outlive jobs).
THEOREM OneJobPerDeliveryHolds == Spec => []OneJobPerDelivery
<1>1. Invariant => OneJobPerDelivery
  BY DEF Invariant, InductiveInvariant, CreatorsRecorded, OneJobPerDelivery
<1> QED
  BY <1>1, Always, PTL

\* A resource has one live job (the unique active_key), and a recorded delivery
\* leads to a job of its own resource.
THEOREM OneLiveJobPerKeyHolds == Spec => []OneLiveJobPerKey
<1>1. Invariant => OneLiveJobPerKey
  BY DEF Invariant, InductiveInvariant
<1> QED
  BY <1>1, Always, PTL

\* The counter of a minute is the number of jobs admitted in it: a transaction that
\* is rolled back has counted nobody (admission_windows).
THEOREM WindowCountsJobsHolds == Spec => []WindowCountsJobs
<1>1. Invariant => WindowCountsJobs
  BY DEF Invariant, InductiveInvariant
<1> QED
  BY <1>1, Always, PTL

\* No step moves a recorded delivery to another job: the primary key of
\* webhook_deliveries refuses a second row.
THEOREM DeliveryNeverMovesHolds == Spec => DeliveryNeverMoves
<1> DEFINE Stays == \A d \in Deliveries : delivery[d] # None => delivery'[d] = delivery[d]
<1>1. ASSUME Invariant, NEW r \in Requests, RequestStep(r) PROVE Stays
  <2>1. CASE Join(r)
    BY <1>1, <2>1
    DEF Join, DeliveryFree, Recorded, Invariant, InductiveInvariant, TypeOK
  <2>2. ASSUME NEW j \in JobIds, Create(r, j) PROVE Stays
    BY <1>1, <2>2
    DEF Create, DeliveryFree, Recorded, Invariant, InductiveInvariant, TypeOK
  <2>3. CASE UNCHANGED delivery
    BY <2>3
  <2> QED
    BY <1>1, <2>1, <2>2, <2>3
    DEF RequestStep, Arrive, LookUpDelivery, FindLive, FindNone, Refuse,
        CreateConflicts, Reply, Dies
<1>2. Invariant /\ [Next]_vars => [Stays]_vars
  BY <1>1 DEF Next, EndJob, NextMinute, vars
<1> QED
  BY <1>2, Always, PTL DEF Spec, DeliveryNeverMoves
=============================================================================
