--------------------------- MODULE MergeFlowProofs ---------------------------
(***************************************************************************)
(* Theorems about MergeFlow, for any heads, people and jobs, and any       *)
(* bounds on attempts and comments.                                        *)
(***************************************************************************)
EXTENDS MergeFlow, TLAPS

LEMMA PhaseAfterType ==
    ASSUME NEW verdict \in {"ok", "retry", "fatal"}, NEW n
    PROVE  PhaseAfter(verdict, n) \in {"waiting", "failed", "succeeded"}
  BY DEF PhaseAfter

LEMMA NotRunningType == NotRunning \in Attempt /\ NotRunning.pc = "idle"
  BY DEF NotRunning, Attempt, Results

LEMMA FollowedType ==
    /\ NotFollowed \in [now : [Kinds -> Results], best : [Kinds -> Results]]
    /\ \A now \in [Kinds -> Results] :
          Followed(now) \in [now : [Kinds -> Results], best : [Kinds -> Results]]
<1>1. [k \in Kinds |-> "failing"] \in [Kinds -> Results]
  BY DEF Results
<1> QED
  BY <1>1 DEF NotFollowed, Followed

\* The best is never worse than what it was, nor than what has come.
LEMMA BetterIsBest ==
    ASSUME NEW a \in Results, NEW b \in Results
    PROVE  /\ Better(a, b) \in Results
           /\ Better(a, a) = a
           /\ Better(Better(a, b), b) = Better(a, b)
           /\ \A c \in Results : Better(a, c) = a => Better(Better(a, b), c) = Better(a, b)
  BY DEF Better, Results

LEMMA InitInvariant == Init => InductiveInvariant
<1> SUFFICES ASSUME Init PROVE InductiveInvariant
  OBVIOUS
<1> USE DEF Init, LedgerInit, NotRunning
<1>1. TypeOK
  BY MergeAssumption, FollowedType DEF TypeOK, Attempt, Phases, Results
<1>2. OneAttempt
  BY DEF OneAttempt, Unended, Unfinished
<1>3. HeadIsApproved /\ RecordIsOurs
  BY DEF HeadIsApproved, RecordIsOurs
<1>4. MergedHeadApproved /\ MergedIsTrue
  BY DEF MergedHeadApproved, MergedIsTrue
<1> QED
  BY <1>1, <1>2, <1>3, <1>4 DEF InductiveInvariant

-----------------------------------------------------------------------------
(***************************************************************************)
(* The queue's part: an attempt belongs to the one job that is unfinished. *)
(***************************************************************************)
\* A step of the ledger that begins an attempt or leaves none.
LEMMA LedgerPreserves ==
    ASSUME InductiveInvariant, UNCHANGED <<pr, comments, writers, record, hooks>>,
           ci' \in {ci, NotFollowed}, ci' = ci \/ run'.pc = "idle",
           answered' \subseteq comments, read' \subseteq comments,
           phase' \in [Jobs -> Phases], attempts' \in [Jobs -> 0 .. MaxAttempts],
           run' \in Attempt, run'.pc \in {"idle", "list"} \/ run' = run, OneAttempt'
    PROVE  InductiveInvariant'
<1> USE DEF InductiveInvariant
<1>1. TypeOK'
  BY FollowedType DEF TypeOK, Attempt
<1>2. HeadIsApproved'
  BY DEF HeadIsApproved, Approved, Tested
<1>3. RecordIsOurs'
  BY DEF RecordIsOurs
<1>4. MergedHeadApproved' /\ MergedIsTrue'
  BY DEF MergedHeadApproved, MergedIsTrue
<1> QED
  BY <1>1, <1>2, <1>3, <1>4

LEMMA StartPreserves ==
    ASSUME InductiveInvariant, NEW j \in Jobs, Start(j)
    PROVE  InductiveInvariant'
<1> USE DEF InductiveInvariant, Start, LedgerStart
<1>1. phase' \in [Jobs -> Phases] /\ attempts' \in [Jobs -> 0 .. MaxAttempts]
  BY MergeAssumption DEF TypeOK, Phases
<1>2. run' \in Attempt /\ run'.pc = "list" /\ run'.job = j
  BY DEF Attempt, NotRunning, Results
<1>3. j \in Unended /\ Unended' = Unended /\ phase'[j] = "running"
  BY DEF TypeOK, Unended, Unfinished
<1>4. OneAttempt'
  <2>1. run.pc = "idle"
    BY <1>3 DEF OneAttempt, Unended, Unfinished
  <2>2. \A i \in Jobs : phase'[i] = "running" => i = j
    BY <1>3, <2>1 DEF OneAttempt, TypeOK
  <2> QED
    BY <1>2, <1>3, <2>2 DEF OneAttempt
<1> QED
  BY <1>1, <1>2, <1>4, LedgerPreserves DEF TypeOK, github, inbox

\* The attempt is over, for its job or with its horse.
LEMMA EndPreserves ==
    ASSUME InductiveInvariant, run.pc # "idle", NEW p \in {"waiting", "failed", "succeeded"},
           phase' = [phase EXCEPT ![run.job] = p], run' = NotRunning,
           ci' \in {ci, NotFollowed},
           UNCHANGED <<attempts, pr, comments, writers, record, inbox>>
    PROVE  InductiveInvariant'
<1> USE DEF InductiveInvariant
<1>1. phase' \in [Jobs -> Phases]
  BY DEF TypeOK, Phases
<1>2. Unended' \subseteq Unended
  BY DEF OneAttempt, TypeOK, Unended, Unfinished
<1>3. \A j \in Jobs : phase'[j] # "running"
  BY DEF OneAttempt, TypeOK
<1>4. OneAttempt'
  BY <1>2, <1>3, NotRunningType DEF OneAttempt
<1> QED
  BY <1>1, <1>4, NotRunningType, LedgerPreserves DEF TypeOK, inbox

LEMMA FinishPreserves ==
    ASSUME InductiveInvariant, Finish
    PROVE  InductiveInvariant'
<1>1. run.verdict \in {"ok", "retry", "fatal"}
  BY DEF InductiveInvariant, TypeOK, Attempt
<1>2. PhaseAfter(run.verdict, attempts[run.job]) \in {"waiting", "failed", "succeeded"}
  BY <1>1, PhaseAfterType
<1> QED
  BY <1>2, EndPreserves DEF Finish, LedgerEnd, github

LEMMA CrashPreserves ==
    ASSUME InductiveInvariant, Crash
    PROVE  InductiveInvariant'
<1> DEFINE p == IF attempts[run.job] < MaxAttempts THEN "waiting" ELSE "failed"
<1>1. phase' = [phase EXCEPT ![run.job] = p]
  BY DEF Crash, LedgerLose, InductiveInvariant, TypeOK
<1>2. p \in {"waiting", "failed", "succeeded"}
  OBVIOUS
<1> HIDE DEF p
<1> QED
  BY <1>1, <1>2, EndPreserves DEF Crash, LedgerLose

LEMMA HookPreserves ==
    ASSUME InductiveInvariant, NEW c \in hooks,
           HookLost(c) \/ HookJoins(c) \/ \E j \in Jobs : HookCreates(c, j)
    PROVE  InductiveInvariant'
<1> USE DEF InductiveInvariant
<1>1. CASE HookLost(c) \/ HookJoins(c)
  <2> USE <1>1 DEF HookLost, HookJoins, ledger, github
  <2>1. TypeOK'
    BY DEF TypeOK
  <2>2. OneAttempt' /\ HeadIsApproved' /\ RecordIsOurs'
    BY DEF OneAttempt, Unended, HeadIsApproved, Approved, Tested, RecordIsOurs
  <2>3. MergedHeadApproved' /\ MergedIsTrue'
    BY DEF MergedHeadApproved, MergedIsTrue
  <2> QED
    BY <2>1, <2>2, <2>3
<1>2. ASSUME NEW j \in Jobs, HookCreates(c, j)
      PROVE  InductiveInvariant'
  <2> USE <1>2 DEF HookCreates, LedgerAdmit, github
  <2>1. Unended = {}
    BY MergeAssumption DEF Unended
  <2>2. OneAttempt'
    BY <2>1 DEF OneAttempt, TypeOK, Unended, Unfinished
  <2>3. TypeOK'
    BY DEF TypeOK, Phases
  <2>4. HeadIsApproved' /\ RecordIsOurs'
    BY DEF HeadIsApproved, Approved, Tested, RecordIsOurs
  <2>5. MergedHeadApproved' /\ MergedIsTrue'
    BY DEF MergedHeadApproved, MergedIsTrue
  <2> QED
    BY <2>2, <2>3, <2>4, <2>5
<1> QED
  BY <1>1, <1>2

-----------------------------------------------------------------------------
(***************************************************************************)
(* People: a push needs an open pull request, and nothing takes back that  *)
(* a head was approved, or that its checks have passed since they are      *)
(* followed.                                                               *)
(***************************************************************************)
LEMMA ReportsPreserve ==
    ASSUME InductiveInvariant, NEW k \in Kinds, NEW result \in Results,
           CIReports(k, result)
    PROVE  TypeOK' /\ HeadIsApproved'
<1> USE DEF InductiveInvariant
<1>1. /\ UNCHANGED <<ledger, pr, comments, writers, record, inbox, run>>
      /\ run.pc \in {"checks", "runs"}
      /\ ci.now \in [Kinds -> Results] /\ ci.best \in [Kinds -> Results]
      /\ ci' = [now |-> [ci.now EXCEPT ![k] = result],
                best |-> [ci.best EXCEPT ![k] = Better(ci.best[k], result)]]
  BY DEF CIReports, TypeOK
<1>2. Better(ci.best[k], result) \in Results
  BY <1>1, BetterIsBest
<1>3. TypeOK'
  BY <1>1, <1>2 DEF TypeOK, ledger, inbox
<1>4. run.head \in Heads /\ Approved(run.head)'
  BY <1>1 DEF HeadIsApproved, Approved
<1>5. ASSUME NEW i \in Kinds PROVE Better(ci'.best[i], ci'.now[i]) = ci'.best[i]
  BY <1>1, BetterIsBest DEF HeadIsApproved
<1>6. CASE run.pc = "checks"
  BY <1>1, <1>3, <1>4, <1>5, <1>6 DEF HeadIsApproved
<1>7. CASE run.pc = "runs"
  <2>1. ci'.best["statuses"] = ci.best["statuses"]
    BY <1>1, <1>7 DEF CIReports
  <2> QED
    BY <1>1, <1>3, <1>4, <1>5, <1>7, <2>1 DEF HeadIsApproved
<1> QED
  BY <1>1, <1>6, <1>7

LEMMA PeoplePreserve ==
    ASSUME InductiveInvariant, PeopleStep
    PROVE  InductiveInvariant'
<1> USE DEF InductiveInvariant
<1>1. /\ UNCHANGED <<phase, attempts, run, record, answered, read>>
      /\ comments \subseteq comments'
      /\ pr' = pr \/ pr.state = "open"
      /\ pr'.state # "merged" \/ pr' = pr
  BY DEF PeopleStep, Push, CIReports, ToggleDraft, ComputeMergeable, Close,
         Revoke, PostComment, ledger, inbox, TypeOK
<1>2. TypeOK'
  <2>1. ASSUME NEW h \in Heads, Push(h)
        PROVE  TypeOK'
    BY <2>1 DEF TypeOK, Push, ledger, inbox
  <2>2. ASSUME ToggleDraft \/ Close
               \/ \E m \in {"unknown", "clean", "conflict"} : ComputeMergeable(m)
        PROVE  TypeOK'
    BY <2>2 DEF TypeOK, ToggleDraft, Close, ComputeMergeable, ledger, inbox
  <2>3. ASSUME NEW p \in Writers, Revoke(p)
        PROVE  TypeOK'
    BY <2>3 DEF TypeOK, Revoke, ledger, inbox
  <2>4. ASSUME NEW c \in Comments, PostComment(c)
        PROVE  TypeOK'
    BY <2>4 DEF TypeOK, PostComment, ledger
  <2> QED
    BY <2>1, <2>2, <2>3, <2>4, ReportsPreserve DEF PeopleStep
<1>3. OneAttempt'
  BY <1>1 DEF OneAttempt, Unended
<1>4. HeadIsApproved'
  <2>1. CASE UNCHANGED ci
    BY <1>1, <2>1 DEF HeadIsApproved, Approved, Tested
  <2>2. CASE ci' # ci
    BY <2>2, ReportsPreserve DEF PeopleStep, Push, ToggleDraft, ComputeMergeable, Close,
       Revoke, PostComment
  <2> QED
    BY <2>1, <2>2
<1>5. RecordIsOurs'
  BY <1>1 DEF RecordIsOurs
<1>6. MergedHeadApproved' /\ MergedIsTrue'
  BY <1>1 DEF MergedHeadApproved, MergedIsTrue
<1> QED
  BY <1>2, <1>3, <1>4, <1>5, <1>6

-----------------------------------------------------------------------------
(***************************************************************************)
(* The attempt.                                                            *)
(***************************************************************************)
\* A step that reads, or ends the attempt.
LEMMA ReadingPreserves ==
    ASSUME InductiveInvariant, run.pc # "idle",
           UNCHANGED <<ledger, pr, comments, writers, record, hooks, answered>>,
           ci' \in [now : [Kinds -> Results], best : [Kinds -> Results]],
           read' \in {read, comments},
           run' \in Attempt, run'.pc # "idle", run'.job = run.job,
           HeadIsApproved', RecordIsOurs'
    PROVE  InductiveInvariant'
<1> USE DEF InductiveInvariant, ledger
<1>1. TypeOK'
  BY DEF TypeOK, Attempt
<1>2. OneAttempt'
  BY DEF OneAttempt, Unended
<1>3. MergedHeadApproved' /\ MergedIsTrue'
  BY DEF MergedHeadApproved, MergedIsTrue
<1> QED
  BY <1>1, <1>2, <1>3

\* Moves of the locals that keep the job and the head.
LEMMA MoveType ==
    ASSUME InductiveInvariant,
           \/ \E pc \in {"pull", "comments", "merge", "checks", "runs", "put", "record",
                         "flag", "thanks"} : GoTo(pc)
           \/ \E verdict \in {"ok", "retry", "fatal"} : EndWith(verdict)
    PROVE  run' \in Attempt /\ run'.job = run.job /\ run'.head = run.head
  BY DEF InductiveInvariant, TypeOK, Attempt, GoTo, EndWith, Results

LEMMA EndedRun ==
    ASSUME InductiveInvariant, NEW verdict, EndWith(verdict)
    PROVE  run'.pc = "end"
  BY DEF InductiveInvariant, TypeOK, EndWith

LEMMA MovedRun ==
    ASSUME InductiveInvariant, NEW pc, GoTo(pc)
    PROVE  run'.pc = pc
  BY DEF InductiveInvariant, TypeOK, GoTo

LEMMA EndingPreserves ==
    ASSUME InductiveInvariant, run.pc # "idle",
           NEW verdict \in {"ok", "retry", "fatal"}, EndWith(verdict),
           UNCHANGED <<ledger, pr, comments, writers, record, hooks, answered>>,
           ci' \in {ci, NotFollowed}, read' \in {read, comments}
    PROVE  InductiveInvariant'
<1>1. run' \in Attempt /\ run'.job = run.job /\ run'.pc = "end"
  BY MoveType, EndedRun
<1>2. HeadIsApproved' /\ RecordIsOurs'
  BY <1>1 DEF HeadIsApproved, RecordIsOurs
<1>3. ci' \in [now : [Kinds -> Results], best : [Kinds -> Results]]
  BY FollowedType DEF InductiveInvariant, TypeOK
<1> QED
  BY <1>1, <1>2, <1>3, ReadingPreserves

\* A read that leaves the checks alone.
LEMMA GoingOnPreserves ==
    ASSUME InductiveInvariant, run.pc # "idle",
           UNCHANGED <<ledger, github, record, hooks, answered>>,
           read' \in {read, comments},
           run' \in Attempt, run'.pc # "idle", run'.job = run.job,
           HeadIsApproved', RecordIsOurs'
    PROVE  InductiveInvariant'
  BY ReadingPreserves DEF github, InductiveInvariant, TypeOK

LEMMA RefusedPreserves ==
    ASSUME InductiveInvariant, Refused \/ CallFails
    PROVE  InductiveInvariant'
  BY EndingPreserves DEF Refused, CallFails, github, inbox

LEMMA ListPreserves ==
    ASSUME InductiveInvariant, List
    PROVE  InductiveInvariant'
<1>1. CASE record \in {"pr_created", "merge_conflict"}
  <2>1. run' \in Attempt /\ run'.job = run.job /\ run'.pc = "pull"
    BY <1>1, MoveType, MovedRun DEF List
  <2>2. HeadIsApproved' /\ RecordIsOurs'
    BY <1>1, <2>1 DEF List, HeadIsApproved, RecordIsOurs
  <2> QED
    BY <2>1, <2>2, GoingOnPreserves DEF List, inbox
<1>2. CASE record \notin {"pr_created", "merge_conflict"}
  BY <1>2, EndingPreserves DEF List, github, inbox
<1> QED
  BY <1>1, <1>2

LEMMA ReadPullPreserves ==
    ASSUME InductiveInvariant, ReadPull
    PROVE  InductiveInvariant'
<1>1. run' \in Attempt /\ run'.job = run.job /\ run'.pc = "comments"
  BY DEF ReadPull, InductiveInvariant, TypeOK, Attempt
<1>2. HeadIsApproved' /\ RecordIsOurs'
  BY <1>1 DEF ReadPull, HeadIsApproved, RecordIsOurs, InductiveInvariant
<1> QED
  BY <1>1, <1>2, GoingOnPreserves DEF ReadPull, inbox

\* This is where the approval comes from: a comment that names the head that was
\* read, by somebody whose permission was checked.
LEMMA ReadCommentsPreserves ==
    ASSUME InductiveInvariant, ReadComments
    PROVE  InductiveInvariant'
<1>1. CASE \E c \in comments : Approves(c, run.head)
  <2>1. run' \in Attempt /\ run'.job = run.job /\ run'.head = run.head /\ run'.pc = "merge"
    BY <1>1, MoveType, MovedRun DEF ReadComments
  <2>2. run.head \in Heads /\ Approved(run.head)
    BY <1>1 DEF Approves, Approved, InductiveInvariant, TypeOK, Comments
  <2>3. comments' = comments
    BY DEF ReadComments, github
  <2>4. HeadIsApproved' /\ RecordIsOurs'
    BY <2>1, <2>2, <2>3
       DEF ReadComments, HeadIsApproved, Approved, RecordIsOurs, InductiveInvariant
  <2> QED
    BY <2>1, <2>4, GoingOnPreserves DEF ReadComments
<1>2. CASE ~ \E c \in comments : Approves(c, run.head)
  BY <1>2, EndingPreserves DEF ReadComments, github
<1> QED
  BY <1>1, <1>2

LEMMA PermissionUnknownPreserves ==
    ASSUME InductiveInvariant, PermissionUnknown
    PROVE  InductiveInvariant'
  BY EndingPreserves DEF PermissionUnknown, github

\* From the comments to the merge the head stays the approved one.
LEMMA HeadStaysApproved ==
    ASSUME InductiveInvariant, run.pc \in {"merge", "checks", "runs", "put"},
           UNCHANGED <<comments, record>>, run'.head = run.head,
           run'.pc \in {"checks", "runs", "put", "flag"},
           run'.pc \in {"checks", "runs", "put"} =>
              \A k \in Kinds : Better(ci'.best[k], ci'.now[k]) = ci'.best[k],
           run'.pc = "runs" =>
              Better(ci'.best["statuses"], run'.statuses) = ci'.best["statuses"],
           run'.pc = "put" => Tested'
    PROVE  HeadIsApproved' /\ RecordIsOurs'
  BY DEF HeadIsApproved, RecordIsOurs, Approved, InductiveInvariant

LEMMA RecheckPreserves ==
    ASSUME InductiveInvariant, Recheck
    PROVE  InductiveInvariant'
<1>1. ASSUME GoTo("checks"), NEW now \in [Kinds -> Results], ci' = Followed(now)
      PROVE  InductiveInvariant'
  <2>1. run' \in Attempt /\ run'.job = run.job /\ run'.head = run.head
        /\ run'.pc = "checks"
    BY <1>1, MoveType, MovedRun
  <2>2. \A k \in Kinds : Better(ci'.best[k], ci'.now[k]) = ci'.best[k]
    BY <1>1, BetterIsBest DEF Followed
  <2>3. HeadIsApproved' /\ RecordIsOurs'
    BY <2>1, <2>2, HeadStaysApproved DEF Recheck
  <2> QED
    BY <1>1, <2>1, <2>3, FollowedType, ReadingPreserves DEF Recheck, inbox
<1>2. CASE GoTo("flag") /\ UNCHANGED ci
  <2>1. run' \in Attempt /\ run'.job = run.job /\ run'.head = run.head
        /\ run'.pc = "flag"
    BY <1>2, MoveType, MovedRun
  <2>2. HeadIsApproved' /\ RecordIsOurs'
    BY <2>1, HeadStaysApproved DEF Recheck
  <2> QED
    BY <1>2, <2>1, <2>2, GoingOnPreserves DEF Recheck, github, inbox
<1>3. CASE EndWith("retry") /\ UNCHANGED ci
  BY <1>3, EndingPreserves DEF Recheck, inbox
<1> QED
  BY <1>1, <1>2, <1>3 DEF Recheck

LEMMA ReadStatusesPreserves ==
    ASSUME InductiveInvariant, ReadStatuses
    PROVE  InductiveInvariant'
<1>1. ci.now["statuses"] \in Results /\ "statuses" \in Kinds
  BY DEF InductiveInvariant, TypeOK, Kinds
<1>2. /\ run' \in Attempt /\ run'.job = run.job /\ run'.head = run.head
      /\ run'.pc = "runs" /\ run'.statuses = ci.now["statuses"]
  BY <1>1 DEF ReadStatuses, InductiveInvariant, TypeOK, Attempt
<1>3. \A k \in Kinds : Better(ci'.best[k], ci'.now[k]) = ci'.best[k]
  BY DEF ReadStatuses, github, InductiveInvariant, HeadIsApproved
<1>4. Better(ci'.best["statuses"], run'.statuses) = ci'.best["statuses"]
  BY <1>1, <1>2, <1>3 DEF ReadStatuses, github
<1>5. HeadIsApproved' /\ RecordIsOurs'
  BY <1>2, <1>3, <1>4, HeadStaysApproved DEF ReadStatuses, github
<1> QED
  BY <1>2, <1>5, GoingOnPreserves DEF ReadStatuses, inbox

\* Each answer was true when it was given, so that the best since then is as good.
LEMMA PassedIsTested ==
    ASSUME InductiveInvariant, run.pc = "runs",
           ChecksPassed(run.statuses, ci.now["runs"])
    PROVE  Tested
<1>1. /\ "statuses" \in Kinds /\ "runs" \in Kinds
      /\ \A k \in Kinds : k \in {"statuses", "runs"}
      /\ \A k \in Kinds : ci.best[k] \in Results /\ ci.now[k] \in Results
      /\ run.statuses \in Results
  BY DEF Kinds, InductiveInvariant, TypeOK, Attempt
<1>2. /\ Better(ci.best["statuses"], run.statuses) = ci.best["statuses"]
      /\ Better(ci.best["runs"], ci.now["runs"]) = ci.best["runs"]
  BY <1>1 DEF InductiveInvariant, HeadIsApproved
<1>3. \A a, b \in Results : Better(a, b) = a =>
          /\ b # "failing" => a # "failing"
          /\ b = "passed" => a = "passed"
  BY DEF Better, Results
<1>4. /\ run.statuses # "failing" /\ ci.now["runs"] # "failing"
      /\ run.statuses = "passed" \/ ci.now["runs"] = "passed"
  BY <1>1 DEF ChecksPassed, Results
<1>5. /\ ci.best["statuses"] # "failing" /\ ci.best["runs"] # "failing"
      /\ ci.best["statuses"] = "passed" \/ ci.best["runs"] = "passed"
  BY <1>1, <1>2, <1>3, <1>4
<1> QED
  BY <1>1, <1>5 DEF Tested

LEMMA ReadChecksPreserves ==
    ASSUME InductiveInvariant, ReadChecks
    PROVE  InductiveInvariant'
<1>1. CASE ChecksPassed(run.statuses, ci.now["runs"])
  <2>1. run' \in Attempt /\ run'.job = run.job /\ run'.head = run.head /\ run'.pc = "put"
        /\ UNCHANGED ci
    BY <1>1 DEF ReadChecks, InductiveInvariant, TypeOK, Attempt, Results
  <2>2. Tested'
    BY <1>1, <2>1, PassedIsTested DEF ReadChecks, Tested
  <2>3. \A k \in Kinds : Better(ci'.best[k], ci'.now[k]) = ci'.best[k]
    BY <2>1 DEF ReadChecks, InductiveInvariant, HeadIsApproved
  <2>4. HeadIsApproved' /\ RecordIsOurs'
    BY <2>1, <2>2, <2>3, HeadStaysApproved DEF ReadChecks
  <2> QED
    BY <2>1, <2>4, GoingOnPreserves DEF ReadChecks, github, inbox
<1>2. CASE ~ ChecksPassed(run.statuses, ci.now["runs"])
  BY <1>2, EndingPreserves DEF ReadChecks, inbox
<1> QED
  BY <1>1, <1>2

-----------------------------------------------------------------------------
(***************************************************************************)
(* The merge.                                                              *)
(***************************************************************************)
\* GitHub merges the head it was told, the head of the attempt.
Merges ==
    /\ run.pc = "put"
    /\ MergeTakes(run.head)
    /\ pr' = [pr EXCEPT !.state = "merged", !.mergeable = "unknown"]
    /\ ci' = NotFollowed
    /\ UNCHANGED <<ledger, comments, writers, record, inbox>>

LEMMA MergesPreserves ==
    ASSUME InductiveInvariant, Merges,
           run' \in Attempt, run'.job = run.job, run'.pc \in {"record", "end"}
    PROVE  InductiveInvariant'
<1> USE DEF InductiveInvariant, Merges, ledger, inbox
<1>1. pr'.state = "merged" /\ pr'.head = run.head
  BY DEF TypeOK, MergeTakes
<1>2. TypeOK'
  BY FollowedType DEF TypeOK, Attempt
<1>3. OneAttempt'
  BY DEF OneAttempt, Unended
<1>4. HeadIsApproved'
  BY DEF HeadIsApproved
<1>5. RecordIsOurs'
  BY <1>1 DEF RecordIsOurs
<1>6. MergedHeadApproved'
  BY <1>1 DEF HeadIsApproved, Approved, MergedHeadApproved
<1>7. MergedIsTrue'
  BY <1>1 DEF MergedIsTrue
<1> QED
  BY <1>2, <1>3, <1>4, <1>5, <1>6, <1>7

LEMMA PutPreserves ==
    ASSUME InductiveInvariant, Put
    PROVE  InductiveInvariant'
<1>1. CASE MergeTakes(run.head)
  <2>1. run' \in Attempt /\ run'.job = run.job /\ run'.pc = "record"
    BY <1>1, MoveType, MovedRun DEF Put
  <2> QED
    BY <1>1, <2>1, MergesPreserves DEF Put, Merges
<1>2. CASE ~ MergeTakes(run.head) /\ GoTo("flag")
  <2>1. run' \in Attempt /\ run'.job = run.job /\ run'.head = run.head /\ run'.pc = "flag"
    BY <1>2, MoveType, MovedRun
  <2>2. UNCHANGED <<ledger, pr, comments, writers, record, inbox>> /\ ci' = NotFollowed
    BY <1>2 DEF Put
  <2>3. HeadIsApproved' /\ RecordIsOurs'
    BY <2>1, <2>2, HeadStaysApproved DEF Put
  <2> QED
    BY <2>1, <2>2, <2>3, FollowedType, ReadingPreserves DEF Put, inbox
<1>3. CASE ~ MergeTakes(run.head) /\ EndWith("retry")
  BY <1>3, EndingPreserves DEF Put, inbox
<1> QED
  BY <1>1, <1>2, <1>3 DEF Put

LEMMA PutRaisesPreserves ==
    ASSUME InductiveInvariant, PutRaises
    PROVE  InductiveInvariant'
<1>1. run' \in Attempt /\ run'.job = run.job /\ run'.pc = "end"
  BY DEF PutRaises, AfterLostAnswer, InductiveInvariant, TypeOK, Attempt
<1>2. CASE UNCHANGED pr
  <2>1. HeadIsApproved' /\ RecordIsOurs'
    BY <1>1 DEF HeadIsApproved, RecordIsOurs
  <2> QED
    BY <1>1, <1>2, <2>1, FollowedType, ReadingPreserves DEF PutRaises, inbox
<1>3. CASE pr' # pr
  BY <1>1, <1>3, MergesPreserves DEF PutRaises, Merges
<1> QED
  BY <1>2, <1>3

-----------------------------------------------------------------------------
(***************************************************************************)
(* The record.                                                             *)
(***************************************************************************)
LEMMA RecordingPreserves ==
    ASSUME InductiveInvariant, run.pc # "idle",
           UNCHANGED <<ledger, github, inbox>>,
           run' \in Attempt, run'.job = run.job, run'.pc \in {"thanks", "end"},
           record' \in {"merge_conflict", "merged"} \/ record' = record,
           record' = "merged" => pr.state = "merged"
    PROVE  InductiveInvariant'
<1> USE DEF InductiveInvariant, ledger, github, inbox
<1>1. TypeOK'
  BY DEF TypeOK, Attempt
<1>2. OneAttempt'
  BY DEF OneAttempt, Unended
<1>3. HeadIsApproved' /\ RecordIsOurs'
  BY DEF HeadIsApproved, RecordIsOurs
<1>4. MergedHeadApproved' /\ MergedIsTrue'
  BY DEF MergedHeadApproved, MergedIsTrue
<1> QED
  BY <1>1, <1>2, <1>3, <1>4

LEMMA RecordMergePreserves ==
    ASSUME InductiveInvariant, RecordMerge
    PROVE  InductiveInvariant'
<1>1. run' \in Attempt /\ run'.job = run.job /\ run'.pc = "thanks"
  BY MoveType, MovedRun DEF RecordMerge
<1>2. pr.state = "merged"
  BY DEF RecordMerge, InductiveInvariant, RecordIsOurs
<1> QED
  BY <1>1, <1>2, RecordingPreserves DEF RecordMerge, MergeStatus

LEMMA FlagConflictPreserves ==
    ASSUME InductiveInvariant, FlagConflict
    PROVE  InductiveInvariant'
<1>1. run' \in Attempt /\ run'.job = run.job /\ run'.pc = "end"
  BY MoveType, EndedRun DEF FlagConflict
<1> QED
  BY <1>1, RecordingPreserves DEF FlagConflict, InductiveInvariant, MergedIsTrue

LEMMA ThankPreserves ==
    ASSUME InductiveInvariant, NEW verdict \in {"ok", "retry"}, Thank(verdict)
    PROVE  InductiveInvariant'
  BY EndingPreserves DEF Thank, github, inbox

-----------------------------------------------------------------------------
LEMMA AttemptPreserves ==
    ASSUME InductiveInvariant, AttemptStep
    PROVE  InductiveInvariant'
  BY RefusedPreserves, ListPreserves, ReadPullPreserves, ReadCommentsPreserves,
     PermissionUnknownPreserves, RecheckPreserves, ReadStatusesPreserves, ReadChecksPreserves,
     PutPreserves, PutRaisesPreserves, RecordMergePreserves, FlagConflictPreserves,
     ThankPreserves
     DEF AttemptStep

LEMMA NextPreserves ==
    InductiveInvariant /\ [Next]_vars => InductiveInvariant'
<1> SUFFICES ASSUME InductiveInvariant, [Next]_vars PROVE InductiveInvariant'
  OBVIOUS
<1>1. CASE UNCHANGED vars
  BY <1>1 DEF vars, inbox, InductiveInvariant, TypeOK, OneAttempt, Unended, HeadIsApproved,
         Approved, Tested, RecordIsOurs, MergedHeadApproved, MergedIsTrue
<1>2. CASE Next
  BY <1>2, PeoplePreserve, HookPreserves, StartPreserves, AttemptPreserves,
     FinishPreserves, CrashPreserves DEF Next, HookStep
<1> QED
  BY <1>1, <1>2

\* The record, the attempt and GitHub's data agree in every reachable state: what
\* an attempt has read is still worth what it does with it.
THEOREM InvariantHolds == Spec => []InductiveInvariant
  BY InitInvariant, NextPreserves, PTL DEF Spec

\* Only a head that somebody with write access approved is merged, whatever was
\* pushed, commented or revoked meanwhile (github_service.py:385-400, 430).
THEOREM MergedHeadApprovedHolds == Spec => []MergedHeadApproved
<1>1. InductiveInvariant => MergedHeadApproved
  BY DEF InductiveInvariant
<1> QED
  BY <1>1, InvariantHolds, PTL

\* Only the two answers to "pr.merge" merge it.
LEMMA MergesOnly ==
    ASSUME InductiveInvariant, [Next]_vars, pr.state # "merged", pr'.state = "merged"
    PROVE  Merges
<1>1. CASE PeopleStep
  BY <1>1 DEF PeopleStep, Push, CIReports, ToggleDraft, ComputeMergeable, Close, Revoke,
     PostComment, InductiveInvariant, TypeOK
<1>2. CASE HookStep \/ (\E j \in Jobs : Start(j)) \/ Finish \/ Crash \/ UNCHANGED vars
  BY <1>2 DEF HookStep, HookLost, HookJoins, HookCreates, Start, Finish, Crash, github, vars
<1>3. CASE Refused \/ List \/ CallFails \/ ReadPull \/ ReadComments \/ PermissionUnknown
           \/ Recheck \/ ReadStatuses \/ ReadChecks \/ RecordMerge \/ FlagConflict
           \/ \E verdict \in {"ok", "retry"} : Thank(verdict)
  BY <1>3 DEF Refused, List, CallFails, ReadPull, ReadComments, PermissionUnknown, Recheck,
     ReadStatuses, ReadChecks, RecordMerge, FlagConflict, Thank, github
<1>4. CASE Put \/ PutRaises
  BY <1>4 DEF Put, PutRaises, Merges
<1> QED
  BY <1>1, <1>2, <1>3, <1>4 DEF Next, AttemptStep

\* ... and only one whose statuses and check runs have passed since it was read
\* again, whatever was pushed meanwhile (github_service.py:418-430).
THEOREM MergedHeadTestedHolds == Spec => MergedHeadTested
<1>1. ASSUME InductiveInvariant, [Next]_vars, pr.state # "merged", pr'.state = "merged"
      PROVE  pr'.head = run.head /\ Tested
  <2>1. Merges
    BY <1>1, MergesOnly
  <2> QED
    BY <1>1, <2>1 DEF Merges, MergeTakes, InductiveInvariant, TypeOK, HeadIsApproved
<1>2. InductiveInvariant /\ [Next]_vars =>
          [pr.state # "merged" /\ pr'.state = "merged" => pr'.head = run.head /\ Tested]_vars
  BY <1>1
<1> QED
  BY <1>2, InvariantHolds, PTL DEF Spec, MergedHeadTested

\* The record says MERGED of a merged pull request only
\* (agent_orchestrator.py:312-316).
THEOREM MergedIsTrueHolds == Spec => []MergedIsTrue
<1>1. InductiveInvariant => MergedIsTrue
  BY DEF InductiveInvariant
<1> QED
  BY <1>1, InvariantHolds, PTL

-----------------------------------------------------------------------------
(***************************************************************************)
(* The merge job uses the queue as JobLedger says.                         *)
(***************************************************************************)
LEMMA LedgerSteps == InductiveInvariant /\ [Next]_vars => [LedgerNext]_ledger
<1> SUFFICES ASSUME InductiveInvariant, [Next]_vars
             PROVE  LedgerNext \/ UNCHANGED ledger
  OBVIOUS
<1>1. ASSUME NEW j \in Jobs, Start(j) PROVE LedgerNext
  BY <1>1 DEF Start, LedgerNext
<1>2. ASSUME NEW c \in hooks, NEW j \in Jobs, HookCreates(c, j) PROVE LedgerNext
  BY <1>2 DEF HookCreates, LedgerNext
<1>3. CASE Finish
  <2>1. run.job \in Jobs /\ run.verdict \in {"ok", "retry", "fatal"}
    BY <1>3 DEF Finish, InductiveInvariant, OneAttempt, TypeOK, Attempt
  <2>2. PhaseAfter(run.verdict, attempts[run.job]) \in Phases
    BY <2>1, PhaseAfterType DEF Phases
  <2> QED
    BY <1>3, <2>1, <2>2 DEF Finish, LedgerNext
<1>4. CASE Crash
  <2>1. {run.job} \in SUBSET Jobs
    BY <1>4 DEF Crash, InductiveInvariant, OneAttempt
  <2> QED
    BY <1>4, <2>1 DEF Crash, LedgerNext
<1>5. CASE AttemptStep \/ PeopleStep \/ UNCHANGED vars
  BY <1>5 DEF AttemptStep, Refused, List, CallFails, ReadPull, ReadComments,
     PermissionUnknown, Recheck, ReadStatuses, ReadChecks, Put, PutRaises, RecordMerge,
     FlagConflict, Thank, PeopleStep, Push, CIReports, ToggleDraft, ComputeMergeable, Close,
     Revoke, PostComment, ledger, vars
<1>6. ASSUME NEW c \in hooks, HookLost(c) \/ HookJoins(c) PROVE UNCHANGED ledger
  BY <1>6 DEF HookLost, HookJoins, ledger
<1> QED
  BY <1>1, <1>2, <1>3, <1>4, <1>5, <1>6 DEF Next, HookStep

\* Webhooks and attempts move their jobs only as the ledger allows, which is what
\* the queue implements (worker_jobs.py:77-116).
THEOREM MergeJobsUseLedger == Spec => LedgerSpec
<1>1. Init => LedgerInit
  BY DEF Init
<1> QED
  BY <1>1, LedgerSteps, InvariantHolds, PTL DEF Spec, LedgerSpec

-----------------------------------------------------------------------------
(***************************************************************************)
(* The flow implements the abstract merge.                                 *)
(***************************************************************************)
LEMMA PromiseInitially == Init => Promise!Init
<1> SUFFICES ASSUME Init PROVE Promise!Init
  OBVIOUS
<1>1. ~ Tested
  BY DEF Init, NotFollowed, Followed, Tested
<1> QED
  BY <1>1 DEF Init, Promise!Init, Approved

\* Whatever leaves the pull request and the record alone is at most a test.
LEMMA TestsOrNothing ==
    ASSUME pr' = pr, comments' = comments, (record' = "merged") = (record = "merged")
    PROVE  Promise!Next
<1>1. {h \in Heads : h = run.head /\ Tested}' \in SUBSET Heads
  OBVIOUS
<1>2. {h \in Heads : Approved(h)}' = {h \in Heads : Approved(h)}
  BY DEF Approved
<1>3. Promise!Test
  BY <1>1, <1>2 DEF Promise!Test
<1> QED
  BY <1>3 DEF Promise!Next

LEMMA PeopleKeepPromise ==
    ASSUME InductiveInvariant, PeopleStep
    PROVE  Promise!Next \/ UNCHANGED Promise!vars
<1> USE DEF Promise!Next, Promise!vars
<1>1. ASSUME NEW h \in Heads, Push(h) PROVE Promise!Push(h)
  BY <1>1 DEF Push, Promise!Push, InductiveInvariant, TypeOK, Approved, Tested
<1>2. ASSUME NEW k \in Kinds, NEW result \in Results, CIReports(k, result)
      PROVE  Promise!Next
  BY <1>2, TestsOrNothing DEF CIReports
<1>3. CASE Close
  BY <1>3 DEF Close, Promise!Close, InductiveInvariant, TypeOK, Approved, Tested
<1>4. ASSUME NEW c \in Comments, PostComment(c)
      PROVE  Promise!Approve(c.sha) \/ UNCHANGED Promise!vars
  BY <1>4 DEF PostComment, Promise!Approve, Approved, Comments, Tested
<1>5. ASSUME \/ ToggleDraft
             \/ \E m \in {"unknown", "clean", "conflict"} : ComputeMergeable(m)
             \/ \E p \in Writers : Revoke(p)
      PROVE  UNCHANGED Promise!vars
  BY <1>5 DEF ToggleDraft, ComputeMergeable, Revoke, Approved, Tested,
     InductiveInvariant, TypeOK
<1>6. \A c \in Comments : c.sha \in Heads
  BY DEF Comments
<1> QED
  BY <1>1, <1>2, <1>3, <1>4, <1>5, <1>6 DEF PeopleStep

LEMMA MergeKeepsPromise ==
    ASSUME InductiveInvariant, Merges
    PROVE  Promise!Merge
<1>1. pr.state = "open" /\ pr.head = run.head /\ pr'.head = pr.head /\ pr'.state = "merged"
  BY DEF Merges, MergeTakes, InductiveInvariant, TypeOK
<1>2. pr.head \in {h \in Heads : h = run.head /\ Tested}
      /\ pr.head \in {h \in Heads : Approved(h)}
  BY <1>1 DEF Merges, InductiveInvariant, HeadIsApproved
<1>3. UNCHANGED <<comments, record>>
  BY DEF Merges
<1>4. {h \in Heads : h = run.head /\ Tested}' \in SUBSET Heads
  OBVIOUS
<1>5. {h \in Heads : Approved(h)}' = {h \in Heads : Approved(h)}
  BY <1>3 DEF Approved
<1> QED
  BY <1>1, <1>2, <1>3, <1>4, <1>5 DEF Promise!Merge

LEMMA AttemptKeepsPromise ==
    ASSUME InductiveInvariant, AttemptStep
    PROVE  Promise!Next
<1>1. ASSUME Refused \/ List \/ CallFails \/ ReadPull \/ ReadComments
             \/ PermissionUnknown \/ Recheck \/ ReadStatuses \/ ReadChecks
             \/ \E verdict \in {"ok", "retry"} : Thank(verdict)
      PROVE  Promise!Next
  <2>1. UNCHANGED <<pr, comments, record>>
    BY <1>1 DEF Refused, List, CallFails, ReadPull, ReadComments, PermissionUnknown,
       Recheck, ReadStatuses, ReadChecks, Thank, github
  <2> QED
    BY <2>1, TestsOrNothing
<1>2. CASE Put \/ PutRaises
  <2>1. CASE Merges
    BY <2>1, MergeKeepsPromise DEF Promise!Next
  <2>2. CASE UNCHANGED pr
    BY <1>2, <2>2, TestsOrNothing DEF Put, PutRaises
  <2> QED
    BY <1>2, <2>1, <2>2 DEF Put, PutRaises, Merges
<1>3. CASE RecordMerge
  <2>1. pr.state = "merged" /\ UNCHANGED <<pr, ci, comments>> /\ run'.head = run.head
    BY <1>3, MoveType DEF RecordMerge, github, InductiveInvariant, RecordIsOurs
  <2>2. CASE record' = record
    BY <2>1, <2>2, TestsOrNothing
  <2>3. CASE record' = "merged"
    BY <2>1, <2>3 DEF Approved, Tested, Promise!Mark, Promise!Next
  <2> QED
    BY <1>3, <2>2, <2>3 DEF RecordMerge, MergeStatus
\* Whoever flags a conflict has found the record unmerged, and is alone.
<1>4. CASE FlagConflict
  <2>1. record # "merged" /\ record' # "merged"
    BY <1>4 DEF FlagConflict, InductiveInvariant, RecordIsOurs
  <2> QED
    BY <1>4, <2>1, TestsOrNothing DEF FlagConflict, github
<1> QED
  BY <1>1, <1>2, <1>3, <1>4 DEF AttemptStep

LEMMA PromiseSteps ==
    InductiveInvariant /\ [Next]_vars => [Promise!Next]_(Promise!vars)
<1> SUFFICES ASSUME InductiveInvariant, [Next]_vars
             PROVE  Promise!Next \/ UNCHANGED Promise!vars
  OBVIOUS
<1>1. CASE HookStep \/ (\E j \in Jobs : Start(j)) \/ Finish \/ Crash \/ UNCHANGED vars
  <2>1. UNCHANGED <<pr, comments, record>>
    BY <1>1 DEF HookStep, HookLost, HookJoins, HookCreates, Start, Finish, Crash, github,
       vars
  <2> QED
    BY <2>1, TestsOrNothing
<1> QED
  BY <1>1, PeopleKeepPromise, AttemptKeepsPromise DEF Next

\* With all its reads, lost answers, crashes and repetitions, the flow merges an
\* approved and tested head or none, once, and MERGED is final
\* (agent_orchestrator.py:289-362).
THEOREM Refinement == Spec => ImplementsMerging
  BY PromiseInitially, PromiseSteps, InvariantHolds, PTL
     DEF Spec, ImplementsMerging, Promise!Spec
=============================================================================
