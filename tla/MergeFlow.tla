------------------------------ MODULE MergeFlow ------------------------------
(***************************************************************************)
(* From an approval comment to a merge: the webhook that queues merge jobs *)
(* for one pull request, and check_and_merge_approved_prs with             *)
(* check_for_approval and merge_pull_request, which such a job executes.   *)
(*                                                                         *)
(* The attempts come from the ledger that JobQueue implements.  An attempt *)
(* reads the pull request, the comments, the pull request again, the       *)
(* statuses and the check runs of its head in separate calls, while people *)
(* push, comment and toggle the draft, permissions are revoked and checks  *)
(* are re-run.  The checks of a head are whatever they are until an        *)
(* attempt is about to ask for them; from there on they are followed.      *)
(***************************************************************************)
EXTENDS JobLedger, FiniteSets

CONSTANTS
    Heads,      \* commits the pull request's branch may have as its head
    Writers,    \* people with write access to the repository, to begin with
    Others,     \* people without
    Self,       \* DevInbox's own GitHub account
    MaxComments,    \* a bound on the approval comments posted
    None

ASSUME MergeAssumption ==
    /\ MaxAttempts \in Nat \ {0}
    /\ MaxComments \in Nat
    /\ Heads # {} /\ None \notin Heads \cup Jobs
    /\ Self \notin Writers \cup Others
    /\ \A i, j \in Jobs : KeyOf[i] = KeyOf[j]     \* one pull request

VARIABLES
    pr,         \* the pull request
    ci,         \* the checks of the head that the attempt asks about
    comments,   \* the "/approve <sha>" comments on the pull request
    writers,    \* people who have write access now
    record,     \* status of the IssueRecord
    hooks,      \* comments whose webhook GitHub has yet to deliver
    answered,   \* comments whose webhook was answered with the latest job
    read,       \* comments the latest job has read
    run         \* the attempt being executed

vars == <<phase, attempts, pr, ci, comments, writers, record, hooks, answered,
          read, run>>

github == <<pr, ci, comments, writers>>
inbox  == <<hooks, answered, read>>

-----------------------------------------------------------------------------
Comments == [sha : Heads, by : Writers \cup Others \cup {Self}]

NotRunning ==
    [pc |-> "idle", job |-> None, head |-> None, statuses |-> "none", verdict |-> "ok"]

\* A head has commit statuses and check runs.  "none" are no check runs, or only
\* neutral and skipped ones; "failing" are some that failed or are not done.
Kinds == {"statuses", "runs"}

Results == {"none", "passed", "failing"}

Better(a, b) ==
    CASE "passed" \in {a, b} -> "passed"
      [] {a, b} = {"failing"} -> "failing"
      [] OTHER -> "none"

\* What the checks are now, and the best they have been since they are followed.
Followed(now) == [now |-> now, best |-> now]

NotFollowed == Followed([k \in Kinds |-> "failing"])

Init ==
    /\ LedgerInit
    /\ \E h \in Heads :
          pr = [head |-> h, state |-> "open", draft |-> TRUE, mergeable |-> "unknown"]
    /\ ci = NotFollowed
    /\ comments = {}
    /\ writers = Writers
    /\ record = "pr_created"
    /\ hooks = {}
    /\ answered = {}
    /\ read = {}
    /\ run = NotRunning

-----------------------------------------------------------------------------
(***************************************************************************)
(* Slips that a change of the code could make, each a variant of the       *)
(* definition it is named after.                                           *)
(***************************************************************************)
ApprovesAnyHead(c, head) == c.by # Self /\ c.by \in writers

MergeTakesAnyHead(head) ==
    pr.state = "open" /\ ~ pr.draft /\ pr.mergeable # "conflict"

AnyCheckPassed(statuses, runs) == statuses = "passed" \/ runs = "passed"

AfterLostAnswerMerged == "record"

-----------------------------------------------------------------------------
(***************************************************************************)
(* GitHub and people.  A head that goes away may come back (a force push). *)
(***************************************************************************)
Push(h) ==
    /\ pr.state = "open" /\ h # pr.head
    /\ pr' = [pr EXCEPT !.head = h, !.mergeable = "unknown"]
    /\ UNCHANGED <<ledger, ci, comments, writers, record, inbox, run>>

ToggleDraft ==
    /\ pr.state = "open"
    /\ pr' = [pr EXCEPT !.draft = ~ @]
    /\ UNCHANGED <<ledger, ci, comments, writers, record, inbox, run>>

\* GitHub computes mergeability anew when the base branch has moved.
ComputeMergeable(m) ==
    /\ pr.state = "open"
    /\ pr' = [pr EXCEPT !.mergeable = m]
    /\ UNCHANGED <<ledger, ci, comments, writers, record, inbox, run>>

Close ==
    /\ pr.state = "open"
    /\ pr' = [pr EXCEPT !.state = "closed"]
    /\ UNCHANGED <<ledger, ci, comments, writers, record, inbox, run>>

\* A check is reported, or re-run; followed as long as the attempt may yet ask.
CIReports(k, result) ==
    /\ run.pc \in (IF k = "statuses" THEN {"checks"} ELSE {"checks", "runs"})
    /\ result # ci.now[k]
    /\ ci' = [ci EXCEPT !.now[k] = result, !.best[k] = Better(@, result)]
    /\ UNCHANGED <<ledger, pr, comments, writers, record, inbox, run>>

Revoke(p) ==
    /\ p \in writers
    /\ writers' = writers \ {p}
    /\ UNCHANGED <<ledger, pr, ci, comments, record, inbox, run>>

PostComment(c) ==
    /\ c \notin comments
    /\ Cardinality(comments) < MaxComments
    /\ comments' = comments \cup {c}
    /\ hooks' = hooks \cup {c}
    /\ UNCHANGED <<ledger, pr, ci, writers, record, answered, read, run>>

-----------------------------------------------------------------------------
(***************************************************************************)
(* github_webhook and admit, for an approval comment by anybody: it joins  *)
(* the unfinished merge job of the pull request, or creates one.           *)
(***************************************************************************)
Unended == {j \in Jobs : phase[j] \in Unfinished}

HookCreates(c, j) ==
    /\ c \in hooks
    /\ LedgerAdmit(j)
    /\ hooks' = hooks \ {c}
    /\ answered' = {c}
    /\ read' = {}
    /\ UNCHANGED <<github, record, run>>

HookJoins(c) ==
    /\ c \in hooks
    /\ Unended # {}
    /\ hooks' = hooks \ {c}
    /\ answered' = answered \cup {c}
    /\ UNCHANGED <<ledger, github, record, read, run>>

\* Not delivered, refused by the admission limit, or not answered.
HookLost(c) ==
    /\ c \in hooks
    /\ hooks' = hooks \ {c}
    /\ UNCHANGED <<ledger, github, record, answered, read, run>>

-----------------------------------------------------------------------------
(***************************************************************************)
(* The attempt.                                                            *)
(***************************************************************************)
Start(j) ==
    /\ LedgerStart(j)
    /\ run' = [NotRunning EXCEPT !.pc = "list", !.job = j]
    /\ UNCHANGED <<github, record, inbox>>

PhaseAfter(verdict, n) ==
    CASE verdict = "ok"    -> "succeeded"
      [] verdict = "retry" -> IF n < MaxAttempts THEN "waiting" ELSE "failed"
      [] verdict = "fatal" -> "failed"

Finish ==
    /\ run.pc = "end"
    /\ LedgerEnd(run.job, PhaseAfter(run.verdict, attempts[run.job]))
    /\ run' = NotRunning
    /\ UNCHANGED <<github, record, inbox>>

\* The work horse is lost; the sweep takes its job back.
Crash ==
    /\ run.pc # "idle"
    /\ LedgerLose({run.job})
    /\ run' = NotRunning
    /\ ci' = NotFollowed
    /\ UNCHANGED <<pr, comments, writers, record, inbox>>

GoTo(pc) == run' = [run EXCEPT !.pc = pc]

EndWith(verdict) ==
    run' = [run EXCEPT !.pc = "end", !.statuses = "none", !.verdict = verdict]

\* Settings, credentials or the GitHub client refuse the attempt before it starts.
Refused ==
    /\ run.pc = "list"
    /\ EndWith("fatal")
    /\ UNCHANGED <<ledger, github, record, inbox>>

\* The records whose pull request may be merged.
List ==
    /\ run.pc = "list"
    /\ IF record \in {"pr_created", "merge_conflict"} THEN GoTo("pull") ELSE EndWith("ok")
    /\ UNCHANGED <<ledger, github, record, inbox>>

\* A call fails: check_for_approval and merge_pull_request report a
\* GithubException as an error, other exceptions leave the loop.
CallFails ==
    /\ run.pc \in {"list", "pull", "comments", "merge", "checks", "runs"}
    /\ EndWith("retry")
    /\ ci' = NotFollowed
    /\ UNCHANGED <<ledger, pr, comments, writers, record, inbox>>

\* check_for_approval: the pull request, and the head it has now ...
ReadPull ==
    /\ run.pc = "pull"
    /\ run' = [run EXCEPT !.pc = "comments", !.head = pr.head]
    /\ UNCHANGED <<ledger, github, record, inbox>>

\* ... and then the comments, with the permissions of those who wrote them.
Approves(c, head) == c.sha = head /\ c.by # Self /\ c.by \in writers

ReadComments ==
    /\ run.pc = "comments"
    /\ read' = comments
    /\ IF \E c \in comments : Approves(c, run.head) THEN GoTo("merge") ELSE EndWith("ok")
    /\ UNCHANGED <<ledger, github, record, hooks, answered>>

\* get_collaborator_permission fails: the approver counts as having none.
PermissionUnknown ==
    /\ run.pc = "comments"
    /\ read' = comments
    /\ \E c \in comments : Approves(c, run.head)
    /\ EndWith("ok")
    /\ UNCHANGED <<ledger, github, record, hooks, answered>>

\* merge_pull_request, from the pull request read again.
Recheck ==
    /\ run.pc = "merge"
    /\ \/ /\ pr.head = run.head /\ ~ pr.draft /\ pr.mergeable = "clean"
          /\ GoTo("checks")
          /\ \E now \in [Kinds -> Results] : ci' = Followed(now)
       \/ /\ pr.head = run.head /\ ~ pr.draft /\ pr.mergeable = "conflict"
          /\ GoTo("flag")
          /\ UNCHANGED ci
       \/ /\ pr.head # run.head \/ pr.draft \/ pr.mergeable = "unknown"
          /\ EndWith("retry")
          /\ UNCHANGED ci
    /\ UNCHANGED <<ledger, pr, comments, writers, record, inbox>>

\* The statuses of the approved head are one call ...
ReadStatuses ==
    /\ run.pc = "checks"
    /\ run' = [run EXCEPT !.pc = "runs", !.statuses = ci.now["statuses"]]
    /\ UNCHANGED <<ledger, github, record, inbox>>

\* ... and its check runs are another one, after which both are judged.
ChecksPassed(statuses, runs) ==
    /\ statuses # "none" \/ runs # "none"
    /\ statuses # "none" => statuses = "passed"
    /\ runs # "failing"
    /\ statuses = "none" => runs = "passed"

ReadChecks ==
    /\ run.pc = "runs"
    /\ \/ /\ ChecksPassed(run.statuses, ci.now["runs"])
          /\ run' = [run EXCEPT !.pc = "put", !.statuses = "none"]
          /\ UNCHANGED ci
       \/ /\ ~ ChecksPassed(run.statuses, ci.now["runs"])
          /\ EndWith("retry")
          /\ ci' = NotFollowed
    /\ UNCHANGED <<ledger, pr, comments, writers, record, inbox>>

\* What GitHub requires of "pr.merge(sha=expected_sha)".
MergeTakes(head) ==
    pr.state = "open" /\ pr.head = head /\ ~ pr.draft /\ pr.mergeable # "conflict"

\* Refused, it is a failure; a conflict, if GitHub's message says so.
Put ==
    /\ run.pc = "put"
    /\ \/ /\ MergeTakes(run.head)
          /\ pr' = [pr EXCEPT !.state = "merged", !.mergeable = "unknown"]
          /\ GoTo("record")
       \/ /\ ~ MergeTakes(run.head)
          /\ \/ EndWith("retry")
             \/ pr.mergeable = "conflict" /\ GoTo("flag")
          /\ UNCHANGED pr
    /\ ci' = NotFollowed
    /\ UNCHANGED <<ledger, comments, writers, record, inbox>>

AfterLostAnswer == "end"

\* The answer is an error or is lost; the merge may have happened.
PutRaises ==
    /\ run.pc = "put"
    /\ \/ UNCHANGED pr
       \/ /\ MergeTakes(run.head)
          /\ pr' = [pr EXCEPT !.state = "merged", !.mergeable = "unknown"]
    /\ run' = [run EXCEPT !.pc = AfterLostAnswer, !.verdict = "retry"]
    /\ ci' = NotFollowed
    /\ UNCHANGED <<ledger, comments, writers, record, inbox>>

MergeStatus == "merged"

\* The status is committed with the activity log entry; when that commit fails
\* _log rolls back, the status included, and the attempt goes on.
RecordMerge ==
    /\ run.pc = "record"
    /\ record' \in {MergeStatus, record}
    /\ GoTo("thanks")
    /\ UNCHANGED <<ledger, github, inbox>>

\* _handle_merge_failure: the conflict is shown, and the attempt is a failure.
FlagConflict ==
    /\ run.pc = "flag"
    /\ record' \in {"merge_conflict", record}
    /\ EndWith("retry")
    /\ UNCHANGED <<ledger, github, inbox>>

\* The thank-you comment; an exception other than GithubException leaves.
Thank(verdict) ==
    /\ run.pc = "thanks"
    /\ EndWith(verdict)
    /\ UNCHANGED <<ledger, github, record, inbox>>

-----------------------------------------------------------------------------
AttemptStep ==
    \/ Refused
    \/ List
    \/ CallFails
    \/ ReadPull
    \/ ReadComments
    \/ PermissionUnknown
    \/ Recheck
    \/ ReadStatuses
    \/ ReadChecks
    \/ Put
    \/ PutRaises
    \/ RecordMerge
    \/ FlagConflict
    \/ \E verdict \in {"ok", "retry"} : Thank(verdict)

PeopleStep ==
    \/ \E h \in Heads : Push(h)
    \/ \E k \in Kinds, result \in Results : CIReports(k, result)
    \/ ToggleDraft
    \/ \E m \in {"unknown", "clean", "conflict"} : ComputeMergeable(m)
    \/ Close
    \/ \E p \in Writers : Revoke(p)
    \/ \E c \in Comments : PostComment(c)

HookStep ==
    \E c \in hooks :
        HookLost(c) \/ HookJoins(c) \/ \E j \in Jobs : HookCreates(c, j)

Next ==
    \/ PeopleStep
    \/ HookStep
    \/ \E j \in Jobs : Start(j)
    \/ AttemptStep
    \/ Finish
    \/ Crash

Spec == Init /\ [][Next]_vars

-----------------------------------------------------------------------------
(***************************************************************************)
(* Safety.                                                                 *)
(***************************************************************************)
Attempt ==
    [pc : {"idle", "list", "pull", "comments", "merge", "checks", "runs", "put",
           "record", "flag", "thanks", "end"},
     job : Jobs \cup {None}, head : Heads \cup {None}, statuses : Results,
     verdict : {"ok", "retry", "fatal"}]

\* The state has the shape of GitHub's data, of the row and of the locals.
TypeOK ==
    /\ phase \in [Jobs -> Phases] /\ attempts \in [Jobs -> 0 .. MaxAttempts]
    /\ pr \in [head : Heads, state : {"open", "closed", "merged"}, draft : BOOLEAN,
               mergeable : {"unknown", "clean", "conflict"}]
    /\ ci \in [now : [Kinds -> Results], best : [Kinds -> Results]]
    /\ comments \subseteq Comments /\ hooks \subseteq comments
    /\ writers \subseteq Writers
    /\ record \in {"pr_created", "merge_conflict", "merged"}
    /\ answered \subseteq comments /\ read \subseteq comments
    /\ run \in Attempt

\* What DevInbox merged is a head that somebody with write access approved, by
\* its SHA and not from DevInbox's own account, whatever was pushed between the
\* reads and the merge (HARDENING.md:31-33, ARCHITECTURE.md:79).
MergedHeadApproved ==
    pr.state = "merged" =>
        \E c \in comments : c.sha = pr.head /\ c.by \in Writers

\* Nothing failing and something passed, with the statuses of one moment and the
\* check runs of another, both since the pull request was read again.
Tested ==
    /\ \A k \in Kinds : ci.best[k] # "failing"
    /\ \E k \in Kinds : ci.best[k] = "passed"

\* ... and one whose checks have passed, whatever was pushed or re-run between the
\* reads (HARDENING.md:33).  That they have all been passing at one moment is more
\* than the two calls for them can tell.
MergedHeadTested ==
    [][pr.state # "merged" /\ pr'.state = "merged" =>
          pr'.head = run.head /\ Tested]_vars

\* The record never claims a merge that did not happen, although answers are
\* lost and heads move under the attempt.
MergedIsTrue == record = "merged" => pr.state = "merged"

-----------------------------------------------------------------------------
(***************************************************************************)
(* What makes them inductive: there is one attempt, and what it has read   *)
(* is worth what it goes on to do with it.                                 *)
(***************************************************************************)
\* Somebody who had write access has named this head in a comment.
Approved(head) == \E c \in comments : c.sha = head /\ c.by \in Writers

\* The attempt being executed is that of the running job, and no other job of the
\* pull request is unfinished.
OneAttempt ==
    /\ run.pc # "idle" => run.job \in Jobs /\ phase[run.job] = "running"
    /\ \A j \in Jobs : phase[j] = "running" => run.pc # "idle" /\ run.job = j
    /\ \A i, j \in Unended : i = j

\* The attempt holds on to a head that was approved when the comments were read,
\* and goes on to the merge only after that head's checks have passed.
HeadIsApproved ==
    /\ run.pc \in {"merge", "checks", "runs", "put"} =>
          run.head \in Heads /\ Approved(run.head)
    /\ run.pc \in {"checks", "runs", "put"} =>
          \A k \in Kinds : Better(ci.best[k], ci.now[k]) = ci.best[k]
    /\ run.pc = "runs" =>
          Better(ci.best["statuses"], run.statuses) = ci.best["statuses"]
    /\ run.pc = "put" => Tested

\* Whoever may still write the record has found it unmerged, and writes MERGED
\* only after the merge.
RecordIsOurs ==
    /\ run.pc = "record" => pr.state = "merged"
    /\ run.pc \in {"pull", "comments", "merge", "checks", "runs", "put", "flag",
                   "record"} =>
          record # "merged"

InductiveInvariant ==
    /\ TypeOK
    /\ OneAttempt
    /\ HeadIsApproved
    /\ RecordIsOurs
    /\ MergedHeadApproved
    /\ MergedIsTrue

-----------------------------------------------------------------------------
(***************************************************************************)
(* What all this is for.                                                   *)
(***************************************************************************)
Promise == INSTANCE Merging WITH
    head <- pr.head,
    fate <- pr.state,
    approved <- {h \in Heads : Approved(h)},
    tested <- {h \in Heads : h = run.head /\ Tested},
    marked <- (record = "merged")

\* Through every push, lost answer, crash and replay, the pull request is merged at
\* a head that had been approved and tested or not at all, nothing happens to it
\* afterwards, and it is marked MERGED only then, for good (HARDENING.md:31-33).
ImplementsMerging == Promise!Spec

-----------------------------------------------------------------------------
(***************************************************************************)
(* What the documents say and the code does not do.                        *)
(***************************************************************************)
\* A clean merge is marked MERGED (ARCHITECTURE.md:72): when no job is left, a
\* pull request that DevInbox merged is recorded as merged.
CleanMergeIsMarked ==
    pr.state = "merged" /\ Unended = {} => record = "merged"

\* An approval that was answered with a job is read by it: when the jobs have
\* succeeded, no approval of the open pull request's head that a webhook was
\* thanked for is left unread.  A failed job does not count: an operator sees it
\* and replays it (HARDENING.md:36-37).
ApprovalIsRead ==
    pr.state = "open" /\ Unended = {} /\ (\A j \in Jobs : phase[j] # "failed") =>
        \A c \in answered : Approves(c, pr.head) => c \in read
=============================================================================
