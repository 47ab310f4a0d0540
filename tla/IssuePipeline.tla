---------------------------- MODULE IssuePipeline ----------------------------
(***************************************************************************)
(* From an issue to a draft pull request: process_issue and                *)
(* _publish_checkpoint, for one issue, attempt after attempt.              *)
(*                                                                         *)
(* The attempts come from the ledger that JobQueue implements: one at a    *)
(* time, MaxAttempts per job, and a new job whenever the issue is labelled *)
(* again, run by hand or replayed.  An attempt is a sequence of GitHub     *)
(* calls and commits; a call may fail before or after it had its effect,   *)
(* and the work horse may be lost between any two of them.  Meanwhile      *)
(* people push to the branch, delete it, and close, reopen or merge the    *)
(* pull request, and a merge job works on the same record: its active_key  *)
(* is another one, so the queue lets both run at the same time.            *)
(***************************************************************************)
EXTENDS JobLedger, FiniteSets

CONSTANTS
    Shas,       \* commits of the default branch a solution may be based on
    Patches,    \* validated patch sets the model may generate
    Numbers,    \* pull request numbers
    Foreign,    \* a branch head with a commit that is not DevInbox's
    None

ASSUME PipelineAssumption ==
    /\ MaxAttempts \in Nat \ {0}
    /\ None \notin Jobs \cup Shas \cup Patches \cup Numbers
    /\ Foreign # None
    /\ {None, Foreign} \cap [base : Shas, patch : Patches \cup {None}] = {}
    /\ \A i, j \in Jobs : KeyOf[i] = KeyOf[j]     \* one issue

VARIABLES
    issue,      \* the IssueRecord row
    branch,     \* head of devinbox/issue-N, upstream and in the fork
    prs,        \* DevInbox's pull requests for the branch
    run,        \* the attempt being executed
    merger      \* the attempt of a merge job that has read the record

vars == <<phase, attempts, issue, branch, prs, run, merger>>

-----------------------------------------------------------------------------
Repos == {"upstream", "fork"}

\* A commit of a patch set on top of a base; no patch: the base itself.
Commit(b, p) == [base |-> b, patch |-> p]

NoPR == [head |-> None, state |-> "none"]

\* _ALREADY_PROCESSED_STATUSES (APPROVED is never written).
Settled == {"pr_created", "merged", "merge_conflict", "closed", "low_confidence"}

NoRecord == [status |-> "absent", checkpoint |-> None, pr |-> None]

NotRunning == [pc |-> "idle", job |-> None, work |-> "upstream", verdict |-> "ok"]

NotMerging == [pc |-> "idle", pr |-> None, seen |-> "absent"]

Init ==
    /\ LedgerInit
    /\ issue = NoRecord
    /\ branch = [r \in Repos |-> None]
    /\ prs = [n \in Numbers |-> NoPR]
    /\ run = NotRunning
    /\ merger = NotMerging

-----------------------------------------------------------------------------
(***************************************************************************)
(* Slips that a change of the code could make, each a variant of the       *)
(* definition it is named after.                                           *)
(***************************************************************************)
ExistingOpenOnly == {n \in Numbers : prs[n].state = "open"}

ResumableNever == FALSE

FastForwardForced(r) == branch[r] # None

StatusOfVerbatim(state) == state

StatusOfClosedAsMerged(state) == IF state = "open" THEN "pr_created" ELSE "merged"

PhaseAfterAnyResult(verdict, n) == "succeeded"

-----------------------------------------------------------------------------
(***************************************************************************)
(* execute_job around process_issue.                                       *)
(***************************************************************************)
Admit(j) ==
    /\ LedgerAdmit(j)
    /\ UNCHANGED <<issue, branch, prs, run, merger>>

Start(j) ==
    /\ LedgerStart(j)
    /\ run' = [NotRunning EXCEPT !.pc = "begin", !.job = j]
    /\ UNCHANGED <<issue, branch, prs, merger>>

PhaseAfter(verdict, n) ==
    CASE verdict = "ok"    -> "succeeded"
      [] verdict = "retry" -> IF n < MaxAttempts THEN "waiting" ELSE "failed"
      [] verdict = "fatal" -> "failed"

\* finish writes the verdict of the attempt.
Finish ==
    /\ run.pc = "end"
    /\ LedgerEnd(run.job, PhaseAfter(run.verdict, attempts[run.job]))
    /\ run' = NotRunning
    /\ UNCHANGED <<issue, branch, prs, merger>>

\* The work horse is lost; the sweep takes its job back.
Crash ==
    /\ run.pc # "idle"
    /\ LedgerLose({run.job})
    /\ run' = NotRunning
    /\ UNCHANGED <<issue, branch, prs, merger>>

GoTo(pc) == run' = [run EXCEPT !.pc = pc]

EndWith(verdict) == run' = [run EXCEPT !.pc = "end", !.verdict = verdict]

SetStatus(s) == issue' = [issue EXCEPT !.status = s]

\* Credentials, the GitHub client or the issue itself refuse the attempt, or a
\* call outside process_issue's try raises: the record is left as it is.
Refused(verdict) ==
    /\ run.pc \in {"begin", "lookup"}
    /\ run.pc = "lookup" => verdict = "retry"
    /\ EndWith(verdict)
    /\ UNCHANGED <<phase, attempts, issue, branch, prs, merger>>

\* _fail: the attempt failed with its work half done; the record says FAILED.
Fails(verdict) ==
    /\ SetStatus("failed")
    /\ EndWith(verdict)
    /\ UNCHANGED <<phase, attempts, branch, prs, merger>>

\* An exception of a call that had no effect, an unusable answer of the LLM, a
\* fork that is not ready: only validation errors are not worth a retry.
StepFails(verdict) ==
    /\ run.pc \in {"classify", "generate", "publish", "ref", "commit"}
    /\ verdict = "fatal" => run.pc \in {"classify", "generate"}
    /\ Fails(verdict)

-----------------------------------------------------------------------------
(***************************************************************************)
(* process_issue.                                                          *)
(***************************************************************************)
Begin ==
    /\ run.pc = "begin"
    /\ IF issue.status \in Settled
         THEN EndWith("ok") /\ UNCHANGED issue
         ELSE /\ GoTo("lookup")
              /\ SetStatus(IF issue.status = "absent" THEN "received" ELSE issue.status)
    /\ UNCHANGED <<phase, attempts, branch, prs, merger>>

\* find_existing_fix_pr: pull requests in any state, from either repository.
Existing == {n \in Numbers : prs[n].state # "none"}

StatusOf(state) ==
    CASE state = "open" -> "pr_created" [] state = "closed" -> "closed"
      [] state = "merged" -> "merged"

Recover(n) ==
    /\ run.pc = "lookup"
    /\ n \in Existing
    /\ issue' = [issue EXCEPT !.pr = n, !.status = StatusOf(prs[n].state)]
    /\ EndWith("ok")
    /\ UNCHANGED <<phase, attempts, branch, prs, merger>>

Resumable == issue.checkpoint # None

NothingToRecover ==
    /\ run.pc = "lookup"
    /\ Existing = {}
    /\ IF Resumable
         THEN GoTo("publish") /\ UNCHANGED issue
         ELSE GoTo("classify") /\ SetStatus("analyzing")
    /\ UNCHANGED <<phase, attempts, branch, prs, merger>>

\* CLASSIFIED is passed through: an actionable issue is GENERATING at once.
Classify(actionable) ==
    /\ run.pc = "classify"
    /\ IF actionable
         THEN GoTo("generate") /\ SetStatus("generating")
         ELSE GoTo("comment") /\ SetStatus("closed")
    /\ UNCHANGED <<phase, attempts, branch, prs, merger>>

LowConfidence ==
    /\ run.pc = "generate"
    /\ SetStatus("low_confidence")
    /\ GoTo("comment")
    /\ UNCHANGED <<phase, attempts, branch, prs, merger>>

\* A patch set validated against the pinned base is the checkpoint.
SaveCheckpoint(b, p) ==
    /\ run.pc = "generate"
    /\ issue' = [issue EXCEPT !.checkpoint = Commit(b, p)]
    /\ GoTo("publish")
    /\ UNCHANGED <<phase, attempts, branch, prs, merger>>

-----------------------------------------------------------------------------
(***************************************************************************)
(* _publish_checkpoint and commit_patch_set.                               *)
(***************************************************************************)
Base == Commit(issue.checkpoint.base, None)

WorkOn(r) ==
    /\ run.pc = "publish"
    /\ run' = [run EXCEPT !.pc = "ref", !.work = r]
    /\ UNCHANGED <<phase, attempts, issue, branch, prs, merger>>

\* The token may push to the repository of the issue.
HasWriteAccess == WorkOn("upstream")

\* It may not, or asking failed, which counts as no: there is a fork, or one is
\* created and gets ready in time.
ForkReady == WorkOn("fork")

\* get_git_ref: the branch is there, or GitHub answers 404.
FindRef ==
    /\ run.pc = "ref"
    /\ GoTo(IF branch[run.work] = None THEN "create_ref" ELSE "commit")
    /\ UNCHANGED <<phase, attempts, issue, branch, prs, merger>>

SetBranch(c) == branch' = [branch EXCEPT ![run.work] = c]

CreateRef ==
    /\ run.pc = "create_ref"
    /\ branch[run.work] = None
    /\ SetBranch(Base)
    /\ GoTo("commit")
    /\ UNCHANGED <<phase, attempts, issue, prs, merger>>

\* The answer is an error; the branch may be there all the same.
CreateRefRaises ==
    /\ run.pc = "create_ref"
    /\ \/ UNCHANGED branch
       \/ branch[run.work] = None /\ SetBranch(Base)
    /\ SetStatus("failed")
    /\ EndWith("retry")
    /\ UNCHANGED <<phase, attempts, prs, merger>>

\* The head decides: the base is committed onto, the very commit of the
\* checkpoint was pushed by an attempt before, anything else is refused.
InspectHead ==
    /\ run.pc = "commit"
    /\ \/ /\ branch[run.work] = None
          /\ Fails("retry")
       \/ /\ branch[run.work] = Base
          /\ GoTo("edit")
          /\ UNCHANGED <<phase, attempts, issue, branch, prs, merger>>
       \/ /\ branch[run.work] = issue.checkpoint
          /\ GoTo("pr")
          /\ UNCHANGED <<phase, attempts, issue, branch, prs, merger>>
       \/ /\ branch[run.work] \notin {None, Base}    \* or a truncated tree
          /\ Fails("fatal")

\* "ref.edit(commit.sha, force=False)": GitHub accepts a fast-forward only.
FastForward(r) == branch[r] = Base

EditRef ==
    /\ run.pc = "edit"
    /\ FastForward(run.work)
    /\ SetBranch(issue.checkpoint)
    /\ GoTo("pr")
    /\ UNCHANGED <<phase, attempts, issue, prs, merger>>

EditRefRaises ==
    /\ run.pc = "edit"
    /\ \/ UNCHANGED branch
       \/ FastForward(run.work) /\ SetBranch(issue.checkpoint)
    /\ SetStatus("failed")
    /\ EndWith("retry")
    /\ UNCHANGED <<phase, attempts, prs, merger>>

\* GitHub takes a pull request from a branch with commits and no open one.
Opened(n) ==
    /\ prs[n].state = "none"
    /\ branch[run.work] \notin {None, Base}
    /\ \A m \in Numbers : prs[m].head = run.work => prs[m].state # "open"
    /\ prs' = [prs EXCEPT ![n] = [head |-> run.work, state |-> "open"]]

CreatePR(n) ==
    /\ run.pc = "pr"
    /\ Opened(n)
    /\ issue' = [issue EXCEPT !.pr = n, !.status = "pr_created"]
    /\ GoTo("comment")
    /\ UNCHANGED <<phase, attempts, branch, merger>>

\* create_pull fails, or its answer is lost after the pull request was opened.
CreatePRFails ==
    /\ run.pc = "pr"
    /\ UNCHANGED prs \/ \E n \in Numbers : Opened(n)
    /\ SetStatus("failed")
    /\ EndWith("retry")
    /\ UNCHANGED <<phase, attempts, branch, merger>>

\* A GithubException in post_comment is swallowed, a connection error is not.
PostComment ==
    /\ run.pc = "comment"
    /\ EndWith("ok")
    /\ UNCHANGED <<phase, attempts, issue, branch, prs, merger>>

PostCommentRaises ==
    /\ run.pc = "comment"
    /\ Fails("retry")

-----------------------------------------------------------------------------
(***************************************************************************)
(* People.                                                                 *)
(***************************************************************************)
PushForeign(r) ==
    /\ branch' = [branch EXCEPT ![r] = Foreign]
    /\ UNCHANGED <<phase, attempts, issue, prs, run, merger>>

\* A branch that goes takes its open pull request along.
DeleteBranch(r) ==
    /\ branch[r] # None
    /\ branch' = [branch EXCEPT ![r] = None]
    /\ prs' = [n \in Numbers |->
                 IF prs[n].head = r /\ prs[n].state = "open"
                   THEN [prs[n] EXCEPT !.state = "closed"] ELSE prs[n]]
    /\ UNCHANGED <<phase, attempts, issue, run, merger>>

ClosePR(n, state) ==
    /\ prs[n].state = "open"
    /\ prs' = [prs EXCEPT ![n].state = state]
    /\ UNCHANGED <<phase, attempts, issue, branch, run, merger>>

\* Nor is closing the end of it, while its branch is there.
ReopenPR(n) ==
    /\ prs[n].state = "closed" /\ branch[prs[n].head] # None
    /\ \A m \in Numbers : prs[m].head = prs[n].head => prs[m].state # "open"
    /\ prs' = [prs EXCEPT ![n].state = "open"]
    /\ UNCHANGED <<phase, attempts, issue, branch, run, merger>>

-----------------------------------------------------------------------------
(***************************************************************************)
(* check_and_merge_approved_prs, as far as the record is concerned (see    *)
(* MergeFlow for what it takes to merge): it reads the record, calls       *)
(* GitHub for a while and writes a status, whatever the record says then.  *)
(***************************************************************************)
MergeJobLists ==
    /\ merger.pc = "idle"
    /\ issue.status \in {"pr_created", "merge_conflict"}
    /\ merger' = [pc |-> "listed", pr |-> issue.pr, seen |-> issue.status]
    /\ UNCHANGED <<phase, attempts, issue, branch, prs, run>>

MergeJobMerges ==
    /\ merger.pc = "listed"
    /\ prs[merger.pr].state = "open"
    /\ prs' = [prs EXCEPT ![merger.pr].state = "merged"]
    /\ merger' = [merger EXCEPT !.pc = "merged"]
    /\ UNCHANGED <<phase, attempts, issue, branch, run>>

\* "pr.mergeable is False", of a pull request that is not merged yet.
MergeJobMeetsConflict ==
    /\ merger.pc = "listed"
    /\ prs[merger.pr].state # "merged"
    /\ merger' = [merger EXCEPT !.pc = "merge_conflict"]
    /\ UNCHANGED <<phase, attempts, issue, branch, prs, run>>

\* The session writes a status that differs from the one it has read.
MergeJobRecords ==
    /\ merger.pc \in {"merged", "merge_conflict"}
    /\ IF merger.pc = merger.seen THEN UNCHANGED issue ELSE SetStatus(merger.pc)
    /\ merger' = NotMerging
    /\ UNCHANGED <<phase, attempts, branch, prs, run>>

\* Not approved, not to be merged yet, an error, a lost horse, a commit that fails.
MergeJobGivesUp ==
    /\ merger.pc # "idle"
    /\ merger' = NotMerging
    /\ UNCHANGED <<phase, attempts, issue, branch, prs, run>>

-----------------------------------------------------------------------------
AttemptStep ==
    \/ \E verdict \in {"retry", "fatal"} : Refused(verdict) \/ StepFails(verdict)
    \/ Begin
    \/ \E n \in Numbers : Recover(n)
    \/ NothingToRecover
    \/ \E actionable \in BOOLEAN : Classify(actionable)
    \/ LowConfidence
    \/ \E b \in Shas, p \in Patches : SaveCheckpoint(b, p)
    \/ HasWriteAccess
    \/ ForkReady
    \/ FindRef
    \/ CreateRef
    \/ CreateRefRaises
    \/ InspectHead
    \/ EditRef
    \/ EditRefRaises
    \/ \E n \in Numbers : CreatePR(n)
    \/ CreatePRFails
    \/ PostComment
    \/ PostCommentRaises

PeopleStep ==
    \/ \E r \in Repos : PushForeign(r) \/ DeleteBranch(r)
    \/ \E n \in Numbers : ReopenPR(n) \/ \E state \in {"closed", "merged"} : ClosePR(n, state)

MergeJobStep ==
    \/ MergeJobLists
    \/ MergeJobMerges
    \/ MergeJobMeetsConflict
    \/ MergeJobRecords
    \/ MergeJobGivesUp

Next ==
    \/ \E j \in Jobs : Admit(j) \/ Start(j)
    \/ AttemptStep
    \/ Finish
    \/ Crash
    \/ PeopleStep
    \/ MergeJobStep

Spec == Init /\ [][Next]_vars

-----------------------------------------------------------------------------
(***************************************************************************)
(* Safety.                                                                 *)
(***************************************************************************)
Commits == [base : Shas, patch : Patches]

Record ==
    [status : Settled \cup {"absent", "received", "analyzing", "generating", "failed"},
     checkpoint : Commits \cup {None}, pr : Numbers \cup {None}]

Attempt ==
    [pc : {"idle", "begin", "lookup", "classify", "generate", "publish", "ref",
           "create_ref", "commit", "edit", "pr", "comment", "end"},
     job : Jobs \cup {None}, work : Repos, verdict : {"ok", "retry", "fatal"}]

\* The state has the shape of the row, of GitHub's data and of the locals.
TypeOK ==
    /\ phase \in [Jobs -> Phases] /\ attempts \in [Jobs -> 0 .. MaxAttempts]
    /\ issue \in Record
    /\ branch \in [Repos -> Commits \cup [base : Shas, patch : {None}] \cup {Foreign, None}]
    /\ prs \in [Numbers -> {NoPR} \cup
                  [head : Repos, state : {"open", "closed", "merged"}]]
    /\ run \in Attempt
    /\ merger \in {NotMerging} \cup
         [pc : {"listed", "merged", "merge_conflict"}, pr : Numbers,
          seen : {"pr_created", "merge_conflict"}]

\* However often answers are lost, horses die and jobs are replayed, and
\* whatever people do with it, DevInbox opens one pull request per issue
\* (HARDENING.md:16).
AtMostOnePR == Cardinality({n \in Numbers : prs[n] # NoPR}) =< 1

\* All that DevInbox ever pushes for an issue is the patch set of its checkpoint,
\* on its pinned base: no retry publishes a second solution (HARDENING.md:15).
OnePublishedSolution ==
    \A r \in Repos :
        branch[r] \notin {None, Foreign} => branch[r] \in {issue.checkpoint, Base}

\* The record agrees with GitHub, however stale what the writers of it have read: a
\* status that says there is a pull request names it, and "merged" is only said of
\* one that is (both jobs write issue_records.status, agent_orchestrator.py:61, 313).
RecordAgreesWithGitHub ==
    /\ issue.status \in {"pr_created", "merge_conflict", "merged"} =>
          issue.pr # None /\ prs[issue.pr].state # "none"
    /\ issue.status = "merged" => prs[issue.pr].state = "merged"

\* Low confidence is a soft stop: no branch of DevInbox's, no pull request
\* (agent_orchestrator.py:263), not even from an earlier attempt.
QuietWhenUnsure ==
    issue.status = "low_confidence" =>
        /\ \A r \in Repos : branch[r] \in {None, Foreign}
        /\ \A n \in Numbers : prs[n] = NoPR

\* A job that succeeded leaves an issue that is settled, so that it is skipped from
\* then on, and loses no pull request: one that is open is the one on record, where
\* merge jobs look for approvals, unless the job had found it closed.
SuccessMeansSettled ==
    \A j \in Jobs : phase[j] = "succeeded" =>
        /\ issue.status \in Settled
        /\ \A n \in Numbers : prs[n].state = "open" =>
              issue.pr = n /\ issue.status \in {"pr_created", "merge_conflict", "closed"}

\* DevInbox never moves a branch that somebody else has committed to.
ForeignCommitsSurvive ==
    [][\A r \in Repos : branch[r] = Foreign => branch'[r] \in {Foreign, None}]_vars

-----------------------------------------------------------------------------
(***************************************************************************)
(* What makes the invariants inductive.                                    *)
(***************************************************************************)
Unended == {j \in Jobs : phase[j] \in Unfinished}

\* The attempt being executed is that of the running job, and no other job of the
\* issue is unfinished.
OneAttempt ==
    /\ run.pc # "idle" => run.job \in Jobs /\ phase[run.job] = "running"
    /\ \A j \in Jobs : phase[j] = "running" => run.pc # "idle" /\ run.job = j
    /\ \A i, j \in Unended : i = j

\* The attempt has found no pull request and goes on to open one.
Publishing == {"publish", "ref", "create_ref", "commit", "edit", "pr"}
Working    == {"classify", "generate"} \cup Publishing

\* There is one pull request at most, and it is the one that anybody remembers; a
\* settled record has it, and it does not exist after a stop for low confidence.
OnePR ==
    /\ \A m, n \in Existing : m = n
    /\ issue.pr # None => issue.pr \in Existing
    /\ merger.pc # "idle" => merger.pr \in Existing /\ merger.pr = issue.pr
    /\ merger.pc = "merged" => prs[merger.pr].state = "merged"
    /\ issue.status \in Settled => \A n \in Existing : issue.pr = n
    /\ issue.status = "low_confidence" => Existing = {}

\* Nothing is pushed before there is a checkpoint, and there is none after a stop
\* for low confidence.
CheckpointFirst ==
    /\ ~ Resumable => \A r \in Repos : branch[r] \in {None, Foreign}
    /\ issue.status = "low_confidence" => ~ Resumable

\* An attempt works on an issue that is not settled and has no pull request; it is
\* about to succeed only when the issue is settled, and after a success the next
\* attempts find that out.
AttemptAgrees ==
    /\ run.pc \in Working => Existing = {} /\ issue.status \notin Settled
    /\ run.pc = "lookup" /\ Existing = {} => issue.status \notin Settled
    /\ run.pc \in {"classify", "generate"} => ~ Resumable
    /\ run.pc \in Publishing => Resumable
    /\ run.pc = "comment" \/ (run.pc = "end" /\ run.verdict = "ok") =>
          issue.status \in Settled
    /\ \A j \in Jobs : phase[j] = "succeeded" =>
          issue.status \in Settled /\ run.pc \in {"idle", "begin", "end"}

InductiveInvariant ==
    /\ TypeOK
    /\ OneAttempt
    /\ OnePR
    /\ CheckpointFirst
    /\ AttemptAgrees
    /\ OnePublishedSolution
    /\ RecordAgreesWithGitHub

-----------------------------------------------------------------------------
(***************************************************************************)
(* What all this is for.                                                   *)
(***************************************************************************)
Promise == INSTANCE Publication WITH
    Solutions <- Commits,
    solution <- issue.checkpoint,
    shown <- {r \in Repos : issue.checkpoint # None /\ branch[r] = issue.checkpoint},
    opened <- {n \in Numbers : prs[n] # NoPR},
    known <- issue.pr

\* Through every crash, replay, lost answer and interference, the attempts carry
\* on with the solution that was saved first: none generates another, shows
\* another or opens a second pull request for it (HARDENING.md:15-16).
ImplementsPublication == Promise!Spec
=============================================================================
