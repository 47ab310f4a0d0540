------------------------- MODULE IssuePipelineProofs -------------------------
(***************************************************************************)
(* Theorems about IssuePipeline, for any bases, patches, jobs and numbers  *)
(* of pull requests, and any number of attempts.                           *)
(***************************************************************************)
EXTENDS IssuePipeline, FiniteSetTheorems, TLAPS

Heads == Commits \cup [base : Shas, patch : {None}] \cup {Foreign, None}

PullRequests == {NoPR} \cup [head : Repos, state : {"open", "closed", "merged"}]

Merger ==
    {NotMerging} \cup
    [pc : {"listed", "merged", "merge_conflict"}, pr : Numbers,
     seen : {"pr_created", "merge_conflict"}]

LEMMA TypeParts ==
    TypeOK <=> /\ phase \in [Jobs -> Phases] /\ attempts \in [Jobs -> 0 .. MaxAttempts]
               /\ issue \in Record
               /\ branch \in [Repos -> Heads]
               /\ prs \in [Numbers -> PullRequests]
               /\ run \in Attempt
               /\ merger \in Merger
  BY DEF TypeOK, Heads, PullRequests, Merger

LEMMA CommitType ==
    ASSUME NEW b \in Shas, NEW p \in Patches
    PROVE  /\ Commit(b, p) \in Commits /\ Commit(b, p) \notin {None, Foreign}
           /\ Commit(b, None) \in Heads /\ Commit(b, None) \notin {None, Foreign}
           /\ Commit(b, None) # Commit(b, p)
<1>1. /\ Commit(b, p) \in [base : Shas, patch : Patches \cup {None}]
      /\ Commit(b, None) \in [base : Shas, patch : Patches \cup {None}]
  BY DEF Commit
<1>2. Commit(b, p).patch = p /\ Commit(b, None).patch = None
  BY DEF Commit
<1>3. p # None
  BY PipelineAssumption
<1> QED
  BY <1>1, <1>2, <1>3, PipelineAssumption DEF Commit, Commits, Heads

\* What is pushed of a checkpoint: neither nothing, nor somebody else's.
LEMMA CheckpointType ==
    ASSUME TypeOK, Resumable
    PROVE  /\ issue.checkpoint \in Commits /\ issue.checkpoint \in Heads
           /\ issue.checkpoint \notin {None, Foreign}
           /\ Base \in Heads /\ Base \notin {None, Foreign} /\ Base # issue.checkpoint
<1>1. issue.checkpoint \in Commits
  BY DEF TypeOK, Record, Resumable
<1>2. PICK b \in Shas, p \in Patches : issue.checkpoint = Commit(b, p)
  BY <1>1 DEF Commits, Commit
<1>3. Base = Commit(b, None)
  BY <1>2 DEF Base, Commit
<1> QED
  BY <1>1, <1>2, <1>3, CommitType DEF Heads

LEMMA NotRunningType == NotRunning \in Attempt /\ NotRunning.pc = "idle"
  BY DEF NotRunning, Attempt, Repos

LEMMA NotMergingType == NotMerging \in Merger /\ NotMerging.pc = "idle"
  BY DEF NotMerging, Merger

LEMMA ExistingPR ==
    ASSUME TypeOK, NEW n \in Numbers
    PROVE  /\ n \in Existing <=> prs[n] # NoPR
           /\ n \in Existing <=> prs[n].state \in {"open", "closed", "merged"}
  BY DEF TypeOK, Existing, NoPR

LEMMA PhaseAfterType ==
    ASSUME NEW verdict \in {"ok", "retry", "fatal"}, NEW n
    PROVE  /\ PhaseAfter(verdict, n) \in {"waiting", "failed", "succeeded"}
           /\ PhaseAfter(verdict, n) = "succeeded" => verdict = "ok"
  BY DEF PhaseAfter

LEMMA InitInvariant == Init => InductiveInvariant
<1> SUFFICES ASSUME Init PROVE InductiveInvariant
  OBVIOUS
<1> USE DEF Init, LedgerInit
<1>1. TypeOK
  BY PipelineAssumption, NotRunningType, NotMergingType, TypeParts
     DEF Phases, NoRecord, Record, Heads, PullRequests
<1>2. Existing = {}
  BY DEF Existing, NoPR
<1>3. ~ Resumable /\ issue.status = "absent" /\ issue.pr = None
  BY DEF Resumable, NoRecord
<1>4. OneAttempt
  BY NotRunningType DEF OneAttempt, Unended, Unfinished
<1>5. OnePR
  BY <1>2, <1>3, NotMergingType DEF OnePR, Settled
<1>6. CheckpointFirst
  BY <1>3 DEF CheckpointFirst
<1>7. AttemptAgrees
  BY <1>3, NotRunningType DEF AttemptAgrees, Working, Publishing
<1>8. OnePublishedSolution /\ RecordAgreesWithGitHub
  BY <1>3 DEF OnePublishedSolution, RecordAgreesWithGitHub
<1> QED
  BY <1>1, <1>4, <1>5, <1>6, <1>7, <1>8 DEF InductiveInvariant

-----------------------------------------------------------------------------
(***************************************************************************)
(* What a step leaves alone goes on to agree.                              *)
(***************************************************************************)
\* Neither the branches nor the checkpoint.
LEMMA BranchFrame ==
    ASSUME InductiveInvariant, UNCHANGED branch,
           issue'.checkpoint = issue.checkpoint,
           issue'.status = "low_confidence" => issue.status = "low_confidence" \/ ~ Resumable
    PROVE  CheckpointFirst' /\ OnePublishedSolution'
  BY DEF InductiveInvariant, CheckpointFirst, OnePublishedSolution, Resumable, Base

\* Neither the pull requests nor who remembers them; nor is the record settled.
LEMMA PRFrame ==
    ASSUME InductiveInvariant, UNCHANGED <<prs, merger>>, issue'.pr = issue.pr,
           issue'.status = issue.status \/ issue'.status \notin Settled
    PROVE  OnePR' /\ RecordAgreesWithGitHub'
<1>1. Existing' = Existing
  BY DEF Existing
<1>2. OnePR'
  BY <1>1 DEF InductiveInvariant, OnePR, Settled
<1>3. RecordAgreesWithGitHub'
  BY DEF InductiveInvariant, RecordAgreesWithGitHub, Settled
<1> QED
  BY <1>2, <1>3

\* The attempt goes on, and the queue is left alone.
LEMMA AttemptFrame ==
    ASSUME InductiveInvariant, UNCHANGED phase, run.pc # "idle",
           run'.pc # "idle", run'.job = run.job
    PROVE  OneAttempt'
  BY DEF InductiveInvariant, OneAttempt, Unended

\* Nobody's local state but the attempt's depends on where it is.
LEMMA RunPreserves ==
    ASSUME InductiveInvariant,
           UNCHANGED <<phase, attempts, issue, branch, prs, merger>>,
           run.pc # "idle", run' \in Attempt, run'.pc # "idle", run'.job = run.job,
           AttemptAgrees'
    PROVE  InductiveInvariant'
<1>1. TypeOK'
  BY TypeParts DEF InductiveInvariant, TypeOK
<1> QED
  BY <1>1, BranchFrame, PRFrame, AttemptFrame DEF InductiveInvariant

\* ... and the record's status, which does not become a settled one.
LEMMA StatusPreserves ==
    ASSUME InductiveInvariant, UNCHANGED <<phase, attempts, branch, prs, merger>>,
           NEW status \in {"received", "analyzing", "generating", "failed"},
           SetStatus(status),
           run.pc # "idle", run' \in Attempt, run'.pc # "idle", run'.job = run.job,
           AttemptAgrees'
    PROVE  InductiveInvariant'
<1>1. issue' \in Record /\ issue'.status = status /\ issue'.pr = issue.pr
      /\ issue'.checkpoint = issue.checkpoint
  BY DEF SetStatus, InductiveInvariant, TypeOK, Record
<1>2. TypeOK'
  BY <1>1 DEF InductiveInvariant, TypeOK
<1>3. status \notin Settled
  BY DEF Settled
<1> QED
  BY <1>1, <1>2, <1>3, BranchFrame, PRFrame, AttemptFrame DEF InductiveInvariant

LEMMA MoveType ==
    ASSUME TypeOK, NEW pc, GoTo(pc), pc \in {"lookup", "classify", "generate",
             "publish", "create_ref", "commit", "edit", "pr", "comment"}
    PROVE  run' \in Attempt /\ run'.job = run.job /\ run'.pc = pc /\ run'.work = run.work
  BY DEF TypeOK, Attempt, GoTo

LEMMA EndType ==
    ASSUME TypeOK, NEW verdict \in {"ok", "retry", "fatal"}, EndWith(verdict)
    PROVE  /\ run' \in Attempt /\ run'.job = run.job
           /\ run'.pc = "end" /\ run'.verdict = verdict
  BY DEF TypeOK, Attempt, EndWith

\* An attempt that has begun its work, as opposed to one that finds it done.
InTheMiddle == run.pc \notin {"idle", "begin", "end"}

\* While it is there, no job has succeeded.
LEMMA NoSuccessYet ==
    ASSUME InductiveInvariant, InTheMiddle, UNCHANGED phase
    PROVE  \A j \in Jobs : phase'[j] # "succeeded"
  BY DEF InductiveInvariant, AttemptAgrees, InTheMiddle

LEMMA StillExisting == UNCHANGED prs => Existing' = Existing
  BY DEF Existing

-----------------------------------------------------------------------------
(***************************************************************************)
(* process_issue.                                                          *)
(***************************************************************************)
LEMMA RefusedPreserves ==
    ASSUME InductiveInvariant, NEW verdict \in {"retry", "fatal"}, Refused(verdict)
    PROVE  InductiveInvariant'
<1>1. run' \in Attempt /\ run'.job = run.job /\ run'.pc = "end" /\ run'.verdict = verdict
  BY EndType DEF Refused, InductiveInvariant
<1>2. AttemptAgrees'
  BY <1>1 DEF Refused, InductiveInvariant, AttemptAgrees, Working, Publishing
<1> QED
  BY <1>1, <1>2, RunPreserves DEF Refused

\* An attempt that fails in the middle leaves a record that is not settled.
LEMMA FailingPreserves ==
    ASSUME InductiveInvariant, InTheMiddle,
           NEW verdict \in {"retry", "fatal"}, Fails(verdict)
    PROVE  InductiveInvariant'
<1>1. run' \in Attempt /\ run'.job = run.job /\ run'.pc = "end" /\ run'.verdict = verdict
  BY EndType DEF Fails, InductiveInvariant
<1>2. AttemptAgrees'
  BY <1>1, NoSuccessYet DEF Fails, AttemptAgrees, Working, Publishing
<1> QED
  BY <1>1, <1>2, StatusPreserves DEF Fails, InTheMiddle

LEMMA StepFailsPreserves ==
    ASSUME InductiveInvariant, NEW verdict \in {"retry", "fatal"}, StepFails(verdict)
    PROVE  InductiveInvariant'
  BY FailingPreserves DEF StepFails, InTheMiddle

LEMMA BeginPreserves ==
    ASSUME InductiveInvariant, Begin
    PROVE  InductiveInvariant'
<1>1. CASE issue.status \in Settled
  <2>1. run' \in Attempt /\ run'.job = run.job /\ run'.pc = "end"
    BY <1>1, EndType DEF Begin, InductiveInvariant
  <2>2. AttemptAgrees'
    BY <1>1, <2>1 DEF Begin, InductiveInvariant, AttemptAgrees, Working, Publishing
  <2> QED
    BY <1>1, <2>1, <2>2, RunPreserves DEF Begin
<1>2. CASE issue.status \notin Settled
  <2> DEFINE status == IF issue.status = "absent" THEN "received" ELSE issue.status
  <2>1. run' \in Attempt /\ run'.job = run.job /\ run'.pc = "lookup"
    BY <1>2, MoveType DEF Begin, InductiveInvariant
  <2>2. status \in {"received", "analyzing", "generating", "failed"}
    BY <1>2 DEF InductiveInvariant, TypeOK, Record
  <2>3. SetStatus(status)
    BY <1>2 DEF Begin
  <2>4. issue'.status = status
    BY <2>3 DEF SetStatus, InductiveInvariant, TypeOK, Record
  <2>5. status \notin Settled
    BY <2>2 DEF Settled
  <2>6. AttemptAgrees'
    BY <1>2, <2>1, <2>4, <2>5
       DEF Begin, InductiveInvariant, AttemptAgrees, Working, Publishing
  <2> HIDE DEF status
  <2> QED
    BY <2>1, <2>2, <2>3, <2>6, StatusPreserves DEF Begin
<1> QED
  BY <1>1, <1>2

\* A record without its pull request finds it again, and with it its status.
LEMMA RecoverPreserves ==
    ASSUME InductiveInvariant, NEW n \in Numbers, Recover(n)
    PROVE  InductiveInvariant'
<1>1. run' \in Attempt /\ run'.job = run.job /\ run'.pc = "end" /\ run'.verdict = "ok"
  BY EndType DEF Recover, InductiveInvariant
<1>2. /\ issue'.pr = n /\ issue'.status = StatusOf(prs[n].state)
      /\ issue'.checkpoint = issue.checkpoint
  BY DEF Recover, InductiveInvariant, TypeOK, Record
<1>3. prs[n].state \in {"open", "closed", "merged"}
  BY ExistingPR DEF Recover, InductiveInvariant
<1>4. StatusOf(prs[n].state) \in {"pr_created", "closed", "merged"}
  BY <1>3 DEF StatusOf
<1>5. StatusOf(prs[n].state) = "merged" => prs[n].state = "merged"
  BY <1>3 DEF StatusOf
<1>6. TypeOK'
  <2>1. issue' \in Record
    BY <1>4 DEF Recover, InductiveInvariant, TypeOK, Record, Settled
  <2> QED
    BY <1>1, <2>1 DEF Recover, InductiveInvariant, TypeOK
<1>7. OneAttempt'
  BY <1>1, AttemptFrame DEF Recover
<1>8. OnePR'
  BY <1>2, <1>4, StillExisting DEF Recover, InductiveInvariant, OnePR
<1>9. CheckpointFirst' /\ OnePublishedSolution'
  BY <1>2, <1>4, BranchFrame DEF Recover
<1>10. AttemptAgrees'
  BY <1>1, <1>2, <1>4, NoSuccessYet
     DEF Recover, InTheMiddle, AttemptAgrees, Working, Publishing, Settled
<1>11. RecordAgreesWithGitHub'
  BY <1>2, <1>3, <1>5, PipelineAssumption DEF Recover, RecordAgreesWithGitHub
<1> QED
  BY <1>6, <1>7, <1>8, <1>9, <1>10, <1>11 DEF InductiveInvariant

LEMMA NothingToRecoverPreserves ==
    ASSUME InductiveInvariant, NothingToRecover
    PROVE  InductiveInvariant'
<1>1. issue.status \notin Settled /\ Existing' = {}
  BY StillExisting DEF NothingToRecover, InductiveInvariant, AttemptAgrees
<1>2. \A j \in Jobs : phase'[j] # "succeeded"
  BY NoSuccessYet DEF NothingToRecover, InTheMiddle
<1>3. CASE Resumable
  <2>1. run' \in Attempt /\ run'.job = run.job /\ run'.pc = "publish"
    BY <1>3, MoveType DEF NothingToRecover, InductiveInvariant
  <2>2. AttemptAgrees'
    BY <1>1, <1>2, <1>3, <2>1
       DEF NothingToRecover, AttemptAgrees, Working, Publishing, Resumable
  <2> QED
    BY <1>3, <2>1, <2>2, RunPreserves DEF NothingToRecover
<1>4. CASE ~ Resumable
  <2>1. run' \in Attempt /\ run'.job = run.job /\ run'.pc = "classify"
    BY <1>4, MoveType DEF NothingToRecover, InductiveInvariant
  <2>2. issue'.status = "analyzing" /\ issue'.checkpoint = issue.checkpoint
    BY <1>4 DEF NothingToRecover, SetStatus, InductiveInvariant, TypeOK, Record
  <2>3. AttemptAgrees'
    BY <1>1, <1>2, <1>4, <2>1, <2>2
       DEF AttemptAgrees, Working, Publishing, Resumable, Settled
  <2> QED
    BY <1>4, <2>1, <2>3, StatusPreserves DEF NothingToRecover
<1> QED
  BY <1>3, <1>4

\* The issue is settled without a solution: nothing has been pushed or opened.
LEMMA SettlingPreserves ==
    ASSUME InductiveInvariant, run.pc \in {"classify", "generate"},
           NEW status \in {"closed", "low_confidence"}, SetStatus(status), GoTo("comment"),
           UNCHANGED <<phase, attempts, branch, prs, merger>>
    PROVE  InductiveInvariant'
<1>1. run' \in Attempt /\ run'.job = run.job /\ run'.pc = "comment"
  BY MoveType DEF InductiveInvariant
<1>2. /\ issue'.status = status /\ issue'.pr = issue.pr
      /\ issue'.checkpoint = issue.checkpoint
  BY DEF SetStatus, InductiveInvariant, TypeOK, Record
<1>3. Existing' = {} /\ ~ Resumable /\ Existing = {}
  BY StillExisting DEF InductiveInvariant, AttemptAgrees, Working
<1>4. TypeOK'
  <2>1. issue' \in Record
    BY DEF SetStatus, InductiveInvariant, TypeOK, Record, Settled
  <2> QED
    BY <1>1, <2>1 DEF InductiveInvariant, TypeOK
<1>5. OneAttempt'
  BY <1>1, AttemptFrame
<1>6. OnePR'
  BY <1>2, <1>3 DEF InductiveInvariant, OnePR
<1>7. CheckpointFirst' /\ OnePublishedSolution'
  BY <1>2, <1>3, BranchFrame
<1>8. AttemptAgrees'
  BY <1>1, <1>2, NoSuccessYet DEF InTheMiddle, AttemptAgrees, Working, Publishing, Settled
<1>9. RecordAgreesWithGitHub'
  BY <1>2 DEF RecordAgreesWithGitHub
<1> QED
  BY <1>4, <1>5, <1>6, <1>7, <1>8, <1>9 DEF InductiveInvariant

LEMMA ClassifyPreserves ==
    ASSUME InductiveInvariant, NEW actionable \in BOOLEAN, Classify(actionable)
    PROVE  InductiveInvariant'
<1>1. CASE actionable
  <2>1. run' \in Attempt /\ run'.job = run.job /\ run'.pc = "generate"
    BY <1>1, MoveType DEF Classify, InductiveInvariant
  <2>2. issue'.status = "generating" /\ issue'.checkpoint = issue.checkpoint
    BY <1>1 DEF Classify, SetStatus, InductiveInvariant, TypeOK, Record
  <2>3. \A j \in Jobs : phase'[j] # "succeeded"
    BY NoSuccessYet DEF Classify, InTheMiddle
  <2>4. Existing' = Existing
    BY StillExisting DEF Classify
  <2>5. AttemptAgrees'
    BY <2>1, <2>2, <2>3, <2>4
       DEF Classify, InductiveInvariant, AttemptAgrees, Working, Publishing, Resumable, Settled
  <2> QED
    BY <1>1, <2>1, <2>5, StatusPreserves DEF Classify
<1>2. CASE ~ actionable
  BY <1>2, SettlingPreserves DEF Classify
<1> QED
  BY <1>1, <1>2

LEMMA LowConfidencePreserves ==
    ASSUME InductiveInvariant, LowConfidence
    PROVE  InductiveInvariant'
  BY SettlingPreserves DEF LowConfidence

\* No branch has a commit of DevInbox's yet, so any solution will do.
LEMMA SaveCheckpointPreserves ==
    ASSUME InductiveInvariant, NEW b \in Shas, NEW p \in Patches, SaveCheckpoint(b, p)
    PROVE  InductiveInvariant'
<1>1. run' \in Attempt /\ run'.job = run.job /\ run'.pc = "publish"
  BY MoveType DEF SaveCheckpoint, InductiveInvariant
<1>2. /\ issue'.checkpoint = Commit(b, p) /\ issue'.pr = issue.pr
      /\ issue'.status = issue.status
  BY DEF SaveCheckpoint, InductiveInvariant, TypeOK, Record
<1>3. Commit(b, p) \in Commits /\ Commit(b, p) # None
  BY CommitType
<1>4. /\ ~ Resumable /\ Existing' = {} /\ issue.status \notin Settled
      /\ \A r \in Repos : branch[r] \in {None, Foreign}
  BY StillExisting
     DEF SaveCheckpoint, InductiveInvariant, AttemptAgrees, CheckpointFirst, Working
<1>5. TypeOK'
  <2>1. issue' \in Record
    BY <1>3 DEF SaveCheckpoint, InductiveInvariant, TypeOK, Record
  <2> QED
    BY <1>1, <2>1 DEF SaveCheckpoint, InductiveInvariant, TypeOK
<1>6. OneAttempt'
  BY <1>1, AttemptFrame DEF SaveCheckpoint
<1>7. OnePR' /\ RecordAgreesWithGitHub'
  BY <1>2, PRFrame DEF SaveCheckpoint
<1>8. CheckpointFirst' /\ OnePublishedSolution'
  BY <1>2, <1>3, <1>4
     DEF SaveCheckpoint, CheckpointFirst, OnePublishedSolution, Resumable, Settled
<1>9. AttemptAgrees'
  BY <1>1, <1>2, <1>3, <1>4, NoSuccessYet
     DEF SaveCheckpoint, InTheMiddle, AttemptAgrees, Working, Publishing, Resumable
<1> QED
  BY <1>5, <1>6, <1>7, <1>8, <1>9 DEF InductiveInvariant

-----------------------------------------------------------------------------
(***************************************************************************)
(* _publish_checkpoint: everything that is pushed comes from the           *)
(* checkpoint, and there is no pull request until this attempt opens one.  *)
(***************************************************************************)
\* A step that only looks, on the way to the pull request.
LEMMA LookingPreserves ==
    ASSUME InductiveInvariant, run.pc \in Publishing,
           run' \in Attempt, run'.job = run.job, run'.pc \in Publishing,
           UNCHANGED <<phase, attempts, issue, branch, prs, merger>>
    PROVE  InductiveInvariant'
<1>1. run.pc # "idle" /\ run'.pc # "idle"
  BY DEF Publishing
<1>2. \A j \in Jobs : phase'[j] # "succeeded"
  BY NoSuccessYet DEF InTheMiddle, Publishing
<1>3. AttemptAgrees'
  BY <1>2, StillExisting
     DEF InductiveInvariant, AttemptAgrees, Working, Publishing, Resumable
<1> QED
  BY <1>1, <1>3, RunPreserves

LEMMA WorkOnPreserves ==
    ASSUME InductiveInvariant, NEW r \in Repos, WorkOn(r)
    PROVE  InductiveInvariant'
<1>1. run' \in Attempt /\ run'.job = run.job /\ run'.pc = "ref"
  BY DEF WorkOn, InductiveInvariant, TypeOK, Attempt
<1> QED
  BY <1>1, LookingPreserves DEF WorkOn, Publishing

LEMMA FindRefPreserves ==
    ASSUME InductiveInvariant, FindRef
    PROVE  InductiveInvariant'
<1>1. \E pc \in {"create_ref", "commit"} : GoTo(pc)
  BY DEF FindRef
<1>2. run' \in Attempt /\ run'.job = run.job /\ run'.pc \in {"create_ref", "commit"}
  BY <1>1, MoveType DEF InductiveInvariant
<1> QED
  BY <1>2, LookingPreserves DEF FindRef, Publishing

LEMMA InspectHeadPreserves ==
    ASSUME InductiveInvariant, InspectHead
    PROVE  InductiveInvariant'
<1>1. CASE Fails("retry") \/ Fails("fatal")
  BY <1>1, FailingPreserves DEF InspectHead, InTheMiddle
<1>2. ASSUME NEW pc \in {"edit", "pr"}, GoTo(pc),
             UNCHANGED <<phase, attempts, issue, branch, prs, merger>>
      PROVE  InductiveInvariant'
  <2>1. run' \in Attempt /\ run'.job = run.job /\ run'.pc = pc
    BY <1>2, MoveType DEF InductiveInvariant
  <2> QED
    BY <1>2, <2>1, LookingPreserves DEF InspectHead, Publishing
<1> QED
  BY <1>1, <1>2 DEF InspectHead

\* The record of an attempt that is publishing: as it was, or FAILED.
KeepsOrFails == UNCHANGED issue \/ SetStatus("failed")

LEMMA KeepsOrFailsType ==
    ASSUME TypeOK, KeepsOrFails
    PROVE  /\ issue' \in Record /\ issue'.pr = issue.pr
           /\ issue'.checkpoint = issue.checkpoint
           /\ issue'.status = issue.status \/ issue'.status = "failed"
  BY DEF KeepsOrFails, SetStatus, TypeOK, Record

\* A push, whether its answer arrives or not.
Pushes ==
    /\ run.pc \in Publishing
    /\ SetBranch(Base) \/ SetBranch(issue.checkpoint)
    /\ KeepsOrFails
    /\ UNCHANGED <<phase, attempts, prs, merger>>

LEMMA PushPreserves ==
    ASSUME InductiveInvariant, Pushes, run' \in Attempt, run'.job = run.job,
           \/ run'.pc \in Publishing /\ UNCHANGED issue
           \/ run'.pc = "end" /\ run'.verdict = "retry"
    PROVE  InductiveInvariant'
<1>1. Resumable /\ Existing = {} /\ issue.status \notin Settled
  BY DEF Pushes, InductiveInvariant, AttemptAgrees, Working
<1>2. /\ issue' \in Record /\ issue'.pr = issue.pr /\ issue'.checkpoint = issue.checkpoint
      /\ issue'.status = issue.status \/ issue'.status = "failed"
  BY KeepsOrFailsType DEF Pushes, InductiveInvariant
<1>3. "failed" \notin Settled /\ "low_confidence" \in Settled
  BY DEF Settled
<1>4. PICK c \in {Base, issue.checkpoint} : branch' = [branch EXCEPT ![run.work] = c]
  BY DEF Pushes, SetBranch
<1>5. c \in Heads /\ c \notin {None, Foreign}
  BY <1>1, CheckpointType DEF InductiveInvariant
<1>6. branch' \in [Repos -> Heads]
  BY <1>4, <1>5, TypeParts DEF InductiveInvariant
<1>7. TypeOK'
  BY <1>2, <1>6 DEF Pushes, InductiveInvariant, TypeOK, Heads
<1>8. run.pc # "idle" /\ run'.pc # "idle"
  BY DEF Pushes, Publishing
<1>9. OneAttempt'
  BY <1>8, AttemptFrame DEF Pushes
<1>10. OnePR' /\ RecordAgreesWithGitHub'
  BY <1>2, <1>3, PRFrame DEF Pushes
<1>11. CheckpointFirst'
  BY <1>1, <1>2, <1>3 DEF CheckpointFirst, Resumable
<1>12. OnePublishedSolution'
  <2>1. Base' = Base
    BY <1>2 DEF Base
  <2>2. \A r \in Repos : branch'[r] = branch[r] \/ branch'[r] = c
    BY <1>4, TypeParts DEF InductiveInvariant
  <2> QED
    BY <1>2, <2>1, <2>2 DEF InductiveInvariant, OnePublishedSolution
<1>13. AttemptAgrees'
  <2>1. \A j \in Jobs : phase'[j] # "succeeded"
    BY NoSuccessYet DEF Pushes, InTheMiddle, Publishing
  <2>2. Existing' = {}
    BY <1>1, StillExisting DEF Pushes
  <2>3. Resumable' /\ issue'.status \notin Settled
    BY <1>1, <1>2, <1>3 DEF Resumable
  <2> QED
    BY <2>1, <2>2, <2>3 DEF AttemptAgrees, Working, Publishing
<1> QED
  BY <1>7, <1>9, <1>10, <1>11, <1>12, <1>13 DEF InductiveInvariant

LEMMA CreateRefPreserves ==
    ASSUME InductiveInvariant, CreateRef
    PROVE  InductiveInvariant'
<1>1. run' \in Attempt /\ run'.job = run.job /\ run'.pc = "commit"
  BY MoveType DEF CreateRef, InductiveInvariant
<1> QED
  BY <1>1, PushPreserves DEF CreateRef, Pushes, KeepsOrFails, Publishing

LEMMA EditRefPreserves ==
    ASSUME InductiveInvariant, EditRef
    PROVE  InductiveInvariant'
<1>1. run' \in Attempt /\ run'.job = run.job /\ run'.pc = "pr"
  BY MoveType DEF EditRef, InductiveInvariant
<1> QED
  BY <1>1, PushPreserves DEF EditRef, Pushes, KeepsOrFails, Publishing

LEMMA RefRaisesPreserves ==
    ASSUME InductiveInvariant, CreateRefRaises \/ EditRefRaises
    PROVE  InductiveInvariant'
<1>1. run' \in Attempt /\ run'.job = run.job /\ run'.pc = "end" /\ run'.verdict = "retry"
  BY EndType DEF CreateRefRaises, EditRefRaises, InductiveInvariant
<1>2. CASE UNCHANGED branch
  BY <1>2, FailingPreserves DEF CreateRefRaises, EditRefRaises, Fails, InTheMiddle
<1>3. CASE SetBranch(Base) \/ SetBranch(issue.checkpoint)
  BY <1>1, <1>3, PushPreserves
     DEF CreateRefRaises, EditRefRaises, Pushes, KeepsOrFails, Publishing
<1> QED
  BY <1>2, <1>3 DEF CreateRefRaises, EditRefRaises

\* The pull request is opened, whether the answer arrives or not; it is the first.
LEMMA OpenPreserves ==
    ASSUME InductiveInvariant, run.pc = "pr", NEW n \in Numbers, Opened(n),
           UNCHANGED <<phase, attempts, branch, merger>>,
           run' \in Attempt, run'.job = run.job,
           \/ /\ issue' = [issue EXCEPT !.pr = n, !.status = "pr_created"]
              /\ run'.pc = "comment"
           \/ /\ SetStatus("failed")
              /\ run'.pc = "end" /\ run'.verdict = "retry"
    PROVE  InductiveInvariant'
<1>1. Resumable /\ Existing = {} /\ issue.pr = None /\ merger.pc = "idle"
  BY DEF InductiveInvariant, AttemptAgrees, Working, Publishing, OnePR
<1>2. /\ issue' \in Record /\ issue'.checkpoint = issue.checkpoint
      /\ \/ issue'.pr = n /\ issue'.status = "pr_created" /\ run'.pc = "comment"
         \/ issue'.pr = None /\ issue'.status = "failed" /\ run'.pc = "end"
  BY <1>1 DEF InductiveInvariant, TypeOK, Record, SetStatus, Settled
<1>3. [head |-> run.work, state |-> "open"] \in PullRequests
  BY DEF InductiveInvariant, TypeOK, Attempt, PullRequests
<1>4. prs' \in [Numbers -> PullRequests] /\ prs'[n].state = "open"
  BY <1>3, TypeParts DEF Opened, InductiveInvariant
<1>5. Existing' = {n}
  <2>1. \A m \in Numbers : m # n => prs'[m] = prs[m]
    BY TypeParts DEF Opened, InductiveInvariant
  <2> QED
    BY <1>1, <1>4, <2>1 DEF Existing
<1>6. TypeOK'
  BY <1>2, <1>4 DEF InductiveInvariant, TypeOK, PullRequests
<1>7. OneAttempt'
  BY <1>2, AttemptFrame
<1>8. OnePR'
  BY <1>1, <1>2, <1>5 DEF OnePR, Settled
<1>9. CheckpointFirst' /\ OnePublishedSolution'
  BY <1>2, BranchFrame
<1>10. AttemptAgrees'
  BY <1>2, NoSuccessYet DEF InTheMiddle, AttemptAgrees, Working, Publishing, Settled
<1>11. RecordAgreesWithGitHub'
  BY <1>2, <1>4, PipelineAssumption DEF RecordAgreesWithGitHub
<1> QED
  BY <1>6, <1>7, <1>8, <1>9, <1>10, <1>11 DEF InductiveInvariant

LEMMA CreatePRPreserves ==
    ASSUME InductiveInvariant, NEW n \in Numbers, CreatePR(n)
    PROVE  InductiveInvariant'
<1>1. run' \in Attempt /\ run'.job = run.job /\ run'.pc = "comment"
  BY MoveType DEF CreatePR, InductiveInvariant
<1> QED
  BY <1>1, OpenPreserves DEF CreatePR

LEMMA CreatePRFailsPreserves ==
    ASSUME InductiveInvariant, CreatePRFails
    PROVE  InductiveInvariant'
<1>1. run' \in Attempt /\ run'.job = run.job /\ run'.pc = "end" /\ run'.verdict = "retry"
  BY EndType DEF CreatePRFails, InductiveInvariant
<1>2. CASE UNCHANGED prs
  BY <1>2, FailingPreserves DEF CreatePRFails, Fails, InTheMiddle
<1>3. ASSUME NEW n \in Numbers, Opened(n) PROVE InductiveInvariant'
  BY <1>1, <1>3, OpenPreserves DEF CreatePRFails
<1> QED
  BY <1>2, <1>3 DEF CreatePRFails

LEMMA PostCommentPreserves ==
    ASSUME InductiveInvariant, PostComment \/ PostCommentRaises
    PROVE  InductiveInvariant'
<1>1. CASE PostCommentRaises
  BY <1>1, FailingPreserves DEF PostCommentRaises, InTheMiddle
<1>2. CASE PostComment
  <2>1. run' \in Attempt /\ run'.job = run.job /\ run'.pc = "end" /\ run'.verdict = "ok"
    BY <1>2, EndType DEF PostComment, InductiveInvariant
  <2>2. AttemptAgrees'
    BY <1>2, <2>1
       DEF PostComment, InductiveInvariant, AttemptAgrees, Working, Publishing
  <2> QED
    BY <1>2, <2>1, <2>2, RunPreserves DEF PostComment
<1> QED
  BY <1>1, <1>2

LEMMA AttemptPreserves ==
    ASSUME InductiveInvariant, AttemptStep
    PROVE  InductiveInvariant'
<1>1. "upstream" \in Repos /\ "fork" \in Repos
  BY DEF Repos
<1> QED
  BY <1>1, RefusedPreserves, StepFailsPreserves, BeginPreserves, RecoverPreserves,
     NothingToRecoverPreserves, ClassifyPreserves, LowConfidencePreserves,
     SaveCheckpointPreserves, WorkOnPreserves, FindRefPreserves, InspectHeadPreserves,
     CreateRefPreserves, EditRefPreserves, RefRaisesPreserves, CreatePRPreserves,
     CreatePRFailsPreserves, PostCommentPreserves
     DEF AttemptStep, HasWriteAccess, ForkReady

-----------------------------------------------------------------------------
(***************************************************************************)
(* People and the merge job: they change the state of the pull request     *)
(* that is there, and a merged one stays merged.                           *)
(***************************************************************************)
LEMMA PushForeignPreserves ==
    ASSUME InductiveInvariant, NEW r \in Repos, PushForeign(r)
    PROVE  InductiveInvariant'
<1> USE DEF PushForeign, InductiveInvariant
<1>1. TypeOK'
  BY DEF TypeOK
<1>2. \A q \in Repos : branch'[q] = branch[q] \/ branch'[q] = Foreign
  BY DEF TypeOK
<1>3. CheckpointFirst' /\ OnePublishedSolution'
  BY <1>2 DEF CheckpointFirst, OnePublishedSolution, Resumable, Base
<1>4. OnePR' /\ RecordAgreesWithGitHub'
  BY PRFrame
<1>5. OneAttempt' /\ AttemptAgrees'
  BY StillExisting DEF OneAttempt, Unended, AttemptAgrees, Resumable
<1> QED
  BY <1>1, <1>3, <1>4, <1>5

\* Pull requests change their states.
LEMMA PRsPreserve ==
    ASSUME InductiveInvariant, UNCHANGED <<phase, attempts, issue, run>>,
           prs' \in [Numbers -> PullRequests],
           \A n \in Numbers : prs'[n] = NoPR <=> prs[n] = NoPR,
           \A n \in Numbers : prs[n].state = "merged" => prs'[n].state = "merged",
           branch' \in [Repos -> Heads],
           \A r \in Repos : branch'[r] = branch[r] \/ branch'[r] = None,
           merger' \in Merger,
           merger'.pc # "idle" => merger.pc # "idle" /\ merger'.pr = merger.pr,
           merger'.pc = "merged" => merger.pc = "merged" \/ prs'[merger.pr].state = "merged"
    PROVE  InductiveInvariant'
<1> USE DEF InductiveInvariant
<1>1. TypeOK'
  BY DEF TypeOK, PullRequests, Heads, Merger
<1>2. Existing' = Existing
  <2>1. \A n \in Numbers : n \in Existing' <=> prs'[n] # NoPR
    BY DEF Existing, NoPR, PullRequests
  <2>2. \A n \in Numbers : n \in Existing <=> prs[n] # NoPR
    BY ExistingPR
  <2>3. Existing' \subseteq Numbers /\ Existing \subseteq Numbers
    BY DEF Existing
  <2> QED
    BY <2>1, <2>2, <2>3
<1>3. CheckpointFirst' /\ OnePublishedSolution'
  BY DEF CheckpointFirst, OnePublishedSolution, Resumable, Base
<1>4. OneAttempt' /\ AttemptAgrees'
  BY <1>2 DEF OneAttempt, Unended, AttemptAgrees, Resumable
<1>5. OnePR'
  <2>1. merger'.pc = "merged" => prs'[merger'.pr].state = "merged"
    BY DEF OnePR, Existing
  <2> QED
    BY <1>2, <2>1 DEF OnePR
<1>6. RecordAgreesWithGitHub'
  <2>1. issue.pr # None => issue.pr \in Existing'
    BY <1>2 DEF OnePR
  <2> QED
    BY <2>1 DEF RecordAgreesWithGitHub, Existing
<1> QED
  BY <1>1, <1>3, <1>4, <1>5, <1>6

LEMMA PeoplePreserve ==
    ASSUME InductiveInvariant, PeopleStep
    PROVE  InductiveInvariant'
<1> USE DEF InductiveInvariant
<1>1. ASSUME NEW r \in Repos, DeleteBranch(r)
      PROVE  InductiveInvariant'
  <2>1. prs' \in [Numbers -> PullRequests]
    <3>1. ASSUME NEW n \in Numbers, prs[n].state = "open"
          PROVE  [prs[n] EXCEPT !.state = "closed"] \in PullRequests
      BY <3>1, TypeParts DEF PullRequests, NoPR
    <3> QED
      BY <1>1, <3>1, TypeParts DEF DeleteBranch
  <2>2. ASSUME NEW n \in Numbers
        PROVE  /\ prs'[n] = NoPR <=> prs[n] = NoPR
               /\ prs[n].state = "merged" => prs'[n].state = "merged"
    BY <1>1, TypeParts DEF DeleteBranch, PullRequests, NoPR
  <2>3. branch' \in [Repos -> Heads]
    BY <1>1, TypeParts DEF DeleteBranch, Heads
  <2>4. \A q \in Repos : branch'[q] = branch[q] \/ branch'[q] = None
    BY <1>1, TypeParts DEF DeleteBranch
  <2> QED
    BY <1>1, <2>1, <2>2, <2>3, <2>4, TypeParts, PRsPreserve DEF DeleteBranch
<1>2. ASSUME NEW n \in Numbers,
             ReopenPR(n) \/ \E state \in {"closed", "merged"} : ClosePR(n, state)
      PROVE  InductiveInvariant'
  <2>1. PICK state \in {"open", "closed", "merged"} :
            prs' = [prs EXCEPT ![n].state = state]
    BY <1>2 DEF ReopenPR, ClosePR
  <2>2. prs[n].state \in {"open", "closed"}
    BY <1>2 DEF ReopenPR, ClosePR
  <2>3. [prs[n] EXCEPT !.state = state] \in PullRequests /\ prs[n] # NoPR
    BY <2>2, TypeParts DEF PullRequests, NoPR
  <2>4. prs' \in [Numbers -> PullRequests]
    BY <2>1, <2>3, TypeParts
  <2>5. ASSUME NEW m \in Numbers
        PROVE  /\ prs'[m] = NoPR <=> prs[m] = NoPR
               /\ prs[m].state = "merged" => prs'[m].state = "merged"
    <3>1. [prs[n] EXCEPT !.state = state] # NoPR
      BY <2>1, <2>2, <2>3, TypeParts DEF PullRequests, NoPR
    <3> QED
      BY <2>1, <2>2, <2>3, <3>1, TypeParts
  <2>6. UNCHANGED <<phase, attempts, issue, branch, run, merger>>
    BY <1>2 DEF ReopenPR, ClosePR
  <2> QED
    BY <2>4, <2>5, <2>6, TypeParts, PRsPreserve
<1> QED
  BY <1>1, <1>2, PushForeignPreserves DEF PeopleStep

-----------------------------------------------------------------------------
LEMMA MergeJobListsPreserves ==
    ASSUME InductiveInvariant, MergeJobLists
    PROVE  InductiveInvariant'
<1> USE DEF InductiveInvariant, MergeJobLists
<1>1. issue.pr \in Existing
  BY DEF RecordAgreesWithGitHub, OnePR
<1>2. merger' \in Merger /\ merger'.pc = "listed" /\ merger'.pr = issue.pr
  BY <1>1 DEF Merger, Existing
<1>3. TypeOK'
  BY <1>2 DEF TypeOK, Merger
<1>4. OnePR'
  BY <1>1, <1>2, StillExisting DEF OnePR
<1>5. CheckpointFirst' /\ OnePublishedSolution'
  BY BranchFrame
<1>6. OneAttempt' /\ AttemptAgrees' /\ RecordAgreesWithGitHub'
  BY StillExisting DEF OneAttempt, Unended, AttemptAgrees, Resumable, RecordAgreesWithGitHub
<1> QED
  BY <1>3, <1>4, <1>5, <1>6

LEMMA MergeJobMergesPreserves ==
    ASSUME InductiveInvariant, MergeJobMerges
    PROVE  InductiveInvariant'
<1> USE DEF InductiveInvariant, MergeJobMerges
<1>1. merger \in [pc : {"listed", "merged", "merge_conflict"}, pr : Numbers,
                  seen : {"pr_created", "merge_conflict"}]
  BY DEF TypeOK, NotMerging
<1>2. merger' \in Merger /\ merger'.pr = merger.pr /\ merger.pr \in Numbers
  BY <1>1 DEF Merger
<1>3. [prs[merger.pr] EXCEPT !.state = "merged"] \in PullRequests \ {NoPR}
  BY <1>2, TypeParts DEF PullRequests, NoPR
<1>4. prs' \in [Numbers -> PullRequests] /\ prs'[merger.pr].state = "merged"
  BY <1>2, <1>3, TypeParts DEF PullRequests, NoPR
<1>5. ASSUME NEW n \in Numbers
      PROVE  /\ prs'[n] = NoPR <=> prs[n] = NoPR
             /\ prs[n].state = "merged" => prs'[n].state = "merged"
  <2>1. prs[merger.pr] # NoPR
    BY DEF NoPR
  <2> QED
    BY <1>2, <1>3, <1>4, <2>1, TypeParts
<1> QED
  BY <1>2, <1>4, <1>5, TypeParts, PRsPreserve

LEMMA MergeJobStepsPreserve ==
    ASSUME InductiveInvariant, MergeJobMeetsConflict \/ MergeJobGivesUp
    PROVE  InductiveInvariant'
<1>1. /\ merger' \in Merger /\ merger'.pc # "merged"
      /\ merger'.pc # "idle" => merger.pc # "idle" /\ merger'.pr = merger.pr
  <2>1. CASE MergeJobGivesUp
    BY <2>1, NotMergingType DEF MergeJobGivesUp
  <2>2. CASE MergeJobMeetsConflict
    <3>1. merger \in [pc : {"listed", "merged", "merge_conflict"}, pr : Numbers,
                      seen : {"pr_created", "merge_conflict"}]
      BY <2>2 DEF MergeJobMeetsConflict, InductiveInvariant, TypeOK, NotMerging
    <3> QED
      BY <2>2, <3>1 DEF MergeJobMeetsConflict, Merger
  <2> QED
    BY <2>1, <2>2
<1>2. UNCHANGED <<phase, attempts, issue, branch, prs, run>>
  BY DEF MergeJobMeetsConflict, MergeJobGivesUp
<1> QED
  BY <1>1, <1>2, TypeParts, PRsPreserve DEF InductiveInvariant

\* Whatever the record has become meanwhile, it is about the pull request that the
\* merge job has read, and that is true of it.
LEMMA MergeJobRecordsPreserves ==
    ASSUME InductiveInvariant, MergeJobRecords
    PROVE  InductiveInvariant'
<1> USE DEF InductiveInvariant, MergeJobRecords
<1>1. merger.pr \in Existing /\ merger.pr = issue.pr /\ issue.pr \in Numbers
  BY DEF OnePR, Existing
<1>2. merger' \in Merger /\ merger'.pc = "idle"
  BY NotMergingType
<1>3. /\ issue' \in Record /\ issue'.pr = issue.pr /\ issue'.checkpoint = issue.checkpoint
      /\ issue'.status \in {issue.status, merger.pc}
  BY DEF SetStatus, TypeOK, Record, Settled
<1>4. TypeOK'
  BY <1>2, <1>3 DEF TypeOK, Merger
<1>5. OneAttempt'
  BY DEF OneAttempt, Unended
<1>6. OnePR'
  BY <1>1, <1>2, <1>3, StillExisting DEF OnePR
<1>7. CheckpointFirst' /\ OnePublishedSolution'
  BY <1>3, BranchFrame
<1>8. AttemptAgrees'
  <2>1. Existing' # {}
    BY <1>1, StillExisting
  <2>2. issue.status \in Settled => issue'.status \in Settled
    BY <1>3 DEF Settled
  <2>3. Existing # {} /\ Resumable' = Resumable
    BY <1>1, <1>3 DEF Resumable
  <2> QED
    BY <2>1, <2>2, <2>3 DEF AttemptAgrees, Working
<1>9. RecordAgreesWithGitHub'
  <2>1. issue.pr # None /\ prs[issue.pr].state # "none"
    BY <1>1, PipelineAssumption DEF Existing
  <2> QED
    BY <1>1, <1>3, <2>1 DEF RecordAgreesWithGitHub, OnePR
<1> QED
  BY <1>4, <1>5, <1>6, <1>7, <1>8, <1>9

LEMMA MergeJobPreserves ==
    ASSUME InductiveInvariant, MergeJobStep
    PROVE  InductiveInvariant'
  BY MergeJobListsPreserves, MergeJobMergesPreserves, MergeJobStepsPreserve,
     MergeJobRecordsPreserves DEF MergeJobStep

-----------------------------------------------------------------------------
(***************************************************************************)
(* The queue's part.                                                       *)
(***************************************************************************)
\* A step of the ledger.
LEMMA LedgerPreserves ==
    ASSUME InductiveInvariant, UNCHANGED <<issue, branch, prs, merger>>,
           phase' \in [Jobs -> Phases], attempts' \in [Jobs -> 0 .. MaxAttempts],
           run' \in Attempt, OneAttempt', AttemptAgrees'
    PROVE  InductiveInvariant'
<1>1. TypeOK'
  BY DEF InductiveInvariant, TypeOK
<1> QED
  BY <1>1, BranchFrame, PRFrame DEF InductiveInvariant

LEMMA AdmitPreserves ==
    ASSUME InductiveInvariant, NEW j \in Jobs, Admit(j)
    PROVE  InductiveInvariant'
<1> USE DEF InductiveInvariant, Admit, LedgerAdmit
<1>1. phase' \in [Jobs -> Phases]
  BY DEF TypeOK, Phases
<1>2. Unended = {}
  BY PipelineAssumption DEF Unended
<1>3. OneAttempt'
  BY <1>2 DEF OneAttempt, TypeOK, Unended, Unfinished
<1>4. \A i \in Jobs : phase'[i] = "succeeded" => phase[i] = "succeeded"
  BY DEF TypeOK
<1>5. AttemptAgrees'
  BY <1>4, StillExisting DEF AttemptAgrees, Resumable
<1> QED
  BY <1>1, <1>3, <1>5, LedgerPreserves DEF TypeOK

LEMMA StartPreserves ==
    ASSUME InductiveInvariant, NEW j \in Jobs, Start(j)
    PROVE  InductiveInvariant'
<1> USE DEF InductiveInvariant, Start, LedgerStart
<1>1. phase' \in [Jobs -> Phases] /\ attempts' \in [Jobs -> 0 .. MaxAttempts]
  BY PipelineAssumption DEF TypeOK, Phases
<1>2. run' \in Attempt /\ run'.pc = "begin" /\ run'.job = j
  BY DEF Attempt, NotRunning, Repos
<1>3. j \in Unended /\ Unended' = Unended /\ phase'[j] = "running"
  BY DEF TypeOK, Unended, Unfinished
<1>4. OneAttempt'
  <2>1. run.pc = "idle"
    BY <1>3 DEF OneAttempt, Unended, Unfinished
  <2>2. \A i \in Jobs : phase'[i] = "running" => i = j
    BY <1>3, <2>1 DEF OneAttempt, TypeOK
  <2> QED
    BY <1>2, <1>3, <2>2 DEF OneAttempt
<1>5. \A i \in Jobs : phase'[i] = "succeeded" => phase[i] = "succeeded"
  BY DEF TypeOK
<1>6. AttemptAgrees'
  BY <1>2, <1>5 DEF AttemptAgrees, Working, Publishing
<1> QED
  BY <1>1, <1>2, <1>4, <1>6, LedgerPreserves

\* The attempt is over, for its job or with its horse; success means settled.
LEMMA EndPreserves ==
    ASSUME InductiveInvariant, run.pc # "idle", NEW p \in {"waiting", "failed", "succeeded"},
           phase' = [phase EXCEPT ![run.job] = p], run' = NotRunning,
           p = "succeeded" => issue.status \in Settled,
           UNCHANGED <<attempts, issue, branch, prs, merger>>
    PROVE  InductiveInvariant'
<1> USE DEF InductiveInvariant
<1>1. phase' \in [Jobs -> Phases]
  BY DEF TypeOK, Phases
<1>2. Unended' \subseteq Unended
  BY DEF OneAttempt, TypeOK, Unended, Unfinished
<1>3. \A j \in Jobs : phase'[j] # "running"
  BY DEF OneAttempt, TypeOK
<1>4. OneAttempt'
  BY <1>2, <1>3, NotRunningType DEF OneAttempt
<1>5. \A j \in Jobs : phase'[j] = "succeeded" => phase[j] = "succeeded" \/ p = "succeeded"
  BY DEF TypeOK
<1>6. AttemptAgrees'
  BY <1>5, NotRunningType DEF AttemptAgrees, Working, Publishing
<1> QED
  BY <1>1, <1>4, <1>6, NotRunningType, LedgerPreserves DEF TypeOK

LEMMA FinishPreserves ==
    ASSUME InductiveInvariant, Finish
    PROVE  InductiveInvariant'
<1>1. run.verdict \in {"ok", "retry", "fatal"}
  BY DEF InductiveInvariant, TypeOK, Attempt
<1> DEFINE p == PhaseAfter(run.verdict, attempts[run.job])
<1>2. p \in {"waiting", "failed", "succeeded"} /\ (p = "succeeded" => run.verdict = "ok")
  BY <1>1, PhaseAfterType
<1>3. run.verdict = "ok" => issue.status \in Settled
  BY DEF Finish, InductiveInvariant, AttemptAgrees
<1>4. phase' = [phase EXCEPT ![run.job] = p]
  BY DEF Finish, LedgerEnd
<1> HIDE DEF p
<1> QED
  BY <1>2, <1>3, <1>4, EndPreserves DEF Finish, LedgerEnd

LEMMA CrashPreserves ==
    ASSUME InductiveInvariant, Crash
    PROVE  InductiveInvariant'
<1> DEFINE p == IF attempts[run.job] < MaxAttempts THEN "waiting" ELSE "failed"
<1>1. phase' = [phase EXCEPT ![run.job] = p]
  BY DEF Crash, LedgerLose, InductiveInvariant, TypeOK
<1>2. p \in {"waiting", "failed", "succeeded"} /\ p # "succeeded"
  OBVIOUS
<1> HIDE DEF p
<1> QED
  BY <1>1, <1>2, EndPreserves DEF Crash, LedgerLose

LEMMA NextPreserves ==
    InductiveInvariant /\ [Next]_vars => InductiveInvariant'
<1> SUFFICES ASSUME InductiveInvariant, [Next]_vars PROVE InductiveInvariant'
  OBVIOUS
<1>1. CASE UNCHANGED vars
  BY <1>1, StillExisting
     DEF vars, InductiveInvariant, TypeOK, OneAttempt, Unended, OnePR, CheckpointFirst,
         Resumable, AttemptAgrees, OnePublishedSolution, Base, RecordAgreesWithGitHub
<1>2. CASE Next
  BY <1>2, AdmitPreserves, StartPreserves, AttemptPreserves, FinishPreserves,
     CrashPreserves, PeoplePreserve, MergeJobPreserves DEF Next
<1> QED
  BY <1>1, <1>2

\* The record, the attempt, the queue and GitHub's data agree in every reachable
\* state, whatever was lost, repeated or done by others in between.
THEOREM InvariantHolds == Spec => []InductiveInvariant
  BY InitInvariant, NextPreserves, PTL DEF Spec

\* However often answers are lost, horses die and jobs are replayed, one pull
\* request is opened for the issue (agent_orchestrator.py:56-62, 215-224).
THEOREM AtMostOnePRHolds == Spec => []AtMostOnePR
<1>1. ASSUME InductiveInvariant PROVE AtMostOnePR
  <2>1. {n \in Numbers : prs[n] # NoPR} = Existing
    BY <1>1, ExistingPR DEF InductiveInvariant, Existing
  <2>2. CASE Existing = {}
    BY <2>1, <2>2, FS_EmptySet DEF AtMostOnePR
  <2>3. ASSUME NEW n \in Existing PROVE Cardinality(Existing) = 1
    <3>1. Existing = {n}
      BY <1>1, <2>3 DEF InductiveInvariant, OnePR
    <3> QED
      BY <3>1, FS_Singleton
  <2> QED
    BY <2>1, <2>2, <2>3 DEF AtMostOnePR
<1> QED
  BY <1>1, InvariantHolds, PTL

\* No retry publishes a second solution (agent_orchestrator.py:141-145, github_service.py:282-317).
THEOREM OnePublishedSolutionHolds == Spec => []OnePublishedSolution
<1>1. InductiveInvariant => OnePublishedSolution
  BY DEF InductiveInvariant
<1> QED
  BY <1>1, InvariantHolds, PTL

\* The record that both jobs write tells the truth about the pull request
\* (agent_orchestrator.py:61, 224, 313).
THEOREM RecordAgreesHolds == Spec => []RecordAgreesWithGitHub
<1>1. InductiveInvariant => RecordAgreesWithGitHub
  BY DEF InductiveInvariant
<1> QED
  BY <1>1, InvariantHolds, PTL

\* A stop for low confidence leaves no trace on GitHub but a comment
\* (agent_orchestrator.py:259-287).
THEOREM QuietWhenUnsureHolds == Spec => []QuietWhenUnsure
<1>1. ASSUME InductiveInvariant PROVE QuietWhenUnsure
  BY <1>1, ExistingPR DEF InductiveInvariant, QuietWhenUnsure, CheckpointFirst, OnePR
<1> QED
  BY <1>1, InvariantHolds, PTL

\* After a success the issue is settled, and an open pull request is on record.
THEOREM SuccessMeansSettledHolds == Spec => []SuccessMeansSettled
<1>1. ASSUME InductiveInvariant PROVE SuccessMeansSettled
  <2>1. SUFFICES ASSUME NEW j \in Jobs, phase[j] = "succeeded"
                 PROVE  /\ issue.status \in Settled
                        /\ \A n \in Numbers : prs[n].state = "open" =>
                             /\ issue.pr = n
                             /\ issue.status \in {"pr_created", "merge_conflict", "closed"}
    BY DEF SuccessMeansSettled
  <2>2. issue.status \in Settled
    BY <1>1, <2>1 DEF InductiveInvariant, AttemptAgrees
  <2>3. ASSUME NEW n \in Numbers, prs[n].state = "open"
        PROVE  /\ issue.pr = n
               /\ issue.status \in {"pr_created", "merge_conflict", "closed"}
    <3>1. n \in Existing
      BY <2>3 DEF Existing
    <3>2. issue.pr = n /\ issue.status # "low_confidence"
      BY <1>1, <2>2, <3>1 DEF InductiveInvariant, OnePR
    <3>3. issue.status # "merged"
      BY <1>1, <2>3, <3>2 DEF InductiveInvariant, RecordAgreesWithGitHub
    <3> QED
      BY <2>2, <3>2, <3>3 DEF Settled
  <2> QED
    BY <2>2, <2>3
<1> QED
  BY <1>1, InvariantHolds, PTL

-----------------------------------------------------------------------------
\* A push goes to a branch that is not there, or is at the base.
LEMMA PushesAside ==
    ASSUME InductiveInvariant, AttemptStep
    PROVE  \/ UNCHANGED branch
           \/ /\ Resumable /\ run.work \in Repos
              /\ \/ branch[run.work] = None /\ SetBranch(Base)
                 \/ branch[run.work] = Base /\ SetBranch(issue.checkpoint)
<1>1. run.work \in Repos
  BY DEF InductiveInvariant, TypeOK, Attempt
<1>2. run.pc \in {"create_ref", "edit"} => Resumable
  BY DEF InductiveInvariant, AttemptAgrees, Publishing
<1>3. CASE CreateRef \/ CreateRefRaises
  BY <1>1, <1>2, <1>3 DEF CreateRef, CreateRefRaises
<1>4. CASE EditRef \/ EditRefRaises
  BY <1>1, <1>2, <1>4 DEF EditRef, EditRefRaises, FastForward
<1>5. CASE UNCHANGED branch
  BY <1>5
<1> QED
  BY <1>3, <1>4, <1>5 DEF AttemptStep, Refused, StepFails, Fails, Begin, Recover,
     NothingToRecover, Classify, LowConfidence, SaveCheckpoint, HasWriteAccess, ForkReady,
     WorkOn, FindRef, InspectHead, CreatePR, CreatePRFails, PostComment, PostCommentRaises

\* DevInbox never moves a branch that somebody else has committed to
\* (github_service.py:285-308, 316: "force=False").
THEOREM ForeignCommitsSurviveHolds == Spec => ForeignCommitsSurvive
<1>1. ASSUME InductiveInvariant, [Next]_vars
      PROVE  [\A r \in Repos : branch[r] = Foreign => branch'[r] \in {Foreign, None}]_vars
  <2>1. SUFFICES ASSUME NEW r \in Repos, branch[r] = Foreign
                 PROVE  branch'[r] \in {Foreign, None}
    OBVIOUS
  <2>2. CASE UNCHANGED branch
    BY <2>1, <2>2
  <2>3. CASE AttemptStep /\ ~ UNCHANGED branch
    <3>1. branch[run.work] \in {None, Base} /\ Resumable
      BY <1>1, <2>3, PushesAside
    <3>2. Foreign \notin {None, Base}
      BY <1>1, <3>1, CheckpointType, PipelineAssumption DEF InductiveInvariant
    <3>3. r # run.work
      BY <2>1, <3>1, <3>2
    <3> QED
      BY <1>1, <2>1, <2>3, <3>3, PushesAside, TypeParts DEF InductiveInvariant, SetBranch
  <2>4. CASE PeopleStep
    BY <1>1, <2>1, <2>4, TypeParts
       DEF PeopleStep, PushForeign, DeleteBranch, ReopenPR, ClosePR, InductiveInvariant
  <2>5. CASE \/ UNCHANGED vars \/ Finish \/ Crash \/ MergeJobStep
             \/ \E j \in Jobs : Admit(j) \/ Start(j)
    BY <2>2, <2>5 DEF vars, Finish, Crash, MergeJobStep, MergeJobLists, MergeJobMerges,
       MergeJobMeetsConflict, MergeJobRecords, MergeJobGivesUp, Admit, Start
  <2> QED
    BY <1>1, <2>2, <2>3, <2>4, <2>5 DEF Next
<1> QED
  BY <1>1, InvariantHolds, PTL DEF Spec, ForeignCommitsSurvive

-----------------------------------------------------------------------------
(***************************************************************************)
(* The issue job uses the queue as JobLedger says.                         *)
(***************************************************************************)
LEMMA AttemptLeavesLedger ==
    ASSUME AttemptStep \/ PeopleStep \/ MergeJobStep
    PROVE  UNCHANGED ledger
<1>1. CASE AttemptStep
  BY <1>1 DEF ledger, AttemptStep, Refused, StepFails, Fails, Begin, Recover,
     NothingToRecover, Classify, LowConfidence, SaveCheckpoint, HasWriteAccess, ForkReady,
     WorkOn, FindRef, CreateRef, CreateRefRaises, InspectHead, EditRef, EditRefRaises,
     CreatePR, CreatePRFails, PostComment, PostCommentRaises
<1>2. CASE PeopleStep \/ MergeJobStep
  BY <1>2 DEF ledger, PeopleStep, PushForeign, DeleteBranch, ReopenPR, ClosePR,
     MergeJobStep, MergeJobLists, MergeJobMerges, MergeJobMeetsConflict, MergeJobRecords,
     MergeJobGivesUp
<1> QED
  BY <1>1, <1>2

LEMMA LedgerSteps == InductiveInvariant /\ [Next]_vars => [LedgerNext]_ledger
<1> SUFFICES ASSUME InductiveInvariant, [Next]_vars
             PROVE  LedgerNext \/ UNCHANGED ledger
  OBVIOUS
<1>1. ASSUME NEW j \in Jobs, Admit(j) \/ Start(j) PROVE LedgerNext
  BY <1>1 DEF Admit, Start, LedgerNext
<1>2. CASE Finish
  <2>1. run.job \in Jobs /\ run.verdict \in {"ok", "retry", "fatal"}
    BY <1>2 DEF Finish, InductiveInvariant, OneAttempt, TypeOK, Attempt
  <2>2. PhaseAfter(run.verdict, attempts[run.job]) \in Phases
    BY <2>1, PhaseAfterType DEF Phases
  <2> QED
    BY <1>2, <2>1, <2>2 DEF Finish, LedgerNext
<1>3. CASE Crash
  <2>1. {run.job} \in SUBSET Jobs
    BY <1>3 DEF Crash, InductiveInvariant, OneAttempt
  <2> QED
    BY <1>3, <2>1 DEF Crash, LedgerNext
<1>4. CASE UNCHANGED vars
  BY <1>4 DEF vars, ledger
<1> QED
  BY <1>1, <1>2, <1>3, <1>4, AttemptLeavesLedger DEF Next

\* Attempts move their jobs only as the ledger allows, which is what the queue
\* implements (worker_jobs.py:77-116).
THEOREM IssueJobsUseLedger == Spec => LedgerSpec
<1>1. Init => LedgerInit
  BY DEF Init
<1> QED
  BY <1>1, LedgerSteps, InvariantHolds, PTL DEF Spec, LedgerSpec

-----------------------------------------------------------------------------
(***************************************************************************)
(* The pipeline implements the abstract publication.                       *)
(***************************************************************************)
Shown == {r \in Repos : issue.checkpoint # None /\ branch[r] = issue.checkpoint}
Opens == {n \in Numbers : prs[n] # NoPR}

LEMMA PromiseInitially == Init => Promise!Init
  BY DEF Init, Promise!Init, NoRecord, NoPR

\* Steps that change neither the branches nor the solution, nor the pull request on
\* record, and at most the state of the one that is there.
LEMMA PromiseFrame ==
    ASSUME Shown' = Shown, Opens' = Opens,
           issue'.checkpoint = issue.checkpoint, issue'.pr = issue.pr
    PROVE  UNCHANGED Promise!vars
  BY DEF Promise!vars, Shown, Opens

LEMMA ShownFrame ==
    UNCHANGED branch /\ issue'.checkpoint = issue.checkpoint => Shown' = Shown
  BY DEF Shown

LEMMA OpensFrame == UNCHANGED prs => Opens' = Opens
  BY DEF Opens

\* The steps that set at most the status of the record.
LEMMA StatusKeepsPromise ==
    ASSUME TypeOK, UNCHANGED <<branch, prs>>,
           UNCHANGED issue \/ \E status : SetStatus(status)
    PROVE  UNCHANGED Promise!vars
<1>1. issue'.checkpoint = issue.checkpoint /\ issue'.pr = issue.pr
  BY DEF SetStatus, TypeOK, Record
<1> QED
  BY <1>1, PromiseFrame, ShownFrame, OpensFrame

LEMMA DecidingKeepsPromise ==
    ASSUME InductiveInvariant, NEW b \in Shas, NEW p \in Patches, SaveCheckpoint(b, p)
    PROVE  Promise!Decide(Commit(b, p))
<1>1. issue'.checkpoint = Commit(b, p) /\ issue'.pr = issue.pr
  BY DEF SaveCheckpoint, InductiveInvariant, TypeOK, Record
<1>2. issue.checkpoint = None /\ \A r \in Repos : branch[r] \in {None, Foreign}
  BY DEF SaveCheckpoint, InductiveInvariant, AttemptAgrees, CheckpointFirst, Resumable
<1>3. Commit(b, p) \notin {None, Foreign}
  BY CommitType
<1>4. Shown = {} /\ Shown' = {}
  BY <1>1, <1>2, <1>3 DEF SaveCheckpoint, Shown
<1>5. Opens' = Opens
  BY OpensFrame DEF SaveCheckpoint
<1> QED
  BY <1>1, <1>2, <1>4, <1>5 DEF Promise!Decide, Shown, Opens

LEMMA PushingKeepsPromise ==
    ASSUME InductiveInvariant, Resumable, NEW r \in Repos, r = run.work,
           \/ branch[run.work] = None /\ SetBranch(Base)
           \/ branch[run.work] = Base /\ SetBranch(issue.checkpoint),
           UNCHANGED prs, UNCHANGED issue \/ SetStatus("failed")
    PROVE  Promise!Show(r) \/ UNCHANGED Promise!vars
<1>1. issue'.checkpoint = issue.checkpoint /\ issue'.pr = issue.pr
  BY DEF SetStatus, InductiveInvariant, TypeOK, Record
<1>2. issue.checkpoint # None /\ Base # issue.checkpoint
  BY CheckpointType DEF InductiveInvariant
<1>3. Opens' = Opens
  BY OpensFrame
<1>4. CASE branch[run.work] = None /\ SetBranch(Base)
  <2>1. Shown' = Shown
    BY <1>1, <1>2, <1>4, TypeParts DEF Shown, SetBranch, InductiveInvariant
  <2> QED
    BY <1>1, <1>3, <2>1, PromiseFrame
<1>5. CASE branch[run.work] = Base /\ SetBranch(issue.checkpoint)
  <2>1. Shown' = Shown \cup {r}
    BY <1>1, <1>2, <1>5, TypeParts DEF Shown, SetBranch, InductiveInvariant
  <2> QED
    BY <1>1, <1>2, <1>3, <2>1 DEF Promise!Show, Shown, Opens
<1> QED
  BY <1>4, <1>5

LEMMA OpeningKeepsPromise ==
    ASSUME InductiveInvariant, run.pc = "pr", NEW n \in Numbers, Opened(n),
           UNCHANGED branch,
           \/ issue' = [issue EXCEPT !.pr = n, !.status = "pr_created"]
           \/ SetStatus("failed")
    PROVE  Promise!Open(n)
<1>1. Resumable /\ Existing = {}
  BY DEF InductiveInvariant, AttemptAgrees, Working, Publishing
<1>2. issue'.checkpoint = issue.checkpoint /\ issue'.pr \in {issue.pr, n}
  BY DEF SetStatus, InductiveInvariant, TypeOK, Record
<1>3. Opens = {}
  BY <1>1, ExistingPR DEF Opens, InductiveInvariant
<1>4. Opens' = {n}
  <2>1. prs'[n] # NoPR /\ \A m \in Numbers : m # n => prs'[m] = prs[m]
    BY TypeParts DEF Opened, InductiveInvariant, NoPR
  <2> QED
    BY <1>3, <2>1 DEF Opens
<1>5. Shown' = Shown
  BY <1>2, ShownFrame
<1> QED
  BY <1>1, <1>2, <1>3, <1>4, <1>5 DEF Promise!Open, Shown, Opens, Resumable

LEMMA RecoveringKeepsPromise ==
    ASSUME InductiveInvariant, NEW n \in Numbers, Recover(n)
    PROVE  Promise!Remember(n)
<1>1. issue'.checkpoint = issue.checkpoint /\ issue'.pr = n
  BY DEF Recover, InductiveInvariant, TypeOK, Record
<1>2. n \in Opens
  BY ExistingPR DEF Recover, InductiveInvariant, Opens
<1>3. Shown' = Shown /\ Opens' = Opens
  BY <1>1, ShownFrame, OpensFrame DEF Recover
<1> QED
  BY <1>1, <1>2, <1>3 DEF Promise!Remember, Shown, Opens

LEMMA AttemptKeepsPromise ==
    ASSUME InductiveInvariant, AttemptStep
    PROVE  Promise!Next \/ UNCHANGED Promise!vars
<1> USE DEF Promise!Next
<1>1. ASSUME NEW b \in Shas, NEW p \in Patches, SaveCheckpoint(b, p)
      PROVE  Promise!Next
  BY <1>1, CommitType, DecidingKeepsPromise
<1>2. CASE CreateRef \/ CreateRefRaises \/ EditRef \/ EditRefRaises
  <2>1. CASE UNCHANGED branch
    BY <1>2, <2>1, StatusKeepsPromise
       DEF CreateRef, CreateRefRaises, EditRef, EditRefRaises, InductiveInvariant
  <2>2. CASE ~ UNCHANGED branch
    <3>1. UNCHANGED prs /\ (UNCHANGED issue \/ SetStatus("failed"))
      BY <1>2 DEF CreateRef, CreateRefRaises, EditRef, EditRefRaises
    <3>2. /\ Resumable /\ run.work \in Repos
          /\ \/ branch[run.work] = None /\ SetBranch(Base)
             \/ branch[run.work] = Base /\ SetBranch(issue.checkpoint)
      BY <2>2, PushesAside
    <3>3. PICK r \in Repos : r = run.work
      BY <3>2
    <3>4. Promise!Show(r) \/ UNCHANGED Promise!vars
      BY <3>1, <3>2, <3>3, PushingKeepsPromise
    <3> QED
      BY <3>4
  <2> QED
    BY <2>1, <2>2
<1>3. ASSUME NEW n \in Numbers, CreatePR(n)
      PROVE  Promise!Next
  BY <1>3, OpeningKeepsPromise DEF CreatePR
<1>4. CASE CreatePRFails
  <2>1. CASE UNCHANGED prs
    BY <1>4, <2>1, StatusKeepsPromise DEF CreatePRFails, InductiveInvariant
  <2>2. ASSUME NEW n \in Numbers, Opened(n) PROVE Promise!Next
    BY <1>4, <2>2, OpeningKeepsPromise DEF CreatePRFails
  <2> QED
    BY <1>4, <2>1, <2>2 DEF CreatePRFails
<1>5. ASSUME NEW n \in Numbers, Recover(n) PROVE Promise!Next
  BY <1>5, RecoveringKeepsPromise
<1>6. ASSUME UNCHANGED <<branch, prs>>, UNCHANGED issue \/ \E status : SetStatus(status)
      PROVE  UNCHANGED Promise!vars
  BY <1>6, StatusKeepsPromise DEF InductiveInvariant
<1>7. ASSUME \/ Begin \/ NothingToRecover \/ LowConfidence \/ HasWriteAccess \/ ForkReady
             \/ FindRef \/ InspectHead \/ PostComment \/ PostCommentRaises
             \/ \E verdict \in {"retry", "fatal"} : Refused(verdict) \/ StepFails(verdict)
             \/ \E actionable \in BOOLEAN : Classify(actionable)
      PROVE  UNCHANGED <<branch, prs>> /\ (UNCHANGED issue \/ \E status : SetStatus(status))
  BY <1>7 DEF Begin, NothingToRecover, LowConfidence, HasWriteAccess, ForkReady, WorkOn,
     FindRef, InspectHead, PostComment, PostCommentRaises, Refused, StepFails, Fails,
     Classify
<1> QED
  BY <1>1, <1>2, <1>3, <1>4, <1>5, <1>6, <1>7 DEF AttemptStep

LEMMA PeopleKeepPromise ==
    ASSUME InductiveInvariant, PeopleStep
    PROVE  Promise!Next \/ UNCHANGED Promise!vars
<1>1. ASSUME NEW r \in Repos, PushForeign(r) \/ DeleteBranch(r)
      PROVE  Promise!TakeAway(r)
  <2>1. branch' = [branch EXCEPT ![r] = Foreign] \/ branch' = [branch EXCEPT ![r] = None]
    BY <1>1 DEF PushForeign, DeleteBranch
  <2>2. issue.checkpoint # None => issue.checkpoint # Foreign
    BY CheckpointType DEF InductiveInvariant, Resumable
  <2>3. UNCHANGED issue
    BY <1>1 DEF PushForeign, DeleteBranch
  <2>4. Shown' = Shown \ {r}
    BY <2>1, <2>2, <2>3, TypeParts DEF Shown, InductiveInvariant
  <2>5. \A n \in Numbers : prs'[n] # NoPR <=> prs[n] # NoPR
    BY <1>1, TypeParts DEF PushForeign, DeleteBranch, PullRequests, NoPR, InductiveInvariant
  <2> QED
    BY <2>3, <2>4, <2>5 DEF Promise!TakeAway, Shown
<1>2. ASSUME NEW n \in Numbers,
             ReopenPR(n) \/ \E state \in {"closed", "merged"} : ClosePR(n, state)
      PROVE  UNCHANGED Promise!vars
  <2>1. UNCHANGED <<issue, branch>>
    BY <1>2 DEF ReopenPR, ClosePR
  <2>2. \A m \in Numbers : prs'[m] # NoPR <=> prs[m] # NoPR
    BY <1>2, TypeParts DEF ReopenPR, ClosePR, PullRequests, NoPR, InductiveInvariant
  <2> QED
    BY <2>1, <2>2, ShownFrame, PromiseFrame DEF Opens
<1> QED
  BY <1>1, <1>2 DEF PeopleStep, Promise!Next

LEMMA MergeJobKeepsPromise ==
    ASSUME InductiveInvariant, MergeJobStep
    PROVE  UNCHANGED Promise!vars
<1>1. CASE MergeJobMerges
  <2>1. UNCHANGED <<issue, branch>>
    BY <1>1 DEF MergeJobMerges
  <2>2. \A m \in Numbers : prs'[m] # NoPR <=> prs[m] # NoPR
    BY <1>1, TypeParts DEF MergeJobMerges, PullRequests, NoPR, InductiveInvariant
  <2> QED
    BY <2>1, <2>2, ShownFrame, PromiseFrame DEF Opens
<1>2. CASE MergeJobLists \/ MergeJobMeetsConflict \/ MergeJobRecords \/ MergeJobGivesUp
  <2>1. UNCHANGED <<branch, prs>> /\ (UNCHANGED issue \/ SetStatus(merger.pc))
    BY <1>2 DEF MergeJobLists, MergeJobMeetsConflict, MergeJobRecords, MergeJobGivesUp
  <2> QED
    BY <2>1, StatusKeepsPromise DEF InductiveInvariant
<1> QED
  BY <1>1, <1>2 DEF MergeJobStep

LEMMA PromiseSteps ==
    InductiveInvariant /\ [Next]_vars => [Promise!Next]_(Promise!vars)
<1> SUFFICES ASSUME InductiveInvariant, [Next]_vars
             PROVE  Promise!Next \/ UNCHANGED Promise!vars
  OBVIOUS
<1>1. CASE \/ UNCHANGED vars \/ Finish \/ Crash
           \/ \E j \in Jobs : Admit(j) \/ Start(j)
  <2>1. UNCHANGED <<issue, branch, prs>>
    BY <1>1 DEF vars, Finish, Crash, Admit, Start
  <2> QED
    BY <2>1, StatusKeepsPromise DEF InductiveInvariant
<1> QED
  BY <1>1, AttemptKeepsPromise, PeopleKeepPromise, MergeJobKeepsPromise DEF Next

\* With all its crashes, replays, lost answers and interference, the pipeline decides
\* once, shows that solution or none, opens one pull request and remembers no other
\* (HARDENING.md:15-16, agent_orchestrator.py:44-240).
THEOREM Refinement == Spec => ImplementsPublication
  BY PromiseInitially, PromiseSteps, InvariantHolds, PTL
     DEF Spec, ImplementsPublication, Promise!Spec
=============================================================================
