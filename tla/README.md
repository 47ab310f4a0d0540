# DevInbox in TLA+

DevInbox turns labelled GitHub issues into draft pull requests, and approved pull
requests into merges.  What makes it hard is not the LLM: it is that every step
(a web request, a dispatcher's batch, a work horse, a GitHub call) can fail, be
repeated, or meet another actor half way, and that nothing may be lost, done
twice or done over somebody else's work.  This directory specifies that part of
the program, checks it with TLC and proves with TLAPS what does not depend on fairness.

## 1. Inventory

Paths are below `src/backend/` unless they begin with `docs/`.

| Component | State | Operations | Talks to | Modelled |
|---|---|---|---|---|
| Admission (`app/services/job_service.py` `admit`, `app/routes/webhook.py`, `app/routes/agent.py`) | tables `jobs`, `webhook_deliveries`, `admission_windows` | `admit` from a webhook, a manual run, a replay | GitHub (webhooks, redelivery), the queue (ends jobs) | `Admission`, `AdmissionProofs` |
| Durable queue (`job_service.py`, `dispatcher.py`, `worker_jobs.py` `execute_job`) | rows of `jobs`; notifications in Redis; locals of dispatchers and horses | `dispatch_batch` (sweep, select, claim, enqueue, reset), `claim`, `finish` | Redis/RQ, the pipelines | `JobQueue`, `JobLedger`, `JobQueueProofs` |
| Issue pipeline (`app/services/agent_orchestrator.py`, `github_service.py`) | `issue_records` row with its checkpoint; branches and pull requests at GitHub | `process_issue`, `_publish_checkpoint`, `commit_patch_set`, `create_pull_request` | GitHub, the LLM client, people | `IssuePipeline`, `Publication`, `IssuePipelineProofs` |
| Approval and merge (same files) | the record's status; comments, head, draft, mergeability, CI at GitHub | `check_for_approval`, `merge_pull_request`, `check_and_merge_approved_prs` | GitHub, people, CI, admission | `MergeFlow`, `Merging`, `MergeFlowProofs` |
| LLM client (`app/services/llm_service.py`) | `_json_mode_supported`; locals of a call; `sources` of the tool loop | `_create`, `_call_with_retry`, `_call_and_parse_json`, `generate_solution_with_tools` | the provider, files at the pinned commit | `LLMClient`, `LLMClientProofs` |
| Secrets (`app/config/secret_store.py`, `key_manager.py`) | the salt and the secrets, as rows and as files; a lock file; the key of each process | `get_or_create`, `get` with its import, `put`, `save_keys`, `load_keys` | the database, the disk; every process at its start | `SecretStore`, `SecretStoreProofs` |
| Start-up, login and its rate limiter (`app/main.py`, `app/bootstrap.py`, `app/routes/dashboard.py`, `app/services/rate_limiter.py`) | the administrator's record; failure counters in Redis or in the process | the lifespan with `bootstrap_admin`, `api_login`, `is_limited`, `record_failure` | Redis, the secrets | `WebLogin`, `WebLoginProofs` |
| Patch validation (`app/services/patch_service.py`, `prepare_patch_set`) | none | the schemas, `apply_patch` | `git apply`, files at the pinned commit | in part, in `LLMClient`: which files may be patched; what `git apply` makes of a diff is a choice |
| Dashboard, health, archive, formatting, settings, migrations, deployment | counters and files nobody decides by | reads, rendering, probes, best-effort writes | browser, object store | no: I/O |
| Legacy queue jobs (`queue_service.enqueue_*`, `process_issue_job`, `check_and_merge_job`) | none of their own | called by tests only | RQ | no: dead code |

### How the components interact

    webhook / run / retry --admit--> jobs (SQL) --dispatch_batch--> Redis --RQ--> execute_job
                                       ^  ^                                          |
                                       |  +---------------- claim, finish -----------+
                                       +-- sweep of expired leases                   |
                                                             process_issue / check_and_merge
                                                                     |
                                                     GitHub: branches, pull requests, comments, CI

`jobs` is the only state that admission, dispatchers and horses share; each changes it
with conditional UPDATEs, and the conditions are the whole protocol.  Redis carries hints
that may be lost, doubled or late.  A pipeline owns its issue while its job is live,
because `active_key` is unique; but the issue job and the merge job of one issue have
different keys and may run at the same time.  GitHub is shared with everybody.

### What is hard, and what would be correct

* *Admission.*  Lookups and the transaction are separate statements, GitHub redelivers,
  the process may die.  Correct: one job per delivery, one live job per resource, no
  answer before the commit, a window that counts its jobs.
* *Queue.*  Several dispatchers and horses, stale batches and tokens, ambiguous enqueues,
  expired leases, a second `finish` in the except clause.  Correct: one execution per
  resource, three attempts, an outcome that is final, and every job ends.
* *Issue pipeline.*  Lost answers, crashes between any two calls, replays, people at the
  same branch.  Correct: one pull request, one solution, nobody's commits overwritten,
  a record that tells the truth.
* *Merge.*  Everything that was read may have changed when it is used.  Correct: only an
  approved and tested head is merged, approvals are not lost, merges are recorded.
* *LLM client.*  Nested loops over waits, attempts, models, prompts and turns, and a fact
  (JSON mode) learnt on the way; and the files are read twice, by rules that differ.
  Correct: every call returns, no model is skipped, a patch set changes only what was read
  in full and exactly.
* *Secrets.*  All processes start at once, on a fresh or an older installation, and may die
  in between.  Correct: one salt for all, and no secret that it cannot read.
* *Start-up and login.*  Each process looks for an administrator, and stores one if it finds
  none, while others do the same, import an older one, or take logins; a failure is counted
  long after the limit was checked, in a Redis that may fail between two calls.  Correct:
  nobody serves without an administrator, none is replaced, failures are bounded, every
  process comes to serve, and nobody is locked out for good.

`PROJECT.json` lists each hazard at its line, with the properties that cover it.

## 2. Modules

| Module | Models | State and the code it stands for |
|---|---|---|
| `JobLedger` | what the queue promises: admit, start, end, lose | `phase`, `attempts` of each job |
| `JobQueue` | the queue as it is; `ImplementsLedger` is its refinement of `JobLedger` | `job` (row), `queue` (Redis), `worker` (frame of `execute_job`), `disp` (frame of `dispatch_batch`) |
| `JobQueueProofs` | the theorems about `JobQueue` | |
| `Admission` | `admit`, one action per statement that commits or reads | `row`, `delivery`, `count`, `minute`, `req` (frame of a request) |
| `AdmissionProofs` | the theorems about `Admission` | |
| `Publication` | what the pipeline promises about an issue: one solution, decided on before it is shown, one pull request | `solution`, `shown`, `opened`, `known` |
| `IssuePipeline` | `process_issue` and what it calls, for one issue; extends `JobLedger`; `ImplementsPublication` is its refinement of `Publication` | `issue` (row), `branch`, `prs` (GitHub), `run` (frame of an attempt), `merger` (what a merge job of the same issue has read) |
| `IssuePipelineProofs` | the theorems about `IssuePipeline` | |
| `Merging` | what the merge job promises about a pull request: merged at an approved and tested head or not at all, and marked only then | `head`, `fate`, `approved`, `tested`, `marked` |
| `MergeFlow` | the merge job and the webhook that queues it, for one pull request; extends `JobLedger`; `ImplementsMerging` is its refinement of `Merging` | `pr`, `ci`, `comments`, `writers` (GitHub), `record`, `hooks`, `answered`, `read`, `run` |
| `MergeFlowProofs` | the theorems about `MergeFlow` | |
| `LLMClient` | one client and its calls, and `prepare_patch_set` on its solution | `call` (locals), `jsonMode` (the field), `sources`, and what the provider and the repository are like: `noJson`, `tree`, `listed` |
| `LLMClientProofs` | the theorems about `LLMClient` | |
| `SecretStore` | both stores, with several `KeyManager`s | `salt`, `secret` (row and file), `lock`, `proc` (frame of each process) |
| `SecretStoreProofs` | the theorems about `SecretStore` | |
| `WebLogin` | the web processes: the lifespan, `api_login`, the limiter; extends `SecretStore`, whose secret is the administrator's record here | `web` (lifespan or handler of each process), `counter` (Redis), `debug`, `env`, `redis` (settings) |
| `WebLoginProofs` | the theorems about `WebLogin` | |
| `MC*` | instances for TLC: model values, symmetry | |

The pipelines do not drag the queue along: they take their attempts from `JobLedger`, the
interface between the two.  The queue is proved to implement it, and the pipelines to move their
jobs by its steps only (`IssueJobsUseLedger`, `MergeJobsUseLedger`).  So an attempt may be lost
at any point, is repeated at most `MaxAttempts` times, and never runs beside another attempt of
its key.

`WebLogin` composes the handlers with the store the other way round: every step of a process
at its `KeyManager` is an action of `SecretStore`, conjoined with what the handler does about
it.  `WebUsesStore` proves that nothing else happens to the store.

In each module an action is one transaction, one call of GitHub or Redis, or one event of
the environment; between two actions anything else may happen.  A remote call that fails
comes in two kinds, with and without its effect (`CreateRefRaises`, `EditRefRaises`,
`CreatePRFails`, `PutRaises`, `EnqueueRaises`), because the code cannot tell them apart.
`Crash` and `Dies` stop a process anywhere.  Times in `JobQueue` are counted down from the
present (`Tick`), so that no bound on the clock is needed.

Definitions whose names extend the name of another one (`AttemptsLeftOffByOne`,
`ApprovesAnyHead` ...) under the heading "Slips" are never used by a specification: they are
plausible errors, and `PROJECT.json` "mutants" says which property finds each when it takes the
place of the original.

## 3. Runs

| Run | Instance | Shows |
|---|---|---|
| `one_job` | 1 job, 2 horses, 2 dispatchers, 3 tokens, 3 attempts, lease 2, timeout 1 | ownership under leases, the attempt budget, final outcomes; the inductive invariant of the proofs holds |
| `two_jobs` | 2 jobs of one key, 2 horses, 1 dispatcher, 2 attempts, batch of 1 | exclusion, the key held exactly while live, refinement of the ledger, backoff with one dispatcher |
| `every_job_ends` | 1 job, 1 horse, 1 dispatcher, 3 attempts, fairness | every admitted job ends and frees its resource |
| `admission` | 2 requests, 3 deliveries, 2 keys, 3 jobs, 2 minutes, limit 2 | deduplication, one live job, answers after the commit, counted windows |
| `issue_pipeline` | 2 jobs, 3 attempts, 2 bases, 2 patches, 2 pull request numbers, upstream and fork | one pull request, one solution, no commit overwritten; a record that is truthful and loses no open pull request while a merge job writes it too; `Publication` is implemented |
| `merge_flow` | 2 jobs, 2 attempts, 2 heads, 2 comments by three kinds of people, statuses and check runs that come and go | only heads that are approved, and tested since they were read again, are merged, records claim no more than GitHub; `Merging` is implemented |
| `merge_marked` | as `merge_flow`; **violated** | a merge whose recording fails is never recorded |
| `approval_read` | as `merge_flow`; **violated** | an approval may be answered with a job that does not read it |
| `llm_client` | 2 models, 3 attempts, 3 quota tries, 6 turns, 2 files | calls return and skip no model, no step takes a call back; patch sets are grounded |
| `web_login` | 2 processes, 2 random salts, an older installation or none, files or database, with and without DEBUG, `ADMIN_BOOTSTRAP_PASSWORD` and Redis; limit 2, 1 form awaited | one salt, readable secrets; an administrator before any login, never replaced; bounded failures; every process comes to serve |
| `lockout` | as `web_login`; **violated** | a client may be refused for good |
| `secret_import` | 3 processes; **violated** | the import of a legacy secret may overwrite a newer one |

### Why the bounds are enough

* *Tokens.*  A token is a UUID, never used twice.  Three values suffice because a value is
  taken for fresh only when no row, notification, horse or dispatcher refers to it; the
  interesting confusion is between the current token and one or two stale ones.
* *Lease 2, timeout 1.*  All the code says of 900 and 600 seconds is that the second is
  smaller; one unit between them leaves room for a horse that dies just before its lease.
* *Two dispatchers, two horses* are what races need; jobs of different keys do not
  interact except through the batch, whose size is 1 in `two_jobs` so that one waits.
* *Two pull request numbers, two patches, two bases* are one more than a correct pipeline
  uses: enough to see a second one.
* *Two heads, two comments*: one head approved and one not, one comment by somebody entitled
  and one by somebody who is not, or one per head.
* *Two minutes and a limit of two* let a window fill, refuse, and a new one begin.

`Comments`, minutes, jobs and numbers that are used up merely stop.  Deadlock is checked in
every run except those of `MergeFlow`: a pull request that is closed or merged, with all its
comments answered and no job left, is the end of it.

* *The checks of one head*: those that an attempt asks about, and only while it may ask
  (`ci`).  Before that they are any; what other heads' checks are, nobody asks.

* *Two models, two files, six turns*: one fallback, one file that is fine beside one that is
  not, and the code's own number of turns and attempts.
* *Two web processes, two salts*: two that start with different salts; as each may end and
  start again at any time, one of them also plays those that arrive later.
* *Limit 2, one form awaited, counters up to 4*: the bound of `FailuresBounded` is then 3, below
  the counter's own; a second awaited form was checked too, and only makes the run longer.
  A window ends at any time once it has an end, so that its length needs no bound.

### Fairness (`every_job_ends`, `llm_client`, `web_login`)

Weak fairness of the dispatcher's loop and of `Tick`: processes are restarted by the container
runtime and loop for ever, and time passes.  Strong fairness of the claim, of the enqueue, of RQ
handing out a *current* notification and of a horse's claim: each may fail any number of times,
but not always.  `Calm` says that from some time on Redis loses no current notification and that
a batch and a claim are quick compared with the lease, which is what 900 seconds are for.
Without it a job really may starve, as its lease can run out before every claim; nothing in the
code bounds those losses, because an attempt that was never claimed is not counted.

`llm_client` assumes weak fairness of the client's next step only: every request is answered
or times out (`timeout` is given to the provider's client).  Which answer it is, is not
constrained.

`web_login` assumes weak fairness of each process at its start and at the store (the container
runtime starts it again, `docker-compose.yml:84`, and the store's calls return), of the counting
of a failure (the handler runs on to its answer, `rate_limiter.py:41-50`), and of the end of a
window.  Whether logins arrive, and which answers they get, is not constrained.
`EveryProcessServes` further supposes that there is an administrator, or a way to get one
(`MayStart`), and that from some time on starts are not `Disturbed` from outside: no process is
killed, and the store fails no call of `bootstrap_admin`.  A start that fails by the program's
own doing is no disturbance, and is what the property is about: one whose put finds that
another process was first (`PutFails`), or that is refused, any number of times (`StartFails`).
To keep the two apart, a start that the store failed is "broken" and one that the program
failed is "refused", although the code raises for both and the process ends alike.
The slip `LoadedRefused`, a start that takes an administrator who is there for an error, is
refused for ever undisturbed, and is found.

### What the violated runs say

* `merge_marked` (`agent_orchestrator.py:313`, `:399`): the status is committed by `_log`,
  whose rollback discards it; a lost answer or a lost horse after the merge has the same
  effect.  The next merge job cannot repair it, for a merged pull request is not mergeable,
  and `process_issue` skips a record that is `pr_created`.
* `approval_read` (`job_service.py:40`): an approval that arrives while a merge job is
  running joins that job, which may be past the point where it lists the comments.  The job
  succeeds, the commenter was answered 202, and nobody looks again.
* `secret_import` (`secret_store.py:103`): `get` finds no row, another process saves, and the
  import then writes the legacy value with `put`, which updates the row that is there by now.
* `lockout` (`rate_limiter.py:45`): the counter is incremented, and the call that gives it an
  end fails or is never made.  Later failures do not repeat it (only the first one does), and
  nothing calls `reset`.  While Redis answers, the client is then refused for good after its
  last attempts, although "Redis errors never lock people out".

`merge_flow` shows what "tested" means: the statuses and the check runs of the head are two
calls (`github_service.py:419`, `:421`), and anything may be re-run between them.  So a head is
merged whose statuses had passed at one moment and whose check runs at a later one, both since
the pull request was read again, and both for the head that is merged; a moment at which
nothing failed need never have been, and `MergedHeadTested` does not claim one.

`issue_pipeline` shows what stays true although the issue job and the merge job write one record
from what they read before: "merged" is never said of a pull request that is not, and an open
one is always on record.  It does not say that MERGED stays: a conflict that a merge job found
before somebody else merged may be recorded over the MERGED that a retry of the issue job has
recovered meanwhile, and as both statuses are settled nobody corrects it.

Two more disagreements are known and have no run of their own.  "Drop it and retry"
(`llm_service.py:326`) is the next attempt of the same loop: when two errors that were worth a
retry came first, the last attempt drops JSON mode and the model is given up without having been
asked in plain mode (`RejectsJsonMode` with `AfterAttempt`).  And with two dispatchers
`BackoffRespected` is false.  The claim of a selected row (`job_service.py:83`) checks its
status but not `available_at`, so that a batch selected before an attempt may dispatch the job
again right after that attempt failed.  Change `Dispatchers` to `{d1, d2}` in
`JobQueueTwoJobs.cfg` to see it.  Harmless to safety (the budget holds), but not the
documented "30/120-second retry backoff" (`docs/HARDENING.md:27`).

## 4. Proofs

Every safety invariant, action property and refinement that a passing run checks is proved as
well.  A component's inductive invariant is an invariant
of its run (`SecretStore`'s as a part of `LoginInvariant`), so that TLC has looked for a
counterexample on the instance.

### The queue

`JobQueueProofs` proves, for any sets of jobs, keys, horses, dispatchers and tokens and any
bounds that satisfy `ConstantsAssumption` and `LeaseAssumption` (`Timeout =< Lease`, the
comment at `job_service.py:11`):

| Theorem | Property |
|---|---|
| `InvariantHolds`, `TypeCorrect` | `InductiveInvariant`, `TypeOK` |
| `Exclusion` | `ExclusiveExecution`: no two horses run the pipeline for one resource |
| `LeaseCorrect` | `LeaseCoversExecution`: who executes owns its row |
| `KeyCorrect` | `KeyHeldWhileLive` |
| `BudgetCorrect` | `AttemptsLeftWhileWaiting` |
| `OutcomeStays`, `AttemptsUndisturbed` | the action properties `OutcomeIsFinal`, `NobodyElseEndsAnAttempt` |
| `Refinement` | `ImplementsLedger` |
| `BackoffWithOneDispatcher` | `BackoffRespected`, if there is one dispatcher |

The argument.  `ExclusiveExecution` is not inductive: that a horse owns its row follows from
its token, and that nobody takes the row away from its lease.  `InductiveInvariant` adds
what those two need: a token under which a horse is engaged is *spent* (no row is up for a
claim under it: `TokenSpent`), two horses are never engaged under one token of one job
(`NoTwins`), the row a horse owns has a lease that outlasts the time RQ leaves the horse
(`LeaseOutlastsHorse`; this is where `Timeout =< Lease` is used), and what `finish` has read
is still so when it writes (`AttemptsCounted`).  Each action is a lemma; `Tick` and the
sweep are where the lease matters, `FinishWrites` is where the missing token in its UPDATE
is shown to be harmless.  The refinement maps `pending` and `dispatched` to `waiting`; its
step lemmas use the invariant to show that a sweep takes only attempts whose horse is gone.

`BackoffRespected` is about rows that are selected in one transaction and claimed in another.
`SelectedAreDue` says that a selected row stays pending and due until the batch comes to it: a
horse writes only rows it owns, which are running, and what else moves a pending row is another
dispatcher.  `OneDispatcher`, the hypothesis of that theorem, excludes it;
`docker-compose.yml:66` deploys one, and section 3 says what two do.

### The secrets

`SecretStoreProofs` proves, for any processes, salts and texts (`StoreAssumption`: the marker
`None` is none of them, and what is saved is told apart from the old secret):

| Theorem | Property |
|---|---|
| `InvariantHolds` | `InductiveInvariant` |
| `SaltShared` | `SaltIsShared`: every process has the salt that is stored |
| `SecretsReadable` | `SecretsAreReadable`: every stored secret was encrypted under it |

`SaltIsShared` needs two arguments, one per store.  With files, only the holder of the lock is
in the critical section and finds no file there until it writes it (`LockHeld`).  With the
database, the insert never replaces a row, and what a process keeps is read back afterwards.
`SecretsAreReadable` also needs that a salt that is offered is the old one whenever there is an
old one (`OldSaltKept`), so that row and file never disagree.

### Start-up and login

`WebLoginProofs` proves, for any finite set of processes and any passwords, salts and limits
(`LoginAssumption`):

| Theorem | Property |
|---|---|
| `LoginInvariantHolds` | `LoginInvariant`: `WebInvariant` and `RoomLeft` |
| `FailuresBoundedHolds` | `FailuresBounded` |
| `WebUsesStore` | every behaviour of `WebLogin` is one of `SecretStore` |
| `ServingHasAdministrator` | `ServingHasAdmin` |
| `AdministratorIsFinal` | the action property `AdminIsFinal` |

Of `ServingHasAdmin` and `AdminIsFinal` neither is inductive.  A put that is under way could
bring anything: `PutAgrees` says that it brings the legacy file's record, if it belongs to a
load, or what its handler chose.  That the choice is the operator's needs `ClaimAgrees`: a login
never gets to choose, as it finds the administrator that `ServingHasAdmin` says is there, in the
row or, after the row was missed, in the file.  `RowAgrees` then says what any row holds, so
that whoever writes it again writes the same.  The step that stores nothing and moves one
process is treated once (`OneProcess`), the two steps that store (`StoredPreserves`,
`ClaimPreserves`) on their own.

`FailuresBounded` counts failures that are recorded, and says nothing of requests that have
passed the check and are still waiting for their form.  `RoomLeft` gives each of these a place
in `Procs \X (1 .. MaxOpen)`: a request is let past the check only while the counter is below
the limit, it then takes a place, moving through its handler keeps it, and it gives it back
in the step that counts its failure, so that counter and places together never exceed
`Limit - 1 + MaxOpen * Cardinality(Procs)`.  This is the one proof that counts handlers, and
why `LoginAssumption` has finitely many processes.  Without Redis the same sum is kept by each
process for itself.

### Admission

`AdmissionProofs` proves, for any requests, deliveries, jobs, resources and minutes and any
limit (`AdmissionAssumption`):

| Theorem | Property |
|---|---|
| `InvariantHolds` | `InductiveInvariant`, `TypeOK` with it |
| `AnswerIsRecordedHolds` | `AnswerIsRecorded` |
| `OneJobPerDeliveryHolds` | `OneJobPerDelivery` |
| `OneLiveJobPerKeyHolds` | `OneLiveJobPerKey` |
| `WindowCountsJobsHolds` | `WindowCountsJobs` |
| `DeliveryNeverMovesHolds` | the action property `DeliveryNeverMoves` |

`OneJobPerDelivery` follows from `CreatorsRecorded`: the delivery that created a job is recorded
under that job, so a free delivery has created nothing and answered nobody (`FreeDelivery`).
`RequestsAgree` says what a stale lookup is still good for: the job a request is about to join
was one of its own resource, and rows never change their resource.  `OneRequest` treats the steps
that only read; the two transactions (`JoinPreserves`, `CreatePreserves`) have lemmas of their
own.  `WindowCountsJobs` counts, so the proof also carries that the jobs of a minute are finitely
many.

### The issue pipeline

`IssuePipelineProofs` proves, for any jobs of one issue, bases, patches, pull request numbers
and number of attempts (`PipelineAssumption`: the markers `None` and `Foreign` are none of
the values they stand beside):

| Theorem | Property |
|---|---|
| `InvariantHolds` | `InductiveInvariant`, `TypeOK` with it |
| `AtMostOnePRHolds` | `AtMostOnePR` |
| `OnePublishedSolutionHolds` | `OnePublishedSolution` |
| `RecordAgreesHolds` | `RecordAgreesWithGitHub` |
| `QuietWhenUnsureHolds` | `QuietWhenUnsure` |
| `SuccessMeansSettledHolds` | `SuccessMeansSettled` |
| `ForeignCommitsSurviveHolds` | the action property `ForeignCommitsSurvive` |
| `IssueJobsUseLedger` | every behaviour moves its jobs as `JobLedger` says |
| `Refinement` | `ImplementsPublication` |

That there is one pull request is a fact about a number of attempts, each of which knows only
what it has looked up itself.  `OneAttempt` is what the queue contributes: the attempt in hand
is that of the one unfinished job.  `AttemptAgrees` says what its place in the code is worth:
an attempt past the lookup found no pull request, and there is still none, since nobody else
opens one; an attempt that publishes has a checkpoint.  `OnePR` ties the record, the merge job's
copy of the pull request's number and GitHub to the same pull request, `CheckpointFirst` says
that no commit of DevInbox's is on a branch before there is a checkpoint.  A status that is settled
has its pull request on record, so that an attempt which stops there loses none.

Steps that change only the attempt's place are one lemma each over `RunPreserves`; pushes
(`PushPreserves`), the creation of the pull request with and without its answer
(`OpenPreserves`), what people do to the pull request (`PRsPreserve`) and the merge job's
writes from a stale read (`MergeJobRecordsPreserves`) are where the invariant is at stake.
`Publication`'s `Decide` is `SaveCheckpoint`; `Show` is the push of the commit, whether or not
it raised; `TakeAway` is a push or a deletion by people; `Open` is `CreatePR`, or `CreatePRFails`
with its effect; `Remember` is `Recover`.  Everything else, crashes included, stutters.

### The merge

`MergeFlowProofs` proves, for any heads, people, comments, jobs of one pull request and number
of attempts (`MergeAssumption`):

| Theorem | Property |
|---|---|
| `InvariantHolds` | `InductiveInvariant`, `TypeOK` with it |
| `MergedHeadApprovedHolds` | `MergedHeadApproved` |
| `MergedHeadTestedHolds` | `MergedHeadTested` |
| `MergedIsTrueHolds` | `MergedIsTrue` |
| `MergeJobsUseLedger` | every behaviour moves its jobs as `JobLedger` says |
| `Refinement` | `ImplementsMerging` |

`HeadIsApproved` carries the argument: from the comments on, the attempt holds on to one head,
which somebody with write access named in a comment that is not taken back; and before
the merge is asked for, that head's checks have passed: each answer was true when it was given,
so that the best result since then (`ci.best`) is as good (`PassedIsTested`).
`MergedHeadTested` speaks of the step that merges, and follows as nothing but the two outcomes
of `pr.merge` is such a step (`MergesOnly`).  What may have changed
meanwhile is which head the pull request has, and there GitHub compares (`MergeTakes`).  So the
merge is of the head that was approved and tested even if neither is so of the present one.
`RecordIsOurs` says that whoever may still write the record has found it unmerged, and that
only an attempt whose merge has happened is about to write MERGED; with `OneAttempt`, nobody
writes over it.  `approval` in `Merging` is monotone, so a permission that is revoked later
takes no approval back, which is what the code does: it asks when it reads the comments.
`tested` is not: checks may be asked for anew by each attempt, and the merge needs those of its
own.

### The LLM client

`LLMClientProofs` proves, for any files and any positive number of models, attempts, waits
and turns (`ClientAssumption`):

| Theorem | Property |
|---|---|
| `InvariantHolds` | `InductiveInvariant`, `TypeOK` with it |
| `PatchSetIsGroundedHolds` | `PatchSetIsGrounded` |
| `EveryModelIsTriedHolds` | `EveryModelIsTried` |
| `EveryStepGetsOnHolds` | the action property `EveryStepGetsOn` |

`SourcesAreReal` says that what the tool loop counts as a source is complete at the pinned
commit, or known to be absent; `SolutionHasSources` that a solution which leaves the loop has one
for each of its files.  What `prepare_patch_set` then reads for itself, by its own rules, is
in `Preparable`, and the two together give `PatchSetIsGrounded`.  `ModelsInTurn` says that the
models before the present one were sent the present prompt, so that the last failure is
that of the last model.

`EveryStepGetsOn` is the safety half of `EveryCallReturns`: each step of a call goes on in the
order stricter prompt, model, attempt, turn, wait, whatever the answers.  `TypeOK` bounds each
of the five, so that under weak fairness a call has an end for any numbers of models and
retries; that last step from the order to liveness is not machine-checked beyond the instance of
the run.

### Only model-checked

* `EveryJobEnds`, `EveryCallReturns`, `EveryProcessServes`: liveness under fairness is beyond
  the provers.
* The violated runs: a counterexample is one behaviour, and TLC shows it.

## 5. What is left out

* The clocks of several hosts are one clock; a skew of more than 300 seconds would break
  `LeaseAssumption`, and with it exclusion.  HTTP requests that survive their killed horse
  are not modelled.
* A database that is busy or gone: its errors end the attempt or the request (`FinishRaises`,
  `Refused`, `Dies`), and nothing is said of its own durability.
* Deletion of day-old windows (`job_service.py:98`), which no request counts in any more.
* GitHub's listing of pull requests is taken to be up to date, and branch protection to be
  absent.  `IssuePipeline` has pull requests that are reopened, `MergeFlow` has not.  Several
  records in one merge job: `pr_number` selects one.
* What the LLM writes, and what `git apply` makes of it, are choices in `IssuePipeline`.
* Some calls that follow each other at once are one action where no property tells the
  difference: the lookup of a recovered pull request and the commit of its status (`Recover`),
  the creation of one and the commit of its number (`CreatePR`, with a variant for a crash or a
  lost answer in between), the sweep's commit and the selection (`StartBatch`).
* Of the LLM client: which of the files it has read the model was sent, the slots and the lock that space requests of one process, and how long
  waits take.
* Of the secrets: `delete`, which nothing calls, and the fact that hosts may have different
  directories.  One name stands for all names.
* Of the login: lengths of passwords, sessions, several clients, and a Redis that fails at times,
  for which no bound on failures holds (each process may start to count by itself).  The
  settings of all processes are the same.  With DEBUG and no `ADMIN_BOOTSTRAP_PASSWORD` two first
  logins do race, and the later one stays (`dashboard.py:202-208`); `AdminIsFinal` leaves that
  case out.
* The tables of section 1 say what is not modelled at all, and why.

## 6. Plan

Modelled first, because everything rests on it: the queue, then admission, the pipelines,
and what they call.  `MergeFlow` and `IssuePipeline` build on `JobLedger`, which `JobQueue`
implements.  Proved in the same order.  What is left:

1. The two paths that write one record: a specification of `issue_records` that both
   `IssuePipeline` and `MergeFlow` implement.
2. Hosts that do not share a directory: an older installation whose salt is known to one of
   them only.
