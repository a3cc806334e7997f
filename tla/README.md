# BlueStick: models and proofs of its queues and its shared records

BlueStick keeps the inventory of a network assessment: users upload scan files, workers parse
them into hosts and observations, people and agents turn those into findings, and the findings
leave as reports and notifications. This directory holds TLA+ modules of the parts of the
backend whose correctness depends on the order of events, TLC configurations that check them on
small instances, and proofs, checked by TLAPS, of the properties that matter most.

Paths below are under `src/backend/app/` unless they say otherwise. `PROJECT.json` maps every
definition to the lines it stands for, and lists the runs, the deliberately broken variants
(mutants) that show each property can fail, the hazards and the theorems.

## 1. The system

One PostgreSQL database; a FastAPI process with thin routes over services; an ingestion worker
and a report worker, each one long-lived process; a React client. The processes share nothing
but the database and the upload, report and evidence directories. A transaction is READ
COMMITTED; a row is protected by `SELECT ... FOR UPDATE`, by the WHERE clause of an UPDATE, or
by an advisory lock, and most of the hard behaviour lies where something read in one
transaction is used in a later one.

### Modelled components

| Component | State | Operations | What makes it correct |
|---|---|---|---|
| Job transitions (`services/job_transitions.py`) | status, `started_at`, heartbeat, `reap_count` of a job row | claim, heartbeat, stamp, complete, fail, release, cancel, retry, requeue-or-fail of stale rows | a write of an attempt happens only while the row carries that attempt's `started_at` (the fencing token) |
| Ingestion queue and worker (`services/ingestion_service.py`) | job rows with `in_progress_scan_id` and `scan_id`, scan rows with `content_sha256`, uploads on disk, the worker's attempt, the reaper's and sweep's lists | upload, claim, parser chain, stamp, complete, fail, discard, release, reap, leftover sweep, stall exit | no scan without a job that can find it, no stale attempt publishes, a cleanup deletes leftovers only, every job ends |
| Staged imports and retained files (`services/staged_import_service.py`) | staged rows, files kept after the import | queue, discard, expire staged jobs, expire files | no two jobs of the same bytes on their way in, no accepted job without its file |
| Scan deletion (`api/v1/endpoints/scans.py`) | scan rows, the request's choice of hosts | delete, refused while an import runs; ask and ask again about work | clears every pointer to the scan, takes nothing others reported, no unconfirmed loss of work |
| Scan sightings, partial scan cleanup, provenance of deduplicated hosts (`services/scan_sightings.py`, `services/ingestion_service.py`, `services/host_deduplication_service.py`) | history rows, sightings, first-recorder and last-updated pointers, creation stamps | report, release, choose, delete, hand over | what other scans reported stays, what nobody reports goes, both deletes decide alike |
| Report queue and worker (`services/report_job_service.py`, `report_worker.py`, `api/v1/endpoints/reports.py`) | report jobs, artifact directories | request, claim, render, publish, expire, orphan sweep, retry, cancel, reap | an offered file is on disk, an unnamed directory goes away |
| Issued report rendering (`services/client_report_render.py`, `api/v1/endpoints/client_reports.py`) | `render_status`, recorded hashes, the report's folder | issue, render, publish, mark failed, render again | what is served is what was recorded, published files never change, a pending report is never forgotten |
| Webhook outbox (`services/webhook_dispatcher.py`, `api/v1/endpoints/webhooks.py`) | delivery rows, the API's bounded queue, sender threads, the sweep | stage, commit, hand over, claim, POST, record, sweep, prune, retry, disable, delete | nothing is sent for a change that was rolled back, nothing committed is lost, two senders do not send one row |
| Findings (`services/finding_service.py`, `services/retest_service.py` and the promotions and dismissals of `services/proposal_service.py`) | the finding of an issue, its status lines, its endpoints with their retests | promote, dismiss, set status, move, record a retest, report fixed, remove, restore, delete | an unbroken status history, an owed retest is where the lists look for it, no result re-judges an issue |
| Remediation tracking and alerts (`services/remediation_service.py`, `remediation_policy.py`, `remediation_alerts.py`) | a record's status and dates, the frozen deadline, the day each alert was raised for | apply, leave, sweep; the policy and the day move | nothing set changes unasked, each missed deadline is told and told once |
| Agent proposals (`services/proposal_service.py`) | proposals, their targets, the row locks of requests | propose and replace, accept, reject, accept in bulk, edit or delete the target | no cycle of locks, no change applied twice, no edit overwritten in bulk |
| Presentation control (`services/presentation_service.py`, `presentation_agenda_service.py`) | the presentation with its revision and driver, the agenda's versions, requests in flight | start, move, take control, end, heartbeat, expire, save and delete the agenda | a move lands only on the screen it was checked against, an agenda is followed by its item |
| Worker loop (`worker_loop.py`, `worker.py`, `report_worker.py`) | what the process does next | startup reap (ingestion), claim one job, periodic tasks between jobs, shutdown, restart | the fairness the liveness properties assume |

Interactions: the API writes a row and notifies (`pg_notify`); the notification is only a hint,
since the loop also polls. A worker claims a row, works outside any transaction, and comes back
with its token. The reaper runs between two jobs of the same worker, so with one worker it only
ever meets the rows of its own dead predecessors; a second worker would make it a real
competitor. Cancel, retry, discard and delete come from API requests at any moment. The webhook
sweep runs on the ingestion worker's thread, the fast path in the API process, and both work on
the same rows. The report worker's periodic tasks remove directories that a render is filling.

A scan delete, a finding, a proposal and a presentation are written by requests that overlap: a
request reads before it locks, and what it does next is decided by that reading or by a second
one under the lock. `ScanRelease`, `Findings`, `Proposals` and `Presentation` are about that gap.

### Not modelled

| Component | Why |
|---|---|
| Agent sessions and keys | mint, renew, lapse and end of a key beside an hourly sweep; the next candidate (section 6) |
| Upload intake and `reprocess_job` | file first, row later, and a copy of a retained file that may expire meanwhile; planned. `reprocess_job` is a repeatable upload in the model |
| Stall watchdog (`services/ingestion_stall.py`) | its two outcomes are `StallExit`; its thread and grace period are planned |
| Two-factor authentication, session sweep | one race each against one guard (a time step used by two logins); planned, small |
| Attachments, evidence files, template assets | the same file-then-row protocol as the report artifacts; candidate |
| Notifications and operational alerts | a throttle read from the notifications; candidate |
| Client report authoring | edits under one row lock; only the commit that issues a report is modelled |
| Cursor upsert | one `ON CONFLICT` statement: its atomicity is the database's |
| Address trie, scope correlation, names and attribution | pure arithmetic and ranking; a bounded check of the trie against a reference definition is possible |
| Parsers (about 13 000 lines) | format decoding; the queue models a parser by what it does to the job and its scan |
| Query language, posture, coverage and insight reads | SQL generation and aggregates over committed rows; nothing changes state |
| Report content, integrations, language models | formatting, subprocesses and calls to outside services |
| API routes, frontend, deployment, migrations | thin callers, a client the server does not trust, shell and generated files. What the deployment guarantees (one worker container, restart on exit) is an assumption of the fairness |

The modules stand for about 8 000 of the repository's 140 000 implementation lines. Most of the
rest is React pages, parsers, read-only queries and routes, which keep no state a temporal
property could be about.

## 2. Modules

    JobTransitions                 rows and the guarded writes of them
      IngestionQueue               workers, scans, operators     --refines--> QueueContract
        IngestionQueueProofs       its safety properties and the refinement
        MCIngestionQueue           constants and symmetry for TLC
      ReportQueue                  renders, artifacts, issues    --refines--> QueueContract
        MCReportQueue
        ReportQueueProofs
    WebhookOutbox                  staged deliveries and their senders
      WebhookOutboxProofs
    ScanRelease                    one host reported and released by several scans
      ScanReleaseProofs
    Findings                       one issue's finding, endpoints and retests
      FindingsProofs, MCFindings
    RemediationRecord              one record, its deadline and its alerts
      RemediationProofs
    Proposals                      drafts, decisions and the locks they take
      ProposalsProofs, MCProposals
    Presentation                   tabs, a driver and an agenda
      PresentationProofs, MCPresentation

An action is one committed transaction, one change of the disk, one POST, or a read whose result
is used after its transaction ended. What a process remembers between two of them is a variable
of its own. Definitions marked `Faulty:` in a comment are the bugs the properties were tried
against; no specification uses them.

### JobTransitions
One operator per method of the class. `started` is the token: the wall clock of the claim, which
the model replaces by a counter (`clock`), so a token never repeats. `lease` is the heartbeat as
the reaper sees it, fresh or old. `Owns(j, t)` is `_fenced`. `acknowledge` (an operator's
dismissal) changes nothing that another step reads and is left out.

### IngestionQueue
- Worker: `Claim` (`poll_and_run_one`), `Load` (`_run_job` up to the parser, with the
  look at a leftover pointer), `CreateScan` (`note_scan_created`: the scan row and the job's
  pointer in one commit), `ParserDone`, `ParserFails`, `LoseJob`, then `Complete`,
  `CompleteRefused`, `LinkLate` or `Superseded` for a finished parser, `FailJob` and `AfterFail`
  for a failed one, `ReleaseJob` for a shutdown.
- Cleanup: `Lookup` reads the pointer, `Delete` or `DeleteFails` follows in a later transaction;
  `resume` says what the worker does afterwards (the call sites of `_discard_attempt_scan`).
- Reaper and sweep: `Reap` commits, then `TakeFirst` and `NextDead` visit the jobs it failed;
  `ListLeftovers` and `NextLeftover` are `_discard_failed_jobs_leftovers`.
- Operators: `Upload`, `QueueJob` (start and retry), `Cancel`, `Discard`, `ExpireFile`,
  `DeleteScan`.
- Failures: `Crash`, `StallExit`, `LoseLock` (the liveness connection drops while the attempt
  lives on), `Shutdown`, `DeleteFails`, within the budget `MaxFaults`.

Abstractions: every parser creates exactly one scan, or fails before it does; the batches of a
scan and the inventory rows are not modelled. The project's import lock makes the deletion of a
scan one step with respect to an import's batches. The advisory lock on (project, digest) makes
`Upload` and `QueueJob` one step each. The reaper takes all rows it may, where SKIP LOCKED may
leave one for its next pass. The ten-minute back-off before a leftover is swept again is left
out (more interleavings, not fewer).

### ReportQueue
- Worker: `Claim` (with `_supersede_repeated_previews` in the same commit), `Load`, `Renew` (the
  lease thread), `Write`, `Finish`, `FinishRaises`, `DropArtifact` for downloads; `CopyFiles`,
  `Publish`, `PublishRaises`, `Judge`, `Mark`, `MarkRaises`, `Close`, `CloseRaises` for issued
  reports; `FailJob`, `FailRaises`, `Discard` for both. An action whose name ends in `Raises` is
  a commit that failed, or landed while its answer was lost.
- Reaper: `ReapLock` selects the rows and reads the report without its lock, `ReapCommit`
  writes both. Sweeps: `Expire`, `DeleteExpired`, then `SpareNamed`, `SpareProcessing` and
  `RemoveOrphans`, whose two reads are two steps as in `reconcile_orphan_artifacts`.
- Requests: `Issue`, `Rerender`, `Ask`, `Retry`, `Cancel`. Time: `LeaseExpires`,
  `ArtifactExpires`, `DirAges`.

Abstractions: making an artifact directory and writing its file is one step; hashes are the
token of the attempt that made the files; there is one issued report, and previews of one draft
by one person.

### WebhookOutbox
- Caller: `Stage` joins the caller's transaction and remembers the send on its session,
  `Commit`, `Rollback`, and `Drain`, which is the `after_commit` hook and a step of its own so
  that a crash or the sweep may come first.
- Senders: `Take` and `TakeFails` (a thread), `SweepBegin`, `SweepNext` and `SweepEnd` (the
  sweep), `Post`, and the outcome in two steps, `ReadRow` and `WriteOutcome`, because
  `_record_attempt` compares the token on a row it does not lock and then writes by id the
  columns that changed. `AskRetry` and `Requeue` split `retry_delivery` for the same reason.
- `FallDue` ends a back-off or the lease of a sender that is gone; `Outrun` is a live sender
  that takes longer than its lease (a POST is bounded by 10 s and the lease is 60 s, so this
  counts as a fault). `SwitchConfig`, `DeleteConfig` and `Prune` complete the row's life.

Abstractions: one webhook; a token is the sender it was made out to (a sender has one delivery
at a time and each claim writes a new token); the sweep may take any of the due rows up to its
batch, not just the oldest; a request is short, so no back-off ends within one. Savepoints are
left out: no caller opens one between staging and its commit.

### ScanRelease
One host, one port on it, one script and one scanner observation on the port, one attribute of
the host, and up to `MaxScan` scans that report some of them. `db` holds the rows with their
provenance columns, `scan` the scans, `doing` the delete under way.
- Import: `Start`, `Report` (one batch: what it writes for each kind of report is `Reported`),
  `End`, finished or failed.
- Cleanup of a failed import (`delete_partial_scan`): `CleanupRelease`, `CleanupChoose`,
  `CleanupDelete`. It releases first and asks its guards of what is left.
- `DELETE /scans/{id}`: `HandChoose` asks the guards before anything is released, `HandCheck`
  locks the hosts and asks again about work, `HandDelete`, `HandFinish`.
- People: `AddNote`, `Promote`, `DropFinding`, unless the delete holds the host row.

`ReleaseScan` is `release_scan`; `HostProvenance` and `PortIsOnlyThisScans` are the guards, with
a flag for the two times they are asked. Abstractions: every condition of the code speaks of one
host or port row, so one of each is enough; imports of a project run one at a time and so do its
deletes (the import lock), and scans are numbered in the order they start, which makes every
"newest" a number; a delete writes its rows as it goes, since whoever could see them waits for
its locks.

### Findings
The finding of one scanner issue and one endpoint row per host. A transaction is two steps:
`Begin`, which fixes the time the database stamps on all it writes and the unlocked lookup of
the finding, and one operation under the finding's lock, or `Abandon` where the code refuses or
finds its row gone. Operations: `Create` and `Join` (promotion by a person, a test or in bulk),
`DismissHere`, `SetStatus`, `MoveEndpoints`, `RecordRetest`, `AgentResult`, `ReportedFixed`,
`FillRecord`, `AddHosts`, `Remove`, `Restore`, `Delete`. `owed`, `dropped` and `gap` are history:
the retest somebody asked for and nobody answered, whether a row attached afresh lost it, and
whether a status line was ever written over another status than it says.

### RemediationRecord
One record. `Apply` is `_decide` with everything a call may send (a status, up to `MaxSent`
dates, overwrite or not), `Sweep` one pass of the alerts, `Move` a change of severity or policy,
`Tomorrow` a day, `Leave` the endpoint's removal. Days are numbers. The contact fields follow
the same rule as the assigned date and are left out, and the note some calls must carry is taken
as sent.

### Proposals
Every row lock is a step (`Take`), because the question is who waits for whom: `Conflict` is
PostgreSQL's table for FOR KEY SHARE, FOR NO KEY UPDATE and FOR UPDATE. `DecisionLocks`,
`ClaimLocks` and `InsertLocks` are the orders in which an accept or reject, a replacing request
and an insert take theirs. `Decide`, `Propose`, `DeleteTarget` and `Edit` begin a request;
A request remembers the old proposals it has still to claim (`claims`; `FirstClaim` is the next
one in the code's order) and the item it inserts (`at`); `Onward` moves it from the locks of one
to those of the next. A deletion that cascades visits its rows in no order of its own (`Cascade`,
`falls`). `Apply` is the moment an accept chooses what it supersedes, `LeaveForLater` and
`Refuse` are its early returns, and the `Commit` actions write and release. A draft remembers
only whether its target changed since it was written (`base`).

### Presentation
A request reads the presentation (`BeginMove`, `Begin`, `BeginStart`), is checked against that
reading, and later writes with one conditional UPDATE (`Move`, `TakeControl`, `End`, `Insert`,
`Heartbeat`) or is `Refused`; any number of others' writes fall between. `SaveAgenda`,
`BeginDelete` and `DeleteAgenda` are the agenda's; `GoQuiet` and `Expire` the idle timeout. Three
slides (the overview and two endpoint pages of one finding, one hidden by the host filter) and
two agenda items are the fewest on which a move can be right for one reading and wrong for
another.

### QueueContract
What a submitter may rely on: fresh tokens, results published only by the holder (or kept for
the last holder of a stopped job), published jobs final, stopped jobs never done without being
queued and claimed again. Both queues are shown to implement it (`KeepsContract`) by mapping
statuses to phases, `started_at` to the holder, and a shown scan, artifact or issued render to
the attempt that made it.

## 3. Runs

All twelve finish within a minute or so each. The bound that limits a behaviour is named in the
constants: `MaxClaims`, `MaxScans`, `MaxDirs`, `MaxReaps`, `MaxFaults`, `MaxDrops`, `MaxAsks`,
`MaxAttempts`, `MaxRequeues`, `MaxScan`, `MaxReports`, `MaxTx`, `LastDay`, `MaxSent`, `MaxIds`,
`MaxItems`, `MaxRows`, `MaxRevision`, `MaxVersions`. The code's own limits `MaxReaps` and
`MaxAttempts` are 2 and 6; the runs use 1 and 2, which reaches both sides of each comparison.

| Run | Instance | Shows |
|---|---|---|
| `ingest_one_worker` | 1 worker, 2 uploads of one file, 2 parsers, 3 claims, a reap, a fault, a retry | `NoOrphanScan`, `FileWhileNeeded`, `OneOpenPerFile`, `CleanupSparesFinished` |
| `ingest_two_workers` | 2 workers, 1 upload, 3 claims, 2 retries | `PublishedByOwner`, `ImportedOnce`, `FencedCleanupSparesLive`, `KeepsContract` when a reaped attempt lives on beside its successor |
| `ingest_live` | 1 worker under fairness, 2 files, a fault | `JobsEnd`, `LeftoversGo` |
| `report_one_worker` | 1 worker under fairness, an issued report and a download, a crash, a dropped statement, a retry | `ArtifactStays`, `NoArtifactLeaks`, `NeverReplaced`, `RenderSettles` |
| `report_two_workers` | 2 workers, 2 issues of one report and 2 previews, stale leases | `PublishedFilesMatch`, `PendingHasJob`, `NewestPreviewRuns`, `KeepsContract` |
| `webhook_one` | 1 delivery under fairness, 3 faults, 2 retries by an admin | `NothingForUnmadeChange`, `DeliveredWasReceived`, `DuplicateHasExcuse`, `GivesUpWithReason`, `Settles` |
| `scan_release` | 4 scans of one host, a batch each | `OthersKeep`, `FirstRecorderReal`, `NothingLeftBehind`, `PathsAgree`, `UnconfirmedSparesWork` |
| `finding_writes` | 2 hosts, an admin and another person, 5 transactions | `TrailUnbroken`, `RetestOnItsRow`, `NoWayRound`, `ResultsDoNotJudge` |
| `remediation_dates` | 4 days, a policy of 1 or 2 days, 2 dates per call, the sweep fair | `SetStays`, `AlertedOnce`, `OverdueTold` |
| `proposals` | 2 people, a subnet, a report text and an endpoint, 2 proposals | `NoDeadlock`, `AppliedOnce`, `BulkSpares` |
| `presentation` | 2 tabs, a Display, 2 requests in flight, 4 revisions, an agenda | `AgendaShows`, `MovesFit` |
| `find_claim_deadlock` | 2 agents, each with one request for 2 subnets | `NoDeadlock` violated |

Why the bounds are enough: a fenced write goes wrong between a stale attempt and its successor,
so two claims are the shortest case and a third lets the successor be superseded too. Two jobs
of one file are what the duplicate rules speak of; a cleanup concerns one leftover and one live
scan. The liveness runs leave enough claims, scans and directories that no bound ever stops the
worker (each .cfg says why). Two deliveries share nothing but the queue and the sweep's batch, so
faults and retries are explored deeper on one; the cost is that a full queue
(`webhook_dispatcher.py:661`) does not occur. A provenance pointer goes wrong among the scan that
made a row, one that saw it since, the one that is deleted and one that reports it again: four
scans. A retest is asked for, lost and missed within a promotion, a request, two overlapping
writes and a result: five transactions. A deadline is set, missed, moved and missed again within
four days. Two proposals are a draft and its replacement, or the two that one accept decides
between. Of four revisions one starts, two are the racing writes and one is left to show what
the loser would do. Where a theorem covers the property (section 5) the bound does not matter.

CHECK_DEADLOCK is FALSE where the instance really may come to an end: every delivery settled and
the webhook deleted, or the bounded scans, transactions, days, proposals and revisions used up.

### A disagreement between the code and its own words
- `find_claim_deadlock`: `_claim_proposals` takes the subnets of a request in order "so two
  overlapping requests cannot deadlock" (`services/proposal_service.py:645`). It takes those it
  replaces drafts for; the insert of a new draft takes the key-share lock of its own subnet
  afterwards (`:690-696`). Two agents that each replace their draft of one subnet in a request
  for both wait for each other. PostgreSQL ends one of them with an error.

The following are stated in the modules with the words they contradict, fail when added to the
run's configuration, and are not kept as runs.
- `ScanRelease!PortsSeenStay`: a port that another scan saw without a script or observation on it
  leaves with the scan that brought it (`ingestion_service.py:407` says so itself).
- `ScanRelease!CleanupSparesWork`: work put on a host while a cleanup runs is not protected by a
  lock. `ScanRelease!FindingsSurvive`: a confirmed delete by hand takes findings with the host.
- `Findings!WayRoundClosed`: a host removed from a finding that owes it a retest and attached
  again by `add_hosts` or a promotion comes back without the request; `Restore` does bring it
  back. `NoWayRound` therefore excepts what `dropped` records.
- `RemediationRecord!ClosedIsDated`: overwrite lets a closed record lose its date.
- `Presentation!EndedForgets`: a heartbeat that read the presentation before it ended registers
  a viewer on it after (`presentation_service.py:496`).
- `IngestionQueue!RetryRefusedWhileImporting`, one worker: `queue_job` looks at the first open
  twin only, and a staged twin with a smaller id hides one that is being imported
  (`staged_import_service.py:283`). `OneOpenPerFile` still holds: section 5 says why.
- `ImportedOnce` with one worker and a second upload: an import cancelled after its parser
  finished is kept and stamped, and an identical upload accepted in between is imported as well.
- `WebhookOutbox!OneSenderPerLease`: `retry_delivery` refuses only a pending delivery
  (`api/v1/endpoints/webhooks.py:291`); applied to one that is being sent it hands the row to a
  second sender while the first POST is in flight. A page loaded before another admin's retry is
  enough.
- `IngestionQueue!LeftoverCleanupSparesLive`, two workers: a worker that stalls between its claim
  and its cleanup of a leftover, is reaped, and wakes after a peer claimed the job, deletes the
  peer's live scan. The fenced cleanups do not (`FencedCleanupSparesLive`).

`src/documentation/ARCHITECTURE.md:757` says that the workers should not be replicated ("the
claim is safe for multiple workers, but the orphan-reaper logic assumes one reaper per queue").
What the models show with `Workers = {w1, w2}` is therefore outside the deployed shape, and
explains the advice. With a second worker these fail too:
- `NeverReplaced`: the report reaper reads a pending report without its lock
  (`services/report_job_service.py:507`) and commits FAILED over a publication in between;
  `/render` then accepts the report and its files are written again.
- `ArtifactStays`: the orphan sweep reads the named files and the running jobs in two statements
  (`report_job_service.py:538-541`); a publication between them is removed. The grace period
  hides this unless the render is longer than it.
- `_still_claimed` is answered before the commit that marks the report
  (`client_report_render.py:326`).
- `CleanupSparesFinished`, and the reaper's deletion of the scan of a job that was retried
  after the reaper's commit (`ingestion_service.py:1625`).

With one worker, a report stays pending with no job if the handler that should mark it fails
itself (`MarkRaises`); `POST /render` accepts such a report, and `RenderSettles` allows it for
that reason only. In the outbox, a token compared on an unlocked row (`webhook_dispatcher.py:403`)
lets a sender whose lease has just run out clear its successor's token or make a delivered row
pending again; the model has both steps, and `DuplicateHasExcuse` books the duplicate on the
lease.

## 4. Fairness

- `WF(Advance(w))`: a worker that can go on, does. The container restarts on exit
  (`restart: unless-stopped`), a render and a parser end (timeouts, the stall watchdog), and the
  loop visits its periodic tasks on a deadline. A crash is not fair.
- `SF(Reap(w))`, `SF(Claim)`, `SF(ReapLock(w))`: strong, because the loop alternates between its
  tasks: each is enabled again and again while others run, and the loop reaches each of them
  infinitely often, idle or busy.
- `WF(LeaseExpires)`, `WF(DirAges)`, `WF(FallDue)`: time passes.
- `WF(SweepBegin)`, `WF(SweepStep)`, `WF(Attempt(s))`: the ingestion worker keeps sweeping and a
  POST ends within `_REQUEST_BUDGET_SECONDS`. Nothing is assumed of the fast path's `Take`: the
  sweep alone is the guarantee.
- `WF(Sweep)` of `RemediationRecord`: the worker visits `_remediation_alerts` on a deadline, like
  its other periodic tasks. Nothing is assumed of the days: a deadline
  that was missed stays missed until somebody moves it or closes the record, and `OverdueTold`
  excuses the sweep only then.
- `WF(Requeue)`: a request that has read its row finishes or its process dies.

Operators, uploads and faults are never assumed to happen.

## 5. Proofs

Each theorem holds for every value of the constants that satisfies the named assumptions in the
modules (`FilesAssumption`, `ParsersAssumption`, `SendersAssumption` and so on, which say only
what the constants are).

`IngestionQueueProofs`
- `TypeCorrect`: `Spec => []TypeOK`.
- `NoOrphan`: `Spec => []NoOrphanScan`. Not inductive alone: the stamp of a new scan overwrites
  the pointer of its job and a completion clears it, so the proof needs what each worker knows
  of that pointer at each step for as long as the row carries its token (`PointerKnown`), that
  no two workers run under one token (`OwnTokens`), that an attempt's token belongs to a job
  (`HasAttempt`), and that a worker writes only the scan it created (`WritesOwnScan`).
- `Published`: `Spec => []PublishedByOwner`, with `ShownIsStamped`: a scan a job shows exists
  and carries its digest, so that no cleanup removes it.
- `InductiveInvariant`: the conjunction `IInv` of all of these.

From `IInv`, for the uploads and their jobs (`CInv`):
- `FilesKept`: `Spec => []FileWhileNeeded`.
- `OneOpen`: `Spec => []OneOpenPerFile`. Not inductive, and not given by `queue_job`'s look at
  the first twin: nobody may upload a file while a job of it is staged, so a staged job is the
  newest of its file (`StagedIsNewest`) and a first twin that is staged is the only one.
- `KeepsPromises`: `Spec => KeepsContract`, the refinement of `QueueContract`: every step of every
  worker, the reaper and the operators is one of its moves on one job or a stutter.

And for what a cleanup deletes (`DInv`). A worker reads a pointer in one transaction and deletes
the scan in a later one, so what counts is whose scan a pointer can name: of one job and of that
job's attempts only (`OwnPointers`, which needs that ids are never used twice, `Ids`), and never
a finished import (`FinishedUnnamed`).
- `CleanupSparesHolder`: `Spec => FencedCleanupSparesLive`, for any number of workers.
- `FinishedSpared`: `Spec => CleanupSparesFinished` with one worker. With two it is false: the
  other may finish the scan between the two transactions (section 3).
- `ImportedOnceEach`: `Spec => []ImportedOnce`, for any number of workers, when no two uploads
  have the same bytes. For each upload the argument is that a stamped scan is the one its job
  shows and that this job never runs again (`OncePerUpload`). With two uploads of the same bytes
  the property is false (section 3): the second is let in while the first, cancelled, is parsed.

`WebhookOutboxProofs`
- `TypeCorrect`.
- `NothingSentEarly`: `Spec => []NothingForUnmadeChange`. What keeps a sender from an
  uncommitted change is that its row does not exist (`RowCommitted`); what it already holds was
  claimed as a committed row (`HandCommitted`).
- `DeliveredTrue`: `Spec => []DeliveredWasReceived`. A row is shown as delivered by a sender
  that holds an answer, perhaps long after, so the strengthening (`AnswerReceived`) is about the
  answers in the senders' hands.
- `TwiceOnlyWithExcuse`: `Spec => []DuplicateHasExcuse`. While nothing excuses a row (`Clean`),
  whoever handles it is the one its token names and handles it alone (`OnlyHolder`, `Alone`), its
  lease runs meanwhile (`Leased`), and what is not settled has not been received yet (`Unsent`,
  `SentOnce`). A lease that runs out and a lost answer excuse the row from then on; an admin's
  retry excuses every row.
- `GivenUpForReason`: `Spec => GivesUpWithReason`; a webhook that is gone has no row left
  (`GoneInv`), so nothing is given up on its account.

`ScanReleaseProofs`
- `TypeCorrect`: rows well formed, none outlives the row it hangs on.
- `OthersStand`: `Spec => []OthersKeep`. A row may be there while the evidence that protects it
  is not, so the invariant says which evidence every scan leaves (`Witnessed`; a port Nessus
  created has none of its own and its observation stands for it), also for a scan whose delete
  may yet be refused, and what a delete has made sure of by the step it is at (`DoingOK`).
- `FirstRecorders`, `NothingLeft`, `DeletesAgree`, `WorkSpared`: `FirstRecorderReal`,
  `NothingLeftBehind`, `PathsAgree` and `UnconfirmedSparesWork`. Between two deletes every row is
  `Sound`: its pointers name scans with a sighting of it, and what saw something on the host is in
  the host's history, or somebody worked on it. A delete breaks this and restores it at its end,
  so `SInv` says for each of its steps what is still to do: after the pointers have moved, that
  the cascade will leave sound rows (`Pointed`); before it, that the hosts chosen are the ones
  the scan brought; while it holds the host row, that nobody put work on it.

`FindingsProofs`
- `TypeCorrect`; `TrailTrue`: `Spec => []TrailUnbroken`; `RetestsStay`: `Spec => []RetestOnItsRow`,
  which says nothing of an endpoint whose row is away: the removal's line keeps the request
  meanwhile (`HostOK`). From it the action properties `RetestsAnswered` (`NoWayRound`),
  `EvidenceOnly` (`ResultsDoNotJudge`) and `RecordsGuarded` (a record somebody filled in goes
  only by an admin).

`RemediationProofs`
- `TypeCorrect`, with the table's CHECK constraints: whatever `_decide` yields, the database
  accepts. `ReviewsAhead`, `SetValuesStay` (`SetStays`) rest on them; `NoAlertTwice`
  (`AlertedOnce`) needs that a day alerted for is the day the record still has (`ToldOK`).

`PresentationProofs`
- `TypeCorrect`, `AgendaFollowed` (`AgendaShows`), `MovesLand` (`MovesFit`). What a request was
  checked against is not what is there when its UPDATE runs. What holds in between: a revision
  only grows (`Reads`), a position changes only with it (`StillFits`), and an agenda a request
  pins stays while the request holds it FOR SHARE (`PinsStay`, `DeleteAlone`).

`ProposalsProofs`
- `TypeCorrect`; `Invariant`: `Spec => []PInv`: what each request holds at each step (`RequestOK`),
  that it holds nothing else (`LocksOK`), that conflicting locks are not held together
  (`Exclusive`), and that a locked proposal is pending and whoever locked it has locked what it is
  about before (`RowsGuarded`).
- `OnlySeveralDeadlock`: for every size of request, a ring of requests that wait for each other has
  two members that each propose details for several subnets; `find_claim_deadlock` is that ring.
  Requests about one thing wait in the order: finding, removal of a finding, thing, proposals of
  new findings by id (`Rank`), and whoever one of them waits for is further on (`RankRises`).
  A request about several subnets waits for a subnet or its proposal, and a request about one thing
  that holds it waits for nobody (`HolderGoesOn`).
- `NoRingOfOnes`: hence `MaxItems < 2` implies `Spec => []NoDeadlock`, as its run has it.
- `ChangesAppliedOnce` (`AppliedOnce`): an accept holds its proposal from the check to the commit.
- `DecisionsAreKept`, `BulkReplacesWhatWasSeen` (`BulkSpares`): no step rewrites a decided row,
  and nothing that outdates a draft falls between a bulk accept's look and its commit.

`ReportQueueProofs`
- `TypeCorrect`; `QueueInvariant`: `Spec => []QInv`, the frame of the others: a worker in an attempt
  has a job and a token, what a reaper holds locked nobody else does, and an issue's steps are
  never taken for a preview.
- `FilesMatch`: `Spec => []PublishedFilesMatch`. The files are written before the commit that
  records them, so the proof is that one worker at a time is in between (`OneLock`) and that its
  files are the last written (`FilesWritten`).
- `PendingCovered`: `MaxDrops = 0` implies `Spec => []PendingHasJob`. A live job covers a report
  only if nobody is about to fail it without marking the report (`Secure`, `Backed`); what a
  handler marks was judged on its own claim (`ClaimRead`, `MarkJudged`). With a dropped statement
  the property is false, as section 3 says, and its run has none.
- `NewestRuns`: `Spec => []NewestPreviewRuns`, from how rows end (`RowsEnd`).
- `KeepsPromises`: `Spec => KeepsContract`, the refinement of `QueueContract`.
- `PublishedOnce` and `OfferedStays`: with one worker (`OneWorker`), `Spec => NeverReplaced` and
  `Spec => []ArtifactStays`. The first needs that a worker that holds a report locked has read
  it as it is (`DoneIsFinal`). The second needs that a directory belongs to one attempt and is new
  when it is made (`OwnDirs`, `FreshDir`), and that what the sweep took for an orphan is still
  named by nobody (`NamedSpared`). Both are false with two workers.

Only model-checked: every liveness property (fairness and ENABLED are beyond the prover): `JobsEnd`,
`LeftoversGo`, `RenderSettles`, `NoArtifactLeaks`, `Settles`, `OverdueTold`. Every safety property
a run finds to hold is a theorem, six of them under a hypothesis that the code needs: `PendingCovered`,
`NoRingOfOnes`, `ImportedOnceEach`, and with one worker `FinishedSpared`, `PublishedOnce` and
`OfferedStays`. Section 3 says what happens without it. The runs do not repeat the type invariants that are proved.

Outside both: a wall clock that repeats a token (two claims of one job in the same
microsecond, or a clock set back) would defeat every fence at once, and the models exclude it.

## 6. Plan

Done: every module of section 2.

Next, in this order, one module and one run each:
1. `AgentSessions`: keys minted, renewed and lapsed beside the hourly sweep. No key outlives
   its session, a renewal never revives an ended one.
2. `Uploads`: intake, `reprocess_job` and the upload directory sweep, beside `ExpireFile`.
3. `StallWatchdog` and `Totp`: small, each with one race.
4. Named endpoints beside a host's own, in `Findings` and in `ScanRelease`.

Theorems worth proving next:
- `ImportedOnce` for uploads of the same bytes: a file is imported twice only if the first import
  was cancelled while it was parsed (this needs that cancel as a history variable).
- What the liveness properties rest on, step by step: that an attempt only moves forward through
  its steps until it ends, in `IngestionQueue`, and that a claimed delivery only moves towards its
  settlement, in `WebhookOutbox`. Fairness would then be all that TLC adds.
- `RingsAreOfSeveral` in a run of its own with two requests for several subnets.
