-------------------------- MODULE IngestionQueue --------------------------
(***************************************************************************)
(* The ingestion queue: uploads become job rows, workers claim and parse   *)
(* them into scans, a reaper takes back what a dead worker held, and       *)
(* operators start, cancel, retry and delete at any moment.                *)
(*                                                                         *)
(* Each action is one committed transaction (or one step of a worker       *)
(* between two of them), so every interleaving of several workers, the API *)
(* and the reaper is explored.  What a worker read in one transaction and  *)
(* uses in a later one is kept in its own variables (cur, seen, todo).     *)
(*                                                                         *)
(* The project's import lock is not a variable: it makes the cleanup of a  *)
(* scan one atomic step with respect to the batches of an import, which is *)
(* how Delete and DeleteScan below are written.                            *)
(***************************************************************************)
EXTENDS JobTransitions

CONSTANTS
  Workers,     \* ingestion worker processes
  FileOf,      \* FileOf[j]: which file's bytes (SHA-256) the upload j carries
  Repeatable,  \* jobs uploaded with "import anyway" (options.allow_duplicate)
  Parsers,     \* length of a job's list of parsing attempts
  MaxScans,    \* bound: scan rows created in a behaviour
  MaxFaults,   \* bound: crashes, restarts, dropped connections, failed cleanups
  MaxAsks      \* bound: starts and retries by operators

ASSUME FilesAssumption == FileOf \in [Jobs -> Nat \ {0}]
ASSUME RepeatableAssumption == Repeatable \subseteq Jobs
ASSUME ParsersAssumption == Parsers \in Nat \ {0}
ASSUME BoundsAssumption == MaxScans \in Nat /\ MaxFaults \in Nat /\ MaxAsks \in Nat

VARIABLES
  inProgress,  \* inProgress[j]: in_progress_scan_id, 0 for NULL
  scanId,      \* scanId[j]: scan_id, 0 for NULL
  file,        \* the jobs whose upload is on disk
  scans,       \* the committed scan rows
  lastScan,    \* the sequence scan ids come from
  digest,      \* digest[s]: content_sha256 stamped on scan s, 0 for NULL
  writer,      \* writer[s]: history, the token of the attempt that created s
  pc,          \* pc[w]: where worker w is
  cur,         \* cur[w]: the attempt w runs
  seen,        \* seen[w]: the scan id w read and is about to delete
  resume,      \* resume[w]: what w does after the lookup or deletion under way
  todo,        \* todo[w]: the jobs of w's reap or sweep still to visit
  skip,        \* skip[w]: the jobs this sweep leaves alone
  live,        \* live[w]: w's attempt holds its liveness lock
  faults,      \* faults so far
  asks         \* starts and retries so far

dataVars == <<inProgress, scanId, file, scans, lastScan, digest, writer>>
attemptVars == <<pc, cur, seen, resume, live>>
sweepVars == <<todo, skip>>
budgets == <<faults, asks>>
vars == <<rowVars, dataVars, attemptVars, sweepVars, budgets>>

ScanIds == 1..MaxScans
NoAttempt == [job |-> 0, token |-> 0, scan |-> 0, left |-> 0]

Steps == {"down", "boot", "idle", "claimed", "parse", "write", "parsed", "lookup",
          "delete", "fail", "failed", "release", "reap", "sweep"}

Attempts == [job : Jobs \cup {0}, token : Tokens, scan : 0..MaxScans, left : 0..Parsers]
Resumes == {"none", "parse", "next", "fail", "release", "done", "reap", "sweep"}

DataTypeOK ==
  /\ inProgress \in [Jobs -> 0..MaxScans]
  /\ scanId \in [Jobs -> 0..MaxScans]
  /\ file \subseteq Jobs
  /\ lastScan \in 0..MaxScans
  /\ scans \subseteq 1..lastScan
  /\ digest \in [ScanIds -> Nat]
  /\ writer \in [ScanIds -> Tokens]

AttemptTypeOK ==
  /\ pc \in [Workers -> Steps]
  /\ cur \in [Workers -> Attempts]
  /\ seen \in [Workers -> 0..MaxScans]
  /\ resume \in [Workers -> Resumes]
  /\ live \in [Workers -> BOOLEAN]

SweepTypeOK ==
  /\ todo \in [Workers -> SUBSET Jobs]
  /\ skip \in [Workers -> SUBSET Jobs]

TypeOK ==
  /\ RowsTypeOK
  /\ DataTypeOK
  /\ AttemptTypeOK
  /\ SweepTypeOK
  /\ faults \in 0..MaxFaults
  /\ asks \in 0..MaxAsks

Init ==
  /\ RowsInit
  /\ inProgress = [j \in Jobs |-> 0]
  /\ scanId = [j \in Jobs |-> 0]
  /\ file = {}
  /\ scans = {}
  /\ lastScan = 0
  /\ digest = [s \in ScanIds |-> 0]
  /\ writer = [s \in ScanIds |-> 0]
  /\ pc = [w \in Workers |-> "boot"]
  /\ cur = [w \in Workers |-> NoAttempt]
  /\ seen = [w \in Workers |-> 0]
  /\ resume = [w \in Workers |-> "none"]
  /\ todo = [w \in Workers |-> {}]
  /\ skip = [w \in Workers |-> {}]
  /\ live = [w \in Workers |-> FALSE]
  /\ faults = 0
  /\ asks = 0

---------------------------------------------------------------------------
(* What the actions ask of a state.                                        *)

\* Faulty: the row's status is asked, the attempt's token is not.
MineByStatus(w) == cur[w].job \in Jobs /\ status[cur[w].job] = "processing"

\* The row is still this worker's attempt's.
Mine(w) == cur[w].job \in Jobs /\ Owns(cur[w].job, cur[w].token)

\* attempt_is_over: a claimed attempt whose liveness lock nobody holds.
Over(j) ==
  /\ started[j] # 0
  /\ ~ \E w \in Workers : live[w] /\ cur[w].job = j /\ cur[w].token = started[j]

\* Faulty: the inventory is what jobs completed, not what scans carry.
InInventoryByJobs(j) == \E k \in Jobs : status[k] = "completed" /\ FileOf[k] = FileOf[j]

\* Faulty: a job that is being parsed is no twin.
TwinsNotRunning(j) == {k \in Jobs \ {j} : FileOf[k] = FileOf[j] /\ status[k] \in {"staged", "queued"}}

\* _find_duplicate: a scan of the same bytes, or another open job with them.
InInventory(j) == \E s \in scans : digest[s] = FileOf[j]
Twins(j) == {k \in Jobs \ {j} : /\ FileOf[k] = FileOf[j]
                                /\ status[k] \in {"staged", "queued", "processing"}}
FirstIn(S, k) == k \in S /\ \A i \in S : k <= i

\* running_import: an import that a live attempt is processing.
ImportRunning == \E j \in Jobs : status[j] = "processing" /\ lease[j] # "old" /\ ~Over(j)

\* The row a deleted scan's foreign keys leave: ON DELETE SET NULL.
Cleared(pointer, s) == [j \in Jobs |-> IF pointer[j] = s THEN 0 ELSE pointer[j]]

\* carry_upload_identity: the job's SHA-256 goes onto the scan, if it exists.
Stamped(j, s) == IF s \in scans THEN [digest EXCEPT ![s] = FileOf[j]] ELSE digest

\* Worker w goes to p, its attempt and its lock kept.
Goto(w, p) ==
  /\ pc' = [pc EXCEPT ![w] = p]
  /\ UNCHANGED <<cur, seen, resume, live>>

\* The attempt is over: the loop goes on (or the process stops), lock released.
EndAttempt(w, p) ==
  /\ pc' = [pc EXCEPT ![w] = p]
  /\ cur' = [cur EXCEPT ![w] = NoAttempt]
  /\ seen' = [seen EXCEPT ![w] = 0]
  /\ resume' = [resume EXCEPT ![w] = "none"]
  /\ live' = [live EXCEPT ![w] = FALSE]

\* Look for the scan this attempt committed, then go on with r.
LookupThen(w, r) ==
  /\ pc' = [pc EXCEPT ![w] = "lookup"]
  /\ resume' = [resume EXCEPT ![w] = r]
  /\ UNCHANGED <<cur, seen, live>>

\* Delete the scan s just read, then go on with r.
DeleteThen(w, s, r) ==
  /\ pc' = [pc EXCEPT ![w] = "delete"]
  /\ seen' = [seen EXCEPT ![w] = s]
  /\ resume' = [resume EXCEPT ![w] = r]
  /\ UNCHANGED <<cur, live>>

\* Where each continuation leads once its deletion is over (or had nothing to do).
Goes(w, p) ==
  /\ pc' = [pc EXCEPT ![w] = p]
  /\ seen' = [seen EXCEPT ![w] = 0]
  /\ resume' = [resume EXCEPT ![w] = "none"]
  /\ UNCHANGED live

\* Faulty: off by one, a parser past the end of the list is tried.
MoreParsersOffByOne(w) == cur[w].left >= 0

MoreParsers(w) == cur[w].left > 0

After(w, r) ==
  \/ /\ r \in {"fail", "release", "parse", "reap", "sweep"}
     /\ Goes(w, r)
     /\ UNCHANGED cur
  \/ r = "done" /\ EndAttempt(w, "idle")
  \/ /\ r = "next"
     /\ ~MoreParsers(w)
     /\ Goes(w, "fail")
     /\ UNCHANGED cur
  \/ /\ r = "next"
     /\ MoreParsers(w)
     /\ Goes(w, "parse")
     /\ cur' = [cur EXCEPT ![w] = [job |-> @.job, token |-> @.token, scan |-> 0, left |-> @.left - 1]]

\* Faulty: the next parser runs although the last one's scan is still there.
ChainGoesOn(w, r) == After(w, r)

\* A cleanup that raised ends the chain of parsers; the others go on.
AfterRaise(w, r) ==
  \/ r = "next" /\ Goes(w, "fail") /\ UNCHANGED cur
  \/ r # "next" /\ After(w, r)

\* _discard_dead_attempt_scan: read the row again; `onlyIfFailed` leaves a row
\* alone that left `failed`; a pointer to the finished scan is only cleared.
DiscardDeadScan(w, j, onlyIfFailed, r) ==
  \/ /\ \/ onlyIfFailed /\ status[j] # "failed"
        \/ inProgress[j] = 0
     /\ After(w, r)
     /\ UNCHANGED inProgress
  \/ /\ onlyIfFailed => status[j] = "failed"
     /\ inProgress[j] # 0 /\ inProgress[j] = scanId[j]
     /\ inProgress' = [inProgress EXCEPT ![j] = 0]
     /\ After(w, r)
  \/ /\ onlyIfFailed => status[j] = "failed"
     /\ inProgress[j] \notin {0, scanId[j]}
     /\ DeleteThen(w, inProgress[j], r)
     /\ UNCHANGED inProgress

---------------------------------------------------------------------------
(* A worker and its attempt.                                               *)

\* The liveness lock is taken before the claim commits, so both appear at
\* once.  SKIP LOCKED passes a row another transaction holds for the moment,
\* so the claimed row need not be the oldest one (see Fairness).
Claim(w, j) ==
  /\ pc[w] = "idle"
  /\ ClaimRow(j)
  /\ pc' = [pc EXCEPT ![w] = "claimed"]
  /\ cur' = [cur EXCEPT ![w] = [job |-> j, token |-> clock + 1, scan |-> 0, left |-> Parsers - 1]]
  /\ live' = [live EXCEPT ![w] = TRUE]
  /\ UNCHANGED <<dataVars, seen, resume, sweepVars, budgets>>

\* _run_job reads the row without a fence; a scan it still names is taken for
\* a dead attempt's.
Load(w) ==
  /\ pc[w] = "claimed"
  /\ DiscardDeadScan(w, cur[w].job, FALSE, "parse")
  /\ UNCHANGED <<rowVars, scanId, file, scans, lastScan, digest, writer, sweepVars, budgets>>

MissingFile(w) ==
  /\ pc[w] = "parse"
  /\ cur[w].job \notin file
  /\ Goto(w, "fail")
  /\ UNCHANGED <<rowVars, dataVars, sweepVars, budgets>>

\* note_scan_created: the scan row and the job's pointer, one commit, fenced.
CreateScan(w) ==
  /\ pc[w] = "parse"
  /\ cur[w].job \in file
  /\ Mine(w)
  /\ lastScan < MaxScans
  /\ lastScan' = lastScan + 1
  /\ scans' = scans \cup {lastScan + 1}
  /\ writer' = [writer EXCEPT ![lastScan + 1] = cur[w].token]
  /\ inProgress' = [inProgress EXCEPT ![cur[w].job] = lastScan + 1]
  /\ pc' = [pc EXCEPT ![w] = "write"]
  /\ cur' = [cur EXCEPT ![w].scan = lastScan + 1]
  /\ UNCHANGED <<rowVars, scanId, file, digest, seen, resume, live, sweepVars, budgets>>

\* update_heartbeat renews the lease and commits the batch, which needs its scan.
Heartbeat(w) ==
  /\ pc[w] = "write"
  /\ cur[w].scan \in scans
  /\ HeartbeatRow(cur[w].job, cur[w].token)
  /\ UNCHANGED <<dataVars, attemptVars, sweepVars, budgets>>

\* A heartbeat or the scan's stamp matched no row: cancelled, or taken over.
LoseJob(w) ==
  /\ \/ pc[w] = "parse" /\ cur[w].job \in file
     \/ pc[w] = "write"
  /\ ~Mine(w)
  /\ LookupThen(w, "fail")
  /\ UNCHANGED <<rowVars, dataVars, sweepVars, budgets>>

\* The parser raises (the next one is tried) or stalls (terminal).
ParserFails(w) ==
  /\ \/ pc[w] = "parse" /\ cur[w].job \in file
     \/ pc[w] = "write"
  /\ \E r \in {"next", "fail"} : LookupThen(w, r)
  /\ UNCHANGED <<rowVars, dataVars, sweepVars, budgets>>

\* SIGTERM, seen at a progress update.
Shutdown(w) ==
  /\ pc[w] = "write"
  /\ faults < MaxFaults
  /\ faults' = faults + 1
  /\ LookupThen(w, "release")
  /\ UNCHANGED <<rowVars, dataVars, sweepVars, asks>>

\* _execute_parser's last commit, which is not fenced.
ParserDone(w) ==
  /\ pc[w] = "write"
  /\ Goto(w, "parsed")
  /\ UNCHANGED <<rowVars, dataVars, sweepVars, budgets>>

\* Faulty: whatever scan the row names by now.
NamedByNow(w) == inProgress[cur[w].job]

\* The scan w's row names while it carries w's token, 0 for none.
Named(w) == IF started[cur[w].job] = cur[w].token THEN inProgress[cur[w].job] ELSE 0

\* _discard_attempt_scan: read the pointer, then delete what it names.
Lookup(w) ==
  /\ pc[w] = "lookup"
  /\ \/ Named(w) # 0 /\ DeleteThen(w, Named(w), resume[w])
     \/ Named(w) = 0 /\ After(w, resume[w])
  /\ UNCHANGED <<rowVars, dataVars, sweepVars, budgets>>

\* delete_partial_scan by the id read before; the foreign keys clear pointers.
Delete(w) ==
  /\ pc[w] = "delete"
  /\ scans' = scans \ {seen[w]}
  /\ inProgress' = Cleared(inProgress, seen[w])
  /\ scanId' = Cleared(scanId, seen[w])
  /\ After(w, resume[w])
  /\ UNCHANGED <<rowVars, file, lastScan, digest, writer, sweepVars, budgets>>

\* The cleanup raised (a lock wait, a dropped connection): nothing is deleted.
\* A claim then fails its job with the pointer kept; a parser chain stops.
DeleteFails(w) ==
  /\ pc[w] = "delete"
  /\ faults < MaxFaults
  /\ faults' = faults + 1
  /\ \/ /\ resume[w] = "parse"
        /\ \/ FailRow(cur[w].job, cur[w].token)
           \/ ~Mine(w) /\ UNCHANGED rowVars
        /\ EndAttempt(w, "idle")
     \/ resume[w] # "parse" /\ AfterRaise(w, resume[w]) /\ UNCHANGED rowVars
  /\ UNCHANGED <<dataVars, sweepVars, asks>>

\* processing -> completed with its scan, its stamp and no pointer, one commit.
Complete(w) ==
  /\ pc[w] = "parsed"
  /\ cur[w].scan \in scans
  /\ CompleteRow(cur[w].job, cur[w].token)
  /\ inProgress' = [inProgress EXCEPT ![cur[w].job] = 0]
  /\ scanId' = [scanId EXCEPT ![cur[w].job] = cur[w].scan]
  /\ digest' = Stamped(cur[w].job, cur[w].scan)
  /\ EndAttempt(w, "idle")
  /\ UNCHANGED <<file, scans, lastScan, writer, sweepVars, budgets>>

\* The scan was deleted meanwhile: the foreign key refuses the completion.
CompleteRefused(w) ==
  /\ pc[w] = "parsed"
  /\ Mine(w)
  /\ cur[w].scan \notin scans
  /\ Goto(w, "fail")
  /\ UNCHANGED <<rowVars, dataVars, sweepVars, budgets>>

\* Faulty: the import is kept, but the job neither shows it nor lets go of it.
KeptNotLinked(w) ==
  /\ pc[w] = "parsed"
  /\ FailedAttempt(cur[w].job, cur[w].token)
  /\ digest' = Stamped(cur[w].job, cur[w].scan)
  /\ EndAttempt(w, "idle")
  /\ UNCHANGED <<rowVars, inProgress, scanId, file, scans, lastScan, writer, sweepVars, budgets>>

\* Zero rows completed, and the row is still this attempt's failure: the
\* import is kept and linked to the cancelled job.
LinkLate(w) ==
  /\ pc[w] = "parsed"
  /\ FailedAttempt(cur[w].job, cur[w].token)
  /\ scanId[cur[w].job] = 0
  /\ cur[w].scan \in scans
  /\ inProgress' = [inProgress EXCEPT ![cur[w].job] = 0]
  /\ scanId' = [scanId EXCEPT ![cur[w].job] = cur[w].scan]
  /\ digest' = Stamped(cur[w].job, cur[w].scan)
  /\ EndAttempt(w, "idle")
  /\ UNCHANGED <<rowVars, file, scans, lastScan, writer, sweepVars, budgets>>

\* Zero rows completed, and somebody else owns the row, it has a scan, or the
\* link meets the foreign key (its handler's fenced failure matches nothing).
Superseded(w) ==
  /\ pc[w] = "parsed"
  /\ ~Mine(w)
  /\ ~ /\ FailedAttempt(cur[w].job, cur[w].token)
       /\ scanId[cur[w].job] = 0
       /\ cur[w].scan \in scans
  /\ EndAttempt(w, "idle")
  /\ UNCHANGED <<rowVars, dataVars, sweepVars, budgets>>

\* _fail_job_guarded: the fenced failure, then (AfterFail) what it left.
FailJob(w) ==
  /\ pc[w] = "fail"
  /\ \/ /\ FailRow(cur[w].job, cur[w].token)
        /\ Goto(w, "failed")
     \/ /\ ~Mine(w)
        /\ EndAttempt(w, "idle")
        /\ UNCHANGED rowVars
  /\ UNCHANGED <<dataVars, sweepVars, budgets>>

AfterFail(w) ==
  /\ pc[w] = "failed"
  /\ DiscardDeadScan(w, cur[w].job, TRUE, "done")
  /\ UNCHANGED <<rowVars, scanId, file, scans, lastScan, digest, writer, sweepVars, budgets>>

\* ShutdownRequested: the job goes back to the queue, fenced; the process ends.
ReleaseJob(w) ==
  /\ pc[w] = "release"
  /\ \/ ReleaseRow(cur[w].job, cur[w].token)
     \/ ~Mine(w) /\ UNCHANGED rowVars
  /\ EndAttempt(w, "down")
  /\ UNCHANGED <<dataVars, sweepVars, budgets>>

\* The watchdog's last resort: a fenced failure on its own session, then exit.
StallExit(w) ==
  /\ pc[w] \in {"parse", "write", "parsed"}
  /\ faults < MaxFaults
  /\ faults' = faults + 1
  /\ \/ FailRow(cur[w].job, cur[w].token)
     \/ ~Mine(w) /\ UNCHANGED rowVars
  /\ EndAttempt(w, "down")
  /\ UNCHANGED <<dataVars, sweepVars, asks>>

\* The process dies anywhere; its connections, and the lock, go with it.
Crash(w) ==
  /\ pc[w] # "down"
  /\ faults < MaxFaults
  /\ faults' = faults + 1
  /\ EndAttempt(w, "down")
  /\ UNCHANGED <<rowVars, dataVars, sweepVars, asks>>

\* The liveness connection drops while the worker lives on.
LoseLock(w) ==
  /\ live[w]
  /\ faults < MaxFaults
  /\ faults' = faults + 1
  /\ live' = [live EXCEPT ![w] = FALSE]
  /\ UNCHANGED <<rowVars, dataVars, pc, cur, seen, resume, sweepVars, asks>>

Boot(w) ==
  /\ pc[w] = "down"
  /\ Goto(w, "boot")
  /\ UNCHANGED <<rowVars, dataVars, sweepVars, budgets>>

---------------------------------------------------------------------------
(* The reaper, run by a worker before its first claim and between jobs.    *)

\* Faulty: only a lease past the cutoff counts, a dead worker does not.
ReapableByLease == {j \in Jobs : Stale(j)}

\* stale_condition, or a lease the liveness lock shows to be dead.
Reapable == {j \in Jobs : Stale(j) \/ (status[j] = "processing" /\ Over(j))}
Requeued == {j \in Reapable : reaps[j] + 1 <= MaxReaps /\ j \in file}

Reap(w) ==
  /\ pc[w] \in {"boot", "idle"}
  /\ ReapRows(Requeued, Reapable \ Requeued)
  /\ Goto(w, "reap")
  /\ todo' = [todo EXCEPT ![w] = Reapable \ Requeued]
  /\ skip' = [skip EXCEPT ![w] = Reapable \ Requeued]
  /\ UNCHANGED <<dataVars, budgets>>

\* Worker w takes j, the first job of its list.
TakeFirst(w, j) ==
  /\ FirstIn(todo[w], j)
  /\ todo' = [todo EXCEPT ![w] = @ \ {j}]

\* The jobs this pass failed, one by one, without asking their status again.
NextDead(w) ==
  /\ pc[w] = "reap"
  /\ \E j \in Jobs : TakeFirst(w, j) /\ DiscardDeadScan(w, j, FALSE, "reap")
  /\ UNCHANGED <<rowVars, scanId, file, scans, lastScan, digest, writer, skip, budgets>>

\* Faulty: a fresh lease spares the leftover of an attempt that is over.
LeftoversByLease(w) ==
  {j \in Jobs \ skip[w] : status[j] = "failed" /\ inProgress[j] # 0 /\ lease[j] # "fresh"}

\* The failed jobs that name a scan and whose attempt is over or past the
\* reaper's window.
Leftovers(w) ==
  {j \in Jobs \ skip[w] : /\ status[j] = "failed"
                          /\ inProgress[j] # 0
                          /\ lease[j] # "fresh" \/ Over(j)}

\* _discard_failed_jobs_leftovers: list them, then visit them one by one.
ListLeftovers(w) ==
  /\ pc[w] = "reap"
  /\ todo[w] = {}
  /\ todo' = [todo EXCEPT ![w] = Leftovers(w)]
  /\ skip' = [skip EXCEPT ![w] = {}]
  /\ Goto(w, "sweep")
  /\ UNCHANGED <<rowVars, dataVars, budgets>>

NextLeftover(w) ==
  /\ pc[w] = "sweep"
  /\ \E j \in Jobs : TakeFirst(w, j) /\ DiscardDeadScan(w, j, TRUE, "sweep")
  /\ UNCHANGED <<rowVars, scanId, file, scans, lastScan, digest, writer, skip, budgets>>

EndSweep(w) ==
  /\ pc[w] = "sweep"
  /\ todo[w] = {}
  /\ Goto(w, "idle")
  /\ UNCHANGED <<rowVars, dataVars, sweepVars, budgets>>

---------------------------------------------------------------------------
(* Operators, the API and the retention sweeps, under the row's lock.      *)

\* create_job: staged for a format review, or queued at once.
Upload(j) ==
  /\ \A k \in Jobs : k < j => status[k] # "none"
  /\ j \in Repeatable \/ (~InInventory(j) /\ Twins(j) = {})
  /\ \E st \in {"staged", "queued"} : InsertRow(j, st)
  /\ file' = file \cup {j}
  /\ UNCHANGED <<inProgress, scanId, scans, lastScan, digest, writer, attemptVars, sweepVars, budgets>>

\* queue_job: the start of a staged job and the retry of a failed one.  Of the
\* open twins only the one with the smallest id is looked at.
QueueJob(j) ==
  /\ asks < MaxAsks
  /\ j \in file
  /\ \/ j \in Repeatable
     \/ /\ ~InInventory(j)
        /\ \A k \in Jobs : FirstIn(Twins(j), k) => status[k] = "staged"
  /\ RetryRow(j, {"staged", "failed"}, 0)
  /\ asks' = asks + 1
  /\ UNCHANGED <<dataVars, attemptVars, sweepVars, faults>>

\* cancel_job: the row only; the running parse sees it at its next heartbeat.
Cancel(j) ==
  /\ CancelRow(j, {"queued", "processing"}, "failed")
  /\ UNCHANGED <<dataVars, attemptVars, sweepVars, budgets>>

\* discard_staged_job, expire_staged_jobs: the file goes before the commit
\* (or cannot be removed), so a process that dies between leaves a staged row.
Discard(j) ==
  /\ \/ CancelRow(j, {"staged"}, "failed") /\ file' \in {file, file \ {j}}
     \/ status[j] = "staged" /\ UNCHANGED rowVars /\ file' = file \ {j}
  /\ UNCHANGED <<inProgress, scanId, scans, lastScan, digest, writer, attemptVars, sweepVars, budgets>>

\* Faulty: every file past the window, whatever its job waits for.
ExpireAnyFile(j) ==
  /\ j \in file
  /\ file' = file \ {j}
  /\ UNCHANGED <<rowVars, inProgress, scanId, scans, lastScan, digest, writer, attemptVars, sweepVars, budgets>>

\* expire_retained_files: a finished job's file past the retention window.
ExpireFile(j) ==
  /\ status[j] \in {"completed", "failed"}
  /\ j \in file
  /\ file' = file \ {j}
  /\ UNCHANGED <<rowVars, inProgress, scanId, scans, lastScan, digest, writer, attemptVars, sweepVars, budgets>>

\* DELETE /scans/{id}: refused while an import is running in the project.
DeleteScan(s) ==
  /\ s \in scans
  /\ ~ImportRunning
  /\ scans' = scans \ {s}
  /\ inProgress' = Cleared(inProgress, s)
  /\ scanId' = Cleared(scanId, s)
  /\ UNCHANGED <<rowVars, file, lastScan, digest, writer, attemptVars, sweepVars, budgets>>

TimePasses(j) ==
  /\ LeaseAges(j)
  /\ UNCHANGED <<dataVars, attemptVars, sweepVars, budgets>>

---------------------------------------------------------------------------
\* What a worker does of its own accord, one enabled step at every pc but idle.
Advance(w) ==
  \/ Load(w) \/ MissingFile(w) \/ CreateScan(w) \/ LoseJob(w) \/ ParserDone(w)
  \/ Lookup(w) \/ Delete(w) \/ Complete(w) \/ CompleteRefused(w) \/ LinkLate(w)
  \/ Superseded(w) \/ FailJob(w) \/ AfterFail(w) \/ ReleaseJob(w) \/ Boot(w)
  \/ NextDead(w) \/ ListLeftovers(w) \/ NextLeftover(w) \/ EndSweep(w)

WorkerNext(w) ==
  \/ Advance(w)
  \/ \E j \in Jobs : Claim(w, j)
  \/ Reap(w)
  \/ Heartbeat(w) \/ ParserFails(w)
  \/ Shutdown(w) \/ DeleteFails(w) \/ StallExit(w) \/ Crash(w) \/ LoseLock(w)

OperatorNext ==
  \/ \E j \in Jobs : Upload(j) \/ QueueJob(j) \/ Cancel(j) \/ Discard(j) \/ ExpireFile(j) \/ TimePasses(j)
  \/ \E s \in ScanIds : DeleteScan(s)

Next == (\E w \in Workers : WorkerNext(w)) \/ OperatorNext

Spec == Init /\ [][Next]_vars

\* A worker between two steps takes the next one (the stall watchdog ends a
\* parse that does not; Docker restarts an exited process).  Between jobs the
\* loop polls for ever, so it meets the oldest queued row unlocked infinitely
\* often, and the reaper's deadline is checked after every job.
Fairness ==
  \A w \in Workers :
    /\ WF_vars(Advance(w))
    /\ SF_vars(Reap(w))
    /\ SF_vars(\E j \in Jobs : OldestQueued(j) /\ Claim(w, j))

FairSpec == Spec /\ Fairness

---------------------------------------------------------------------------
(* Safety.                                                                 *)

\* Every committed scan is either a finished import (it carries its file's
\* SHA-256) or still named by a job row, so that a cleanup can find it: no
\* crash, cancel, retry or reap leaves half an import nobody will remove.
NoOrphanScan ==
  \A s \in scans : digest[s] # 0 \/ \E j \in Jobs : inProgress[j] = s

\* A completed job shows the scan of the very attempt that holds its row: a
\* stale attempt never publishes over its successor, nor the other way round.
PublishedByOwner ==
  \A j \in Jobs :
    status[j] = "completed" /\ scanId[j] # 0 =>
      scanId[j] \in scans /\ writer[scanId[j]] = started[j] /\ inProgress[j] = 0

\* A job that is waiting or running has its upload on disk: no discard, expiry
\* or retention sweep takes the input away from under an accepted retry.
FileWhileNeeded ==
  \A j \in Jobs : status[j] \in {"queued", "processing"} => j \in file

\* The same upload is never in the inventory twice, whatever was cancelled
\* after its parser had finished and retried since.
ImportedOnce ==
  \A s, t \in scans :
    digest[s] # 0 /\ digest[s] = digest[t] =>
      s = t \/ \E j \in Repeatable : FileOf[j] = digest[s]

\* Two jobs of the same bytes are never both on their way into the inventory,
\* whichever order they are staged, started, cancelled and retried in.
OneOpenPerFile ==
  \A j, k \in Jobs \ Repeatable :
    /\ FileOf[j] = FileOf[k]
    /\ status[j] \in {"queued", "processing"}
    /\ status[k] \in {"queued", "processing"}
    => j = k

\* A cleanup deletes leftovers only: never a scan that is a finished import.
CleanupSparesFinished ==
  [][\A w \in Workers : pc[w] = "delete" /\ pc'[w] # "delete" =>
       {s \in scans : digest[s] # 0} \subseteq scans']_vars

\* A cleanup that goes on with one of `kinds` never deletes the scan that the
\* holder of a job is writing.
SparesLive(kinds) ==
  \A w, v \in Workers :
    /\ pc[w] = "delete" /\ pc'[w] # "delete" /\ resume[w] \in kinds
    /\ pc[v] \in {"write", "parsed"} /\ Mine(v) /\ cur[v].scan \in scans
    => cur[v].scan \in scans'

\* The fenced lookup and the `failed` re-check are enough: between reading the
\* pointer and deleting its scan, a retry and a peer's claim may land, and the
\* peer's own scan still stays.
FencedCleanupSparesLive ==
  [][SparesLive({"next", "fail", "release", "done", "sweep"})]_vars

\* The scan that a claim finds on its row, or that the reaper deletes for a job
\* it has just failed, is a dead attempt's.
LeftoverCleanupSparesLive == [][SparesLive({"parse", "reap"})]_vars

\* A failed job is refused a retry while another job is importing its file.
RetryRefusedWhileImporting ==
  [][\A j \in Jobs \ Repeatable :
       status[j] = "failed" /\ status'[j] = "queued" =>
         \A k \in Twins(j) : status[k] \notin {"queued", "processing"}]_vars

---------------------------------------------------------------------------
(* What the queue promises (QueueContract), shown by a refinement mapping. *)

Phase(st) ==
  CASE st = "none" -> "absent"
    [] st = "staged" -> "parked"
    [] st = "queued" -> "waiting"
    [] st = "processing" -> "held"
    [] st = "completed" -> "done"
    [] OTHER -> "stopped"

Contract == INSTANCE QueueContract WITH
  phase <- [j \in Jobs |-> Phase(status[j])],
  holder <- started,
  result <- [j \in Jobs |-> IF scanId[j] = 0 THEN 0 ELSE writer[scanId[j]]],
  spent <- clock

\* The queue keeps the contract's promises: fresh tokens, results published or
\* kept only for the holder, completed jobs final, stopped jobs never done.
KeepsContract == Contract!Spec

---------------------------------------------------------------------------
(* Liveness, under FairSpec.                                               *)

\* An accepted job ends: no crash, restart, failed cleanup or lost lock leaves
\* it queued or processing for ever.
JobsEnd ==
  \A j \in Jobs :
    status[j] \in {"queued", "processing"} ~> status[j] \in {"completed", "failed"}

\* What a dead, cancelled or failed attempt left in the inventory is removed,
\* or adopted as a finished import.
LeftoversGo ==
  \A s \in ScanIds : s \in scans /\ digest[s] = 0 ~> s \notin scans \/ digest[s] # 0

===========================================================================
