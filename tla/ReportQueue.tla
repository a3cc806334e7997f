---------------------------- MODULE ReportQueue ----------------------------
(***************************************************************************)
(* The report queue: renders run as jobs on the report worker and leave    *)
(* files behind - an expiring artifact that the job's row names, or the    *)
(* files of an issued report.                                              *)
(*                                                                         *)
(* The rows move as in JobTransitions.  A file is written before the       *)
(* commit that publishes it, so every action below is one commit or one    *)
(* change of the disk.  Two locks outlive an action: the reaper's on the   *)
(* job rows it decides about (held), and the one a worker takes on the     *)
(* report's row while it publishes or marks it failed (ReportLocked).      *)
(***************************************************************************)
EXTENDS JobTransitions

CONSTANTS
  Workers,    \* report worker processes
  Issues,     \* jobs that render the files of the one issued report
  Previews,   \* one person's previews of one draft in one format
  MaxDirs,    \* bound: artifact directories made in a behaviour
  MaxFaults,  \* bound: crashes and restarts
  MaxDrops,   \* bound: statements, commits or copies that fail, or answers that are lost
  MaxAsks     \* bound: retries by operators

ASSUME KindsAssumption == /\ Issues \subseteq Jobs
                          /\ Previews \subseteq Jobs \ Issues
ASSUME BoundsAssumption ==
  MaxDirs \in Nat /\ MaxFaults \in Nat /\ MaxDrops \in Nat /\ MaxAsks \in Nat

\* The inventory downloads: the only jobs whose routes offer retry and cancel.
Downloads == Jobs \ (Issues \cup Previews)

VARIABLES
  result,    \* result[j]: the directory of result_path, 0 for NULL
  past,      \* jobs past their expires_at
  gone,      \* jobs whose row was deleted (their columns stay as they were)
  render,    \* the report: "draft", then its render_status
  recorded,  \* the attempt whose hashes the report's file rows hold, 0 for none
  onDisk,    \* the attempt that last wrote the report's folder
  dirs,      \* artifact directories on disk
  lastDir,   \* directories made so far
  madeBy,    \* madeBy[d]: the job in directory d's name, and (history) its attempt
  aged,      \* directories older than the sweep's grace period
  pc,        \* pc[w]: where worker w is
  cur,       \* cur[w]: the attempt w runs
  mayFail,   \* mayFail[w]: w read that the report is to be marked failed
  held,      \* held[w]: job rows the reaper w has locked
  expired,   \* expired[w]: expired jobs whose rows w is about to delete
  orphans,   \* orphans[w]: directories w's sweep has found no reason to spare
  faults,    \* crashes and restarts so far
  drops,     \* dropped statements so far
  asks       \* retries so far

jobVars == <<rowVars, result, past, gone>>
reportVars == <<render, recorded, onDisk>>
diskVars == <<dirs, lastDir, madeBy, aged>>
sweepVars == <<expired, orphans>>
budgets == <<faults, drops, asks>>
vars == <<jobVars, reportVars, diskVars, pc, cur, mayFail, held, sweepVars, budgets>>

Dirs == 1..MaxDirs
\* token: what the claim handed out; claim: started_at as the render read it.
NoAttempt == [job |-> 0, token |-> 0, claim |-> 0, dir |-> 0]

Steps == {"down", "idle", "claimed", "render", "publish", "broken", "mark", "close", "written",
          "lost", "failing", "discard", "reap", "expire", "cleanup", "sweep", "spare", "remove"}

TypeOK ==
  /\ RowsTypeOK
  /\ result \in [Jobs -> 0..lastDir]
  /\ past \subseteq Jobs
  /\ gone \subseteq past
  /\ render \in {"draft", "pending", "done", "failed"}
  /\ recorded \in Tokens
  /\ onDisk \in Tokens
  /\ lastDir \in 0..MaxDirs
  /\ dirs \subseteq 1..lastDir
  /\ madeBy \in [Dirs -> [job : Jobs \cup {0}, token : Tokens]]
  /\ aged \subseteq dirs
  /\ pc \in [Workers -> Steps]
  /\ cur \in [Workers -> [job : Jobs \cup {0}, token : Tokens, claim : Tokens, dir : 0..lastDir]]
  /\ mayFail \in [Workers -> BOOLEAN]
  /\ held \in [Workers -> SUBSET Jobs]
  /\ expired \in [Workers -> SUBSET past]
  /\ orphans \in [Workers -> SUBSET (1..lastDir)]
  /\ faults \in 0..MaxFaults
  /\ drops \in 0..MaxDrops
  /\ asks \in 0..MaxAsks

Init ==
  /\ RowsInit
  /\ result = [j \in Jobs |-> 0]
  /\ past = {}
  /\ gone = {}
  /\ render = "draft"
  /\ recorded = 0
  /\ onDisk = 0
  /\ dirs = {}
  /\ lastDir = 0
  /\ madeBy = [d \in Dirs |-> [job |-> 0, token |-> 0]]
  /\ aged = {}
  /\ pc = [w \in Workers |-> "idle"]
  /\ cur = [w \in Workers |-> NoAttempt]
  /\ mayFail = [w \in Workers |-> FALSE]
  /\ held = [w \in Workers |-> {}]
  /\ expired = [w \in Workers |-> {}]
  /\ orphans = [w \in Workers |-> {}]
  /\ faults = 0
  /\ drops = 0
  /\ asks = 0

---------------------------------------------------------------------------
(* What the actions ask of a state, and the worker's moves.                *)

Job(w) == cur[w].job
Mine(w) == Job(w) \in Jobs /\ Owns(Job(w), cur[w].token)

\* No reaper holds j's row: a fenced write of it goes through.
Free(j) == \A v \in Workers : j \notin held[v]

\* A worker is between locking the report's row and its commit.
ReportLocked == \E v \in Workers : pc[v] \in {"publish", "mark"}

\* _still_claimed, asked with the token the render read.
StillClaimed(w) == Owns(Job(w), cur[w].claim)

\* Faulty: the newest preview is the one superseded.
OldestKept == {j \in Previews : /\ status[j] = "queued"
                                /\ \E k \in Previews : k < j /\ status[k] = "queued"}

\* _supersede_repeated_previews: queued previews with a newer queued one.
Superseded == {j \in Previews : /\ status[j] = "queued"
                                /\ \E k \in Previews : k > j /\ status[k] = "queued"}

\* An issued report's render goes before anything else, then the oldest.
NextUp(j) ==
  /\ status[j] = "queued"
  /\ \A k \in Jobs : status[k] = "queued" =>
       IF (j \in Issues) = (k \in Issues) THEN j <= k ELSE j \in Issues

LiveIssueJob == \E j \in Issues : status[j] \in {"queued", "processing"}

Goto(w, step) == pc' = [pc EXCEPT ![w] = step]

\* The worker is done with its attempt and goes to `step` with nothing in hand.
EndAttempt(w, step) ==
  /\ Goto(w, step)
  /\ cur' = [cur EXCEPT ![w] = NoAttempt]
  /\ mayFail' = [mayFail EXCEPT ![w] = FALSE]

\* Faulty: what was known of the removed directories outlives them.
RemoveKeepsAge(D) == dirs' = dirs \ D /\ UNCHANGED <<aged, lastDir, madeBy>>

Remove(D) ==
  /\ dirs' = dirs \ D
  /\ aged' = aged \ D
  /\ UNCHANGED <<lastDir, madeBy>>

Fault == faults < MaxFaults /\ faults' = faults + 1 /\ UNCHANGED <<drops, asks>>
Drop == drops < MaxDrops /\ drops' = drops + 1 /\ UNCHANGED <<faults, asks>>

---------------------------------------------------------------------------
(* A worker's job.                                                         *)

\* poll_and_run_one: repeated previews are cancelled and a job is claimed, in
\* one commit.
ClaimRows(j) ==
  /\ status[j] = "queued"
  /\ j \notin Superseded
  /\ clock < MaxClaims
  /\ clock' = clock + 1
  /\ status' = [k \in Jobs |-> IF k = j THEN "processing"
                               ELSE IF k \in Superseded THEN "cancelled" ELSE status[k]]
  /\ started' = [started EXCEPT ![j] = clock + 1]
  /\ lease' = [lease EXCEPT ![j] = "fresh"]
  /\ UNCHANGED reaps

Claim(w, j) ==
  /\ pc[w] = "idle"
  /\ ClaimRows(j)
  /\ cur' = [cur EXCEPT ![w] = [NoAttempt EXCEPT !.job = j, !.token = clock + 1]]
  /\ Goto(w, "claimed")
  /\ UNCHANGED <<result, past, gone, reportVars, diskVars, mayFail, held, sweepVars, budgets>>

\* _run_job and run_client_job read the job, its token and the report.
Load(w) ==
  /\ pc[w] = "claimed"
  /\ IF Job(w) \in gone
     THEN EndAttempt(w, "idle")
     ELSE /\ cur' = [cur EXCEPT ![w].claim = started[Job(w)]]
          /\ Goto(w, IF Job(w) \in Issues /\ render = "done" THEN "close" ELSE "render")
          /\ UNCHANGED mayFail
  /\ UNCHANGED <<jobVars, reportVars, diskVars, held, sweepVars, budgets>>

\* The renewal thread, until its job's row is no longer this attempt's (a
\* renewal of a fresh lease changes nothing).
Renew(w) ==
  /\ pc[w] \in {"claimed", "render", "publish", "broken", "mark", "close", "written", "failing"}
  /\ lease[Job(w)] = "old"
  /\ Free(Job(w))
  /\ HeartbeatRow(Job(w), cur[w].token)
  /\ UNCHANGED <<result, past, gone, reportVars, diskVars, pc, cur, mayFail, held, sweepVars, budgets>>

\* The render is made and its file written to a directory of the attempt's own.
Write(w) ==
  /\ pc[w] = "render"
  /\ Job(w) \notin Issues
  /\ lastDir < MaxDirs
  /\ lastDir' = lastDir + 1
  /\ dirs' = dirs \cup {lastDir + 1}
  /\ madeBy' = [madeBy EXCEPT ![lastDir + 1] = [job |-> Job(w), token |-> cur[w].token]]
  /\ cur' = [cur EXCEPT ![w].dir = lastDir + 1]
  /\ Goto(w, "written")
  /\ UNCHANGED <<jobVars, reportVars, aged, mayFail, held, sweepVars, budgets>>

\* Faulty: an issue render fails like a download, the report is not marked.
RenderFailsQuietly(w) ==
  /\ pc[w] = "render"
  /\ Goto(w, "failing")
  /\ UNCHANGED <<jobVars, reportVars, diskVars, cur, mayFail, held, sweepVars, budgets>>

\* Quarto, a template or the data fails the render.
RenderFails(w) ==
  /\ pc[w] = "render"
  /\ Goto(w, IF Job(w) \in Issues THEN "broken" ELSE "failing")
  /\ UNCHANGED <<jobVars, reportVars, diskVars, cur, mayFail, held, sweepVars, budgets>>

\* The row names the artifact if it is still this attempt's.
PublishArtifact(w) ==
  /\ Free(Job(w))
  /\ CompleteRow(Job(w), cur[w].token)
  /\ result' = [result EXCEPT ![Job(w)] = cur[w].dir]

\* Fenced completion; zero rows means the artifact is nobody's (DropArtifact).
Finish(w) ==
  /\ pc[w] = "written"
  /\ \/ PublishArtifact(w) /\ EndAttempt(w, "idle")
     \/ ~Mine(w) /\ Goto(w, "lost") /\ UNCHANGED <<rowVars, result, cur, mayFail>>
  /\ UNCHANGED <<past, gone, reportVars, diskVars, held, sweepVars, budgets>>

\* The completion raises: nothing was committed, or its answer was lost.
FinishRaises(w) ==
  /\ pc[w] = "written"
  /\ Drop
  /\ PublishArtifact(w) \/ UNCHANGED <<rowVars, result>>
  /\ Goto(w, "failing")
  /\ UNCHANGED <<past, gone, reportVars, diskVars, cur, mayFail, held, sweepVars>>

DropArtifact(w) ==
  /\ pc[w] = "lost"
  /\ Remove({cur[w].dir})
  /\ EndAttempt(w, "idle")
  /\ UNCHANGED <<jobVars, reportVars, held, sweepVars, budgets>>

---------------------------------------------------------------------------
(* The files of the issued report.                                         *)

\* Faulty: the report is looked at without its lock.
CopyFilesUnlocked(w) ==
  /\ pc[w] = "render"
  /\ Job(w) \in Issues
  /\ IF render = "done"
     THEN Goto(w, "close") /\ UNCHANGED onDisk
     ELSE Goto(w, "publish") /\ onDisk' = cur[w].token
  /\ UNCHANGED <<jobVars, render, recorded, diskVars, cur, mayFail, held, sweepVars, budgets>>

\* Faulty: the report is marked done before its files' rows are written.
CopyFilesAndMark(w) ==
  /\ pc[w] = "render"
  /\ Job(w) \in Issues
  /\ ~ReportLocked
  /\ render' = "done"
  /\ IF render = "done"
     THEN Goto(w, "close") /\ UNCHANGED onDisk
     ELSE Goto(w, "publish") /\ onDisk' = cur[w].token
  /\ UNCHANGED <<jobVars, recorded, diskVars, cur, mayFail, held, sweepVars, budgets>>

\* _render_issued locks the report: published already, or copy the files now.
CopyFiles(w) ==
  /\ pc[w] = "render"
  /\ Job(w) \in Issues
  /\ ~ReportLocked
  /\ IF render = "done"
     THEN Goto(w, "close") /\ UNCHANGED onDisk
     ELSE Goto(w, "publish") /\ onDisk' = cur[w].token
  /\ UNCHANGED <<jobVars, render, recorded, diskVars, cur, mayFail, held, sweepVars, budgets>>

\* The file rows, their hashes and the status, one commit under the lock.
Publish(w) ==
  /\ pc[w] = "publish"
  /\ recorded' = cur[w].token
  /\ render' = "done"
  /\ Goto(w, "close")
  /\ UNCHANGED <<jobVars, onDisk, diskVars, cur, mayFail, held, sweepVars, budgets>>

PublishRaises(w) ==
  /\ pc[w] = "publish"
  /\ Drop
  /\ \/ recorded' = cur[w].token /\ render' = "done"
     \/ UNCHANGED <<recorded, render>>
  /\ Goto(w, "broken")
  /\ UNCHANGED <<jobVars, onDisk, diskVars, cur, mayFail, held, sweepVars>>

\* Faulty: the handler does not look whether the commit that raised had landed.
JudgeByClaim(w) ==
  /\ pc[w] = "broken"
  /\ ~ReportLocked
  /\ mayFail' = [mayFail EXCEPT ![w] = StillClaimed(w)]
  /\ Goto(w, "mark")
  /\ UNCHANGED <<jobVars, reportVars, diskVars, cur, held, sweepVars, budgets>>

\* run_client_job's handler locks the report and asks whether to mark it.
Judge(w) ==
  /\ pc[w] = "broken"
  /\ ~ReportLocked
  /\ mayFail' = [mayFail EXCEPT ![w] = render # "done" /\ StillClaimed(w)]
  /\ Goto(w, "mark")
  /\ UNCHANGED <<jobVars, reportVars, diskVars, cur, held, sweepVars, budgets>>

Mark(w) ==
  /\ pc[w] = "mark"
  /\ render' = IF mayFail[w] THEN "failed" ELSE render
  /\ mayFail' = [mayFail EXCEPT ![w] = FALSE]
  /\ Goto(w, "failing")
  /\ UNCHANGED <<jobVars, recorded, onDisk, diskVars, cur, held, sweepVars, budgets>>

\* The handler itself raises: the report is not marked.
MarkRaises(w) ==
  /\ pc[w] = "mark"
  /\ Drop
  /\ mayFail' = [mayFail EXCEPT ![w] = FALSE]
  /\ Goto(w, "failing")
  /\ UNCHANGED <<jobVars, reportVars, diskVars, cur, held, sweepVars>>

\* The job of a published report completes, whoever published it.
Close(w) ==
  /\ pc[w] = "close"
  /\ \/ Free(Job(w)) /\ CompleteRow(Job(w), cur[w].token)
     \/ ~Mine(w) /\ UNCHANGED rowVars
  /\ EndAttempt(w, "idle")
  /\ UNCHANGED <<result, past, gone, reportVars, diskVars, held, sweepVars, budgets>>

CloseRaises(w) ==
  /\ pc[w] = "close"
  /\ Drop
  /\ \/ Free(Job(w)) /\ CompleteRow(Job(w), cur[w].token)
     \/ UNCHANGED rowVars
  /\ Goto(w, "failing")
  /\ UNCHANGED <<result, past, gone, reportVars, diskVars, cur, mayFail, held, sweepVars>>

---------------------------------------------------------------------------
(* Failure, shutdown and crash.                                            *)

\* The fenced failure; an attempt with a directory then looks at its row again.
FailJob(w) ==
  /\ pc[w] = "failing"
  /\ \/ Free(Job(w)) /\ FailRow(Job(w), cur[w].token)
     \/ ~Mine(w) /\ UNCHANGED rowVars
  /\ IF cur[w].dir = 0
     THEN EndAttempt(w, "idle")
     ELSE Goto(w, "discard") /\ UNCHANGED <<cur, mayFail>>
  /\ UNCHANGED <<result, past, gone, reportVars, diskVars, held, sweepVars, budgets>>

\* The failure cannot be written either: the attempt is left to the reaper, its
\* directory to the sweep.
FailRaises(w) ==
  /\ pc[w] = "failing"
  /\ Drop
  /\ EndAttempt(w, "idle")
  /\ UNCHANGED <<jobVars, reportVars, diskVars, held, sweepVars>>

\* Faulty: a failed attempt's file always goes.
DiscardAlways(w) ==
  /\ pc[w] = "discard"
  /\ Remove({cur[w].dir})
  /\ EndAttempt(w, "idle")
  /\ UNCHANGED <<jobVars, reportVars, held, sweepVars, budgets>>

\* _discard_unpublished: the file goes unless the row names it after all.
Discard(w) ==
  /\ pc[w] = "discard"
  /\ IF Job(w) \notin gone /\ result[Job(w)] = cur[w].dir
     THEN UNCHANGED diskVars
     ELSE Remove({cur[w].dir})
  /\ EndAttempt(w, "idle")
  /\ UNCHANGED <<jobVars, reportVars, held, sweepVars, budgets>>

\* SIGTERM, seen between two formats of a Quarto render.
Shutdown(w) ==
  /\ pc[w] = "render"
  /\ Job(w) \notin Downloads
  /\ Fault
  /\ \/ Free(Job(w)) /\ ReleaseRow(Job(w), cur[w].token)
     \/ ~Mine(w) /\ UNCHANGED rowVars
  /\ EndAttempt(w, "down")
  /\ UNCHANGED <<result, past, gone, reportVars, diskVars, held, sweepVars>>

\* The process dies anywhere; its locks go with its connections.
Crash(w) ==
  /\ pc[w] # "down"
  /\ Fault
  /\ EndAttempt(w, "down")
  /\ held' = [held EXCEPT ![w] = {}]
  /\ expired' = [expired EXCEPT ![w] = {}]
  /\ orphans' = [orphans EXCEPT ![w] = {}]
  /\ UNCHANGED <<jobVars, reportVars, diskVars>>

Boot(w) ==
  /\ pc[w] = "down"
  /\ Goto(w, "idle")
  /\ UNCHANGED <<jobVars, reportVars, diskVars, cur, mayFail, held, sweepVars, budgets>>

---------------------------------------------------------------------------
(* The periodic tasks, between two jobs: reap, expire, sweep.              *)

Requeued(S) == {j \in S : reaps[j] + 1 <= MaxReaps}

\* The stale rows are locked one by one; for an issue render that is out of
\* retries the report is read, without its lock.
ReapLock(w) ==
  /\ pc[w] = "idle"
  /\ LET mine == {j \in Jobs : Stale(j) /\ Free(j)}
     IN /\ held' = [held EXCEPT ![w] = mine]
        /\ mayFail' = [mayFail EXCEPT ![w] =
             render = "pending" /\ (mine \ Requeued(mine)) \cap Issues # {}]
  /\ Goto(w, "reap")
  /\ UNCHANGED <<jobVars, reportVars, diskVars, cur, sweepVars, budgets>>

\* Faulty: the render is given up and its report stays pending.
ReapJobsOnly(w) ==
  /\ pc[w] = "reap"
  /\ ReapRows(Requeued(held[w]), held[w] \ Requeued(held[w]))
  /\ EndAttempt(w, "expire")
  /\ held' = [held EXCEPT ![w] = {}]
  /\ UNCHANGED <<result, past, gone, reportVars, diskVars, sweepVars, budgets>>

\* One commit: the rows, and the report as it was read.
ReapCommit(w) ==
  /\ pc[w] = "reap"
  /\ ReapRows(Requeued(held[w]), held[w] \ Requeued(held[w]))
  /\ IF mayFail[w] THEN ~ReportLocked /\ render' = "failed" ELSE UNCHANGED render
  /\ EndAttempt(w, "expire")
  /\ held' = [held EXCEPT ![w] = {}]
  /\ UNCHANGED <<result, past, gone, recorded, onDisk, diskVars, sweepVars, budgets>>

\* cleanup_expired removes the files of the expired rows.  Its `now` also
\* decides which directories are old enough to be swept.
Expire(w) ==
  /\ pc[w] = "expire"
  /\ Remove({result[j] : j \in past \ gone})
  /\ expired' = [expired EXCEPT ![w] = past \ gone]
  /\ orphans' = [orphans EXCEPT ![w] = aged']
  /\ Goto(w, "cleanup")
  /\ UNCHANGED <<jobVars, reportVars, cur, mayFail, held, budgets>>

\* Then it deletes the rows it had listed.
DeleteExpired(w) ==
  /\ pc[w] = "cleanup"
  /\ gone' = gone \cup expired[w]
  /\ expired' = [expired EXCEPT ![w] = {}]
  /\ Goto(w, "sweep")
  /\ UNCHANGED <<rowVars, result, past, reportVars, diskVars, cur, mayFail, held, orphans, budgets>>

\* reconcile_orphan_artifacts spares the directories the rows name ...
SpareNamed(w) ==
  /\ pc[w] = "sweep"
  /\ orphans' = [orphans EXCEPT ![w] = @ \ {result[j] : j \in Jobs \ gone}]
  /\ Goto(w, "spare")
  /\ UNCHANGED <<jobVars, reportVars, diskVars, cur, mayFail, held, expired, budgets>>

\* Faulty: a directory is spared while its job's row exists.
SpareAnyJob(w) ==
  /\ pc[w] = "spare"
  /\ orphans' = [orphans EXCEPT ![w] = {d \in @ : madeBy[d].job \in gone}]
  /\ Goto(w, "remove")
  /\ UNCHANGED <<jobVars, reportVars, diskVars, cur, mayFail, held, expired, budgets>>

\* ... and, in a second statement, those of jobs that are processing ...
SpareProcessing(w) ==
  /\ pc[w] = "spare"
  /\ orphans' = [orphans EXCEPT ![w] = {d \in @ : status[madeBy[d].job] # "processing"}]
  /\ Goto(w, "remove")
  /\ UNCHANGED <<jobVars, reportVars, diskVars, cur, mayFail, held, expired, budgets>>

\* ... and removes the others.
RemoveOrphans(w) ==
  /\ pc[w] = "remove"
  /\ Remove(orphans[w])
  /\ orphans' = [orphans EXCEPT ![w] = {}]
  /\ Goto(w, "idle")
  /\ UNCHANGED <<jobVars, reportVars, cur, mayFail, held, expired, budgets>>

---------------------------------------------------------------------------
(* The API, and time.                                                      *)

\* Rows are numbered as they are made.
InTurn(j) == \A k \in Jobs : k < j => status[k] # "none"

\* Issuing freezes the draft and queues its render in one commit.
Issue(j) ==
  /\ j \in Issues /\ InTurn(j)
  /\ render = "draft"
  /\ render' = "pending"
  /\ InsertRow(j, "queued")
  /\ UNCHANGED <<result, past, gone, recorded, onDisk, diskVars, pc, cur, mayFail, held, sweepVars, budgets>>

\* POST /render: after a failure, or when nothing is rendering.
Rerender(j) ==
  /\ j \in Issues /\ InTurn(j)
  /\ ~ReportLocked
  /\ render = "failed" \/ (render = "pending" /\ ~LiveIssueJob)
  /\ render' = "pending"
  /\ InsertRow(j, "queued")
  /\ UNCHANGED <<result, past, gone, recorded, onDisk, diskVars, pc, cur, mayFail, held, sweepVars, budgets>>

\* A preview or an inventory download is asked for.
Ask(j) ==
  /\ j \notin Issues /\ InTurn(j)
  /\ InsertRow(j, "queued")
  /\ UNCHANGED <<result, past, gone, reportVars, diskVars, pc, cur, mayFail, held, sweepVars, budgets>>

\* retry_job keeps the reaper's count.
Retry(j) ==
  /\ j \in Downloads
  /\ asks < MaxAsks
  /\ asks' = asks + 1
  /\ RetryRow(j, {"failed"}, reaps[j])
  /\ UNCHANGED <<result, past, gone, reportVars, diskVars, pc, cur, mayFail, held, sweepVars, faults, drops>>

Cancel(j) ==
  /\ j \in Downloads
  /\ CancelRow(j, {"queued"}, "cancelled")
  /\ UNCHANGED <<result, past, gone, reportVars, diskVars, pc, cur, mayFail, held, sweepVars, budgets>>

LeaseExpires(j) ==
  /\ LeaseAges(j)
  /\ UNCHANGED <<result, past, gone, reportVars, diskVars, pc, cur, mayFail, held, sweepVars, budgets>>

\* A completed job's artifact passes its expires_at.
ArtifactExpires(j) ==
  /\ status[j] = "completed"
  /\ j \notin past
  /\ past' = past \cup {j}
  /\ UNCHANGED <<rowVars, result, gone, reportVars, diskVars, pc, cur, mayFail, held, sweepVars, budgets>>

DirAges(d) ==
  /\ d \in dirs \ aged
  /\ aged' = aged \cup {d}
  /\ UNCHANGED <<jobVars, reportVars, dirs, lastDir, madeBy, pc, cur, mayFail, held, sweepVars, budgets>>

---------------------------------------------------------------------------
\* What a worker does of its own accord, one enabled step at every pc but idle
\* and, while another worker holds a lock it needs, at those that wait for it.
Advance(w) ==
  \/ Load(w) \/ Write(w) \/ Finish(w) \/ DropArtifact(w)
  \/ CopyFiles(w) \/ Publish(w) \/ Judge(w) \/ Mark(w) \/ Close(w)
  \/ FailJob(w) \/ Discard(w) \/ Boot(w)
  \/ ReapCommit(w) \/ Expire(w) \/ DeleteExpired(w) \/ SpareNamed(w)
  \/ SpareProcessing(w) \/ RemoveOrphans(w)

WorkerNext(w) ==
  \/ Advance(w)
  \/ \E j \in Jobs : Claim(w, j)
  \/ ReapLock(w)
  \/ Renew(w) \/ RenderFails(w)
  \/ FinishRaises(w) \/ PublishRaises(w) \/ MarkRaises(w) \/ CloseRaises(w) \/ FailRaises(w)
  \/ Shutdown(w) \/ Crash(w)

OutsideNext ==
  \/ \E j \in Jobs : Issue(j) \/ Rerender(j) \/ Ask(j) \/ Retry(j) \/ Cancel(j)
  \/ \E j \in Jobs : LeaseExpires(j) \/ ArtifactExpires(j)
  \/ \E d \in Dirs : DirAges(d)

Next == (\E w \in Workers : WorkerNext(w)) \/ OutsideNext

Spec == Init /\ [][Next]_vars

\* The loop between two jobs polls for ever and checks its periodic deadline
\* after every job; a worker in a job takes its next step; a lease that nobody
\* renews runs out, and a directory grows old.
Fairness ==
  /\ \A w \in Workers :
       /\ WF_vars(Advance(w))
       /\ SF_vars(ReapLock(w))
       /\ SF_vars(\E j \in Jobs : NextUp(j) /\ Claim(w, j))
  /\ \A j \in Jobs : WF_vars(LeaseExpires(j))
  /\ \A d \in Dirs : WF_vars(DirAges(d))

FairSpec == Spec /\ Fairness

---------------------------------------------------------------------------
(* Safety.                                                                 *)

\* A download that is offered is on disk: a completed job's artifact stays
\* until it expires, whatever was raised, retried, reaped or swept meanwhile.
ArtifactStays ==
  \A j \in Jobs \ Issues : status[j] = "completed" /\ j \notin past => result[j] \in dirs

\* A preview is only cancelled for a newer one of the same draft.
NewestPreviewRuns ==
  \A j \in Previews : status[j] = "cancelled" =>
    \E k \in Previews : k > j /\ status[k] \notin {"none", "cancelled"}

\* A report that says its files are rendered serves the files whose hashes it
\* recorded: a crash or a second attempt never leaves others in their place.
PublishedFilesMatch == render = "done" => recorded # 0 /\ onDisk = recorded

\* A pending report has a render on its way: no crash, restart, stale attempt
\* or reap leaves it waiting for nobody.
PendingHasJob == render = "pending" => LiveIssueJob

\* An issued report's files, once published, are never written again.
NeverReplaced == [][recorded # 0 => onDisk' = onDisk /\ recorded' = recorded]_vars

---------------------------------------------------------------------------
(* What the queue promises (QueueContract).  A job of the issued report    *)
(* shows no file of its own: it shows the attempt that closed it.          *)

Phase(st) ==
  CASE st = "none" -> "absent"
    [] st = "queued" -> "waiting"
    [] st = "processing" -> "held"
    [] st = "completed" -> "done"
    [] OTHER -> "stopped"

Shown(j) ==
  IF status[j] # "completed" THEN 0
  ELSE IF j \in Issues THEN started[j] ELSE madeBy[result[j]].token

Contract == INSTANCE QueueContract WITH
  phase <- [j \in Jobs |-> Phase(status[j])],
  holder <- started,
  result <- [j \in Jobs |-> Shown(j)],
  spent <- clock

\* Artifacts are published by the attempt that holds the job and by no other,
\* completed jobs are final and stopped ones are never done without a new claim.
KeepsContract == Contract!Spec

---------------------------------------------------------------------------
(* Liveness, under FairSpec.                                               *)

\* A report that waits for its files gets them or is shown as failed; only if
\* the marking itself was dropped may it wait with no job, and then POST /render
\* takes it.
RenderSettles ==
  render = "pending" ~> render \in {"done", "failed"} \/ (drops > 0 /\ ~LiveIssueJob)

\* A directory no row names is removed, whatever its attempt died of.
NoArtifactLeaks ==
  \A d \in Dirs : d \in dirs ~> d \notin dirs \/ \E j \in Jobs \ gone : result[j] = d

===========================================================================
