----------------------- MODULE IngestionQueueProofs -----------------------
(***************************************************************************)
(* Proofs about the ingestion queue, for any number of jobs, workers,      *)
(* parsers, scans, faults and operator requests.                           *)
(*                                                                         *)
(* The invariant that matters is NoOrphanScan: it is not inductive alone,  *)
(* because the stamp of a new scan overwrites the pointer of its job, and  *)
(* a completion clears it.  IInv adds what each worker knows of its own    *)
(* job's pointer at every step, for as long as the row carries its token.  *)
(*                                                                         *)
(* Two sections build on it: CInv, about the uploads and their jobs, with  *)
(* the refinement of QueueContract, and DInv, about the scans that workers *)
(* come back to delete and about importing an upload once.                 *)
(***************************************************************************)
EXTENDS IngestionQueue, TLAPS, WellFoundedInduction

\* The steps at which a worker has an attempt of its own.
InAttempt(w) ==
  \/ pc[w] \in {"claimed", "parse", "write", "parsed", "lookup", "fail", "failed", "release"}
  \/ pc[w] = "delete" /\ resume[w] \in {"parse", "next", "fail", "release", "done"}

HasAttempt ==
  \A w \in Workers :
    /\ cur[w].token # 0 => cur[w].job \in Jobs
    /\ InAttempt(w) => cur[w].token # 0

\* No two workers run attempts under one token.
OwnTokens ==
  \A w, v \in Workers : w # v /\ cur[w].token # 0 => cur[w].token # cur[v].token

\* The row carries the token of w's attempt, whatever its status by now.
Holding(w) == cur[w].token # 0 /\ started[cur[w].job] = cur[w].token

\* What w may rely on about its job's pointer while its token is on the row.
PointerKnown(w) ==
  Holding(w) =>
    /\ pc[w] = "parse" => inProgress[cur[w].job] = 0
    /\ pc[w] \in {"write", "parsed"} => inProgress[cur[w].job] \in {0, cur[w].scan}
    /\ pc[w] = "delete" /\ resume[w] \in {"parse", "next"} => inProgress[cur[w].job] \in {0, seen[w]}

\* A scan a job shows is in the database and carries its file's SHA-256.
ShownIsStamped ==
  \A j \in Jobs : scanId[j] # 0 => scanId[j] \in scans /\ digest[scanId[j]] # 0

\* The scan an attempt writes is one it created.
WritesOwnScan ==
  \A w \in Workers : pc[w] \in {"write", "parsed"} =>
    cur[w].scan \in 1..lastScan /\ writer[cur[w].scan] = cur[w].token

IInv ==
  /\ TypeOK
  /\ HasAttempt
  /\ OwnTokens
  /\ \A w \in Workers : PointerKnown(w)
  /\ ShownIsStamped
  /\ WritesOwnScan
  /\ NoOrphanScan
  /\ PublishedByOwner

---------------------------------------------------------------------------
(* Types.  Each helper the actions are built from keeps the workers' types. *)

USE DEF Steps, Resumes

\* A move of one worker to another step of its program leaves the workers'
\* attempts, cursors and locks well typed.
LEMMA GotoType ==
  ASSUME AttemptTypeOK, UNCHANGED clock, NEW w \in Workers, NEW p \in Steps, Goto(w, p)
  PROVE  AttemptTypeOK'
BY DEF AttemptTypeOK, Goto, Attempts, Tokens

\* A worker that drops its attempt (the end of _run_job) leaves them well typed.
LEMMA EndAttemptType ==
  ASSUME AttemptTypeOK, UNCHANGED clock, clock \in Nat, NEW w \in Workers, NEW p \in Steps, EndAttempt(w, p)
  PROVE  AttemptTypeOK'
<1>1. NoAttempt \in Attempts
  BY ParsersAssumption, BoundsAssumption DEF NoAttempt, Attempts, Tokens
<1> QED
  BY <1>1, BoundsAssumption DEF AttemptTypeOK, EndAttempt, Attempts, Tokens

\* A worker that goes to look its attempt's scan up (_discard_attempt_scan)
\* leaves them well typed.
LEMMA LookupThenType ==
  ASSUME AttemptTypeOK, UNCHANGED clock, NEW w \in Workers, NEW r \in Resumes, LookupThen(w, r)
  PROVE  AttemptTypeOK'
BY DEF AttemptTypeOK, LookupThen, Attempts, Tokens

\* A worker that goes to delete a scan it has read from a pointer leaves them
\* well typed.
LEMMA DeleteThenType ==
  ASSUME AttemptTypeOK, UNCHANGED clock, NEW w \in Workers, NEW s \in 0..MaxScans, NEW r \in Resumes,
         DeleteThen(w, s, r)
  PROVE  AttemptTypeOK'
BY DEF AttemptTypeOK, DeleteThen, Attempts, Tokens

\* A worker that goes on from a cleanup, forgetting the scan it saw, leaves them
\* well typed.
LEMMA GoesType ==
  ASSUME AttemptTypeOK, UNCHANGED clock, NEW w \in Workers, NEW p \in Steps, Goes(w, p), UNCHANGED cur
  PROVE  AttemptTypeOK'
BY BoundsAssumption DEF AttemptTypeOK, Goes, Attempts, Tokens

\* Whatever a cleanup returns to - the next parser of the chain, the failure, the
\* release, the end of the attempt, the reaper - the attempts stay well typed: a
\* chain with no parser left is not counted below zero.
LEMMA AfterType ==
  ASSUME AttemptTypeOK, UNCHANGED clock, clock \in Nat, NEW w \in Workers, NEW r, After(w, r)
  PROVE  AttemptTypeOK'
<1>1. CASE r \in {"fail", "release", "parse", "reap", "sweep"} /\ Goes(w, r) /\ UNCHANGED cur
  BY <1>1, GoesType
<1>2. CASE EndAttempt(w, "idle")
  BY <1>2, EndAttemptType
<1>3. CASE Goes(w, "fail") /\ UNCHANGED cur
  BY <1>3, GoesType
<1>4. CASE /\ cur[w].left > 0
           /\ Goes(w, "parse")
           /\ cur' = [cur EXCEPT ![w] = [job |-> @.job, token |-> @.token, scan |-> 0, left |-> @.left - 1]]
  <2>1. cur[w] \in Attempts
    BY DEF AttemptTypeOK
  <2>3. [job |-> cur[w].job, token |-> cur[w].token, scan |-> 0, left |-> cur[w].left - 1] \in Attempts
    <3>1. /\ cur[w].job \in Jobs \cup {0}
          /\ cur[w].token \in Tokens
          /\ cur[w].left \in 0..Parsers
      BY <2>1 DEF Attempts
    <3>2. cur[w].left - 1 \in 0..Parsers
      BY <1>4, <3>1, ParsersAssumption
    <3>3. 0 \in 0..MaxScans
      BY BoundsAssumption
    <3> QED
      BY <3>1, <3>2, <3>3 DEF Attempts
  <2>4. cur' \in [Workers -> Attempts]
    BY <1>4, <2>3 DEF AttemptTypeOK
  <2>5. Attempts' = Attempts
    BY DEF Attempts, Tokens
  <2> QED
    BY <1>4, <2>4, <2>5, BoundsAssumption DEF AttemptTypeOK, Goes
<1> QED
  BY <1>1, <1>2, <1>3, <1>4 DEF After, MoreParsers

\* Deleting a scan row (ON DELETE SET NULL) leaves every pointer a scan id or 0.
LEMMA ClearedType ==
  ASSUME NEW pointer \in [Jobs -> 0..MaxScans], NEW s
  PROVE  Cleared(pointer, s) \in [Jobs -> 0..MaxScans]
BY BoundsAssumption DEF Cleared

\* _discard_dead_attempt_scan keeps the attempts and the pointers well typed on
\* each of its ways out: nothing to delete, a link to forget, a scan to delete.
LEMMA DiscardDeadScanType ==
  ASSUME TypeOK, UNCHANGED clock, NEW w \in Workers, NEW j \in Jobs, NEW b \in BOOLEAN,
         NEW r \in Resumes, DiscardDeadScan(w, j, b, r)
  PROVE  AttemptTypeOK' /\ inProgress' \in [Jobs -> 0..MaxScans]
<1>1. CASE After(w, r) /\ UNCHANGED inProgress
  BY <1>1, AfterType DEF TypeOK, RowsTypeOK, DataTypeOK
<1>2. CASE After(w, r) /\ inProgress' = [inProgress EXCEPT ![j] = 0]
  BY <1>2, AfterType, BoundsAssumption DEF TypeOK, RowsTypeOK, DataTypeOK
<1>3. CASE DeleteThen(w, inProgress[j], r) /\ UNCHANGED inProgress
  BY <1>3, DeleteThenType DEF TypeOK, RowsTypeOK, DataTypeOK
<1> QED
  BY <1>1, <1>2, <1>3 DEF DiscardDeadScan

(* The writes of JobTransitions keep the rows' types; only a claim moves the clock. *)

\* A claim keeps the rows' types and takes the next token.
LEMMA ClaimRowType ==
  ASSUME RowsTypeOK, NEW j \in Jobs, ClaimRow(j)
  PROVE  RowsTypeOK' /\ clock' = clock + 1
BY DEF RowsTypeOK, ClaimRow, Tokens, Statuses

\* Every other write of a row, by an attempt, an operator or time, keeps the rows'
\* types and takes no token.
LEMMA RowWriteType ==
  ASSUME RowsTypeOK, NEW j \in Jobs, NEW t, NEW st \in Statuses, NEW from, NEW count \in Nat,
         \/ InsertRow(j, st) \/ HeartbeatRow(j, t) \/ CompleteRow(j, t) \/ FailRow(j, t)
         \/ ReleaseRow(j, t) \/ CancelRow(j, from, st) \/ RetryRow(j, from, count) \/ LeaseAges(j)
  PROVE  RowsTypeOK' /\ clock' = clock
<1> USE DEF RowsTypeOK, Tokens, Statuses
<1>1. CASE InsertRow(j, st)
  BY <1>1 DEF InsertRow
<1>2. CASE HeartbeatRow(j, t) \/ CompleteRow(j, t) \/ FailRow(j, t)
  BY <1>2 DEF HeartbeatRow, CompleteRow, FailRow
<1>3. CASE ReleaseRow(j, t)
  BY <1>3 DEF ReleaseRow, BackToQueue
<1>4. CASE CancelRow(j, from, st)
  BY <1>4 DEF CancelRow
<1>5. CASE RetryRow(j, from, count)
  BY <1>5 DEF RetryRow, BackToQueue
<1>6. CASE LeaseAges(j)
  BY <1>6 DEF LeaseAges
<1> QED
  BY <1>1, <1>2, <1>3, <1>4, <1>5, <1>6

\* A reaper's commit keeps the rows' types and takes no token.
LEMMA ReapRowsType ==
  ASSUME RowsTypeOK, NEW requeued, NEW failed, ReapRows(requeued, failed)
  PROVE  RowsTypeOK' /\ clock' = clock
BY DEF RowsTypeOK, ReapRows, Tokens, Statuses

---------------------------------------------------------------------------
(* Type correctness.                                                       *)

\* The empty tables and workers about to start are well typed.
LEMMA InitType == Init => TypeOK
BY BoundsAssumption, ParsersAssumption
DEF Init, RowsInit, TypeOK, RowsTypeOK, DataTypeOK, AttemptTypeOK, SweepTypeOK,
    Tokens, Statuses, Attempts, NoAttempt

\* Every action of a worker, an operator or time keeps every variable's type.
LEMMA TypeStep ==
  ASSUME TypeOK, HasAttempt, [Next]_vars
  PROVE  TypeOK'
<1> USE DEF TypeOK
<1> DEFINE job(w) == cur[w].job
<1>0. /\ clock \in Nat
      /\ \A w \in Workers : cur[w] \in Attempts
      /\ Statuses = {"none", "staged", "queued", "processing", "completed", "failed", "cancelled"}
  BY DEF RowsTypeOK, AttemptTypeOK, Statuses
<1>1. ASSUME NEW w \in Workers, NEW j \in Jobs, Claim(w, j) PROVE TypeOK'
  <2>1. RowsTypeOK' /\ clock' = clock + 1
    BY <1>1, ClaimRowType DEF Claim
  <2>2. [job |-> j, token |-> clock + 1, scan |-> 0, left |-> Parsers - 1] \in Attempts'
    BY <1>0, <2>1, BoundsAssumption, ParsersAssumption DEF Attempts, Tokens
  <2>3. \A v \in Workers : cur[v] \in Attempts'
    BY <1>0, <2>1 DEF Attempts, Tokens
  <2>4. cur' \in [Workers -> Attempts']
    BY <1>1, <2>2, <2>3 DEF Claim, AttemptTypeOK
  <2>5. AttemptTypeOK'
    BY <1>1, <2>4 DEF Claim, AttemptTypeOK
  <2>6. DataTypeOK'
    BY <1>0, <1>1, <2>1 DEF Claim, DataTypeOK, dataVars, Tokens
  <2> QED
    BY <1>1, <2>1, <2>5, <2>6 DEF Claim, SweepTypeOK, sweepVars, budgets
<1>2. ASSUME NEW w \in Workers, Load(w) PROVE TypeOK'
  <2>1. job(w) \in Jobs
    BY <1>2 DEF Load, HasAttempt, InAttempt
  <2>2. AttemptTypeOK' /\ inProgress' \in [Jobs -> 0..MaxScans]
    BY <1>2, <2>1, DiscardDeadScanType DEF Load, rowVars
  <2> QED
    BY <1>2, <2>2 DEF Load, RowsTypeOK, DataTypeOK, SweepTypeOK, rowVars, sweepVars, budgets, Tokens
<1>3. ASSUME NEW w \in Workers, MissingFile(w) PROVE TypeOK'
  <2>1. AttemptTypeOK'
    BY <1>0, <1>3, GotoType DEF MissingFile, rowVars
  <2> QED
    BY <1>3, <2>1 DEF MissingFile, RowsTypeOK, DataTypeOK, SweepTypeOK, rowVars, dataVars, sweepVars, budgets, Tokens
<1>4. ASSUME NEW w \in Workers, CreateScan(w) PROVE TypeOK'
  <2>1. /\ cur[w].job \in Jobs
        /\ cur[w].token \in Tokens
        /\ lastScan + 1 \in ScanIds
        /\ lastScan + 1 \in 0..MaxScans
    BY <1>0, <1>4, BoundsAssumption DEF CreateScan, Mine, Attempts, DataTypeOK, ScanIds
  <2>2. DataTypeOK'
    BY <1>4, <2>1, BoundsAssumption DEF CreateScan, DataTypeOK, rowVars, Tokens
  <2>3. [cur[w] EXCEPT !.scan = lastScan + 1] \in Attempts
    BY <1>0, <2>1 DEF Attempts
  <2>4. cur' \in [Workers -> Attempts]
    BY <1>4, <2>3 DEF CreateScan, AttemptTypeOK
  <2>5. AttemptTypeOK'
    BY <1>4, <2>4 DEF CreateScan, AttemptTypeOK, Attempts, Tokens, rowVars
  <2> QED
    BY <1>4, <2>2, <2>5 DEF CreateScan, RowsTypeOK, SweepTypeOK, rowVars, sweepVars, budgets, Tokens
<1>5. ASSUME NEW w \in Workers, Heartbeat(w) PROVE TypeOK'
  <2>1. job(w) \in Jobs
    BY <1>5 DEF Heartbeat, HasAttempt, InAttempt
  <2>2. RowsTypeOK' /\ clock' = clock
    BY <1>0, <1>5, <2>1, RowWriteType DEF Heartbeat
  <2> QED
    BY <1>5, <2>2 DEF Heartbeat, DataTypeOK, AttemptTypeOK, SweepTypeOK, dataVars, attemptVars, sweepVars, budgets, Tokens, Attempts
<1>6. ASSUME NEW w \in Workers, LoseJob(w) \/ ParserFails(w) PROVE TypeOK'
  <2>1. UNCHANGED <<rowVars, dataVars, sweepVars, budgets>> /\ \E r \in Resumes : LookupThen(w, r)
    BY <1>6 DEF LoseJob, ParserFails
  <2>2. AttemptTypeOK'
    BY <2>1, LookupThenType DEF rowVars
  <2> QED
    BY <2>1, <2>2 DEF RowsTypeOK, DataTypeOK, SweepTypeOK, rowVars, dataVars, sweepVars, budgets, Tokens
<1>7. ASSUME NEW w \in Workers, Shutdown(w) PROVE TypeOK'
  <2>1. AttemptTypeOK'
    BY <1>7, LookupThenType DEF Shutdown, rowVars
  <2> QED
    BY <1>7, <2>1, BoundsAssumption DEF Shutdown, RowsTypeOK, DataTypeOK, SweepTypeOK, rowVars, dataVars, sweepVars, budgets, Tokens
<1>8. ASSUME NEW w \in Workers, ParserDone(w) \/ CompleteRefused(w) \/ Boot(w) PROVE TypeOK'
  <2>1. UNCHANGED <<rowVars, dataVars, sweepVars, budgets>> /\ \E p \in Steps : Goto(w, p)
    BY <1>8 DEF ParserDone, CompleteRefused, Boot
  <2>2. AttemptTypeOK'
    BY <2>1, GotoType DEF rowVars
  <2> QED
    BY <2>1, <2>2 DEF RowsTypeOK, DataTypeOK, SweepTypeOK, rowVars, dataVars, sweepVars, budgets, Tokens
<1>9. ASSUME NEW w \in Workers, Lookup(w) PROVE TypeOK'
  <2>1. job(w) \in Jobs /\ inProgress[job(w)] \in 0..MaxScans /\ 0 \in 0..MaxScans /\ resume[w] \in Resumes
    BY <1>9, BoundsAssumption DEF Lookup, HasAttempt, InAttempt, DataTypeOK, AttemptTypeOK
  <2>2. \/ \E s \in 0..MaxScans : DeleteThen(w, s, resume[w])
        \/ After(w, resume[w])
    BY <1>9, <2>1 DEF Lookup, Named
  <2>3. AttemptTypeOK'
    BY <1>0, <1>9, <2>1, <2>2, DeleteThenType, AfterType DEF Lookup, rowVars
  <2> QED
    BY <1>9, <2>3 DEF Lookup, RowsTypeOK, DataTypeOK, SweepTypeOK, rowVars, dataVars, sweepVars, budgets, Tokens
<1>10. ASSUME NEW w \in Workers, Delete(w) PROVE TypeOK'
  <2>1. AttemptTypeOK'
    BY <1>0, <1>10, AfterType DEF Delete, rowVars
  <2>2. DataTypeOK'
    <3>1. inProgress' \in [Jobs -> 0..MaxScans] /\ scanId' \in [Jobs -> 0..MaxScans]
      BY <1>10, ClearedType DEF Delete, DataTypeOK
    <3> QED
      BY <1>10, <3>1 DEF Delete, DataTypeOK, rowVars, Tokens
  <2> QED
    BY <1>10, <2>1, <2>2 DEF Delete, RowsTypeOK, SweepTypeOK, rowVars, sweepVars, budgets, Tokens

<1>11. ASSUME NEW w \in Workers, DeleteFails(w) PROVE TypeOK'
  <2>1. faults' \in 0..MaxFaults /\ UNCHANGED <<dataVars, sweepVars, asks>>
    BY <1>11, BoundsAssumption DEF DeleteFails
  <2>2. CASE /\ resume[w] = "parse"
             /\ FailRow(job(w), cur[w].token) \/ UNCHANGED rowVars
             /\ EndAttempt(w, "idle")
    <3>1. job(w) \in Jobs
      BY <1>11, <2>2 DEF DeleteFails, HasAttempt, InAttempt
    <3>2. RowsTypeOK' /\ clock' = clock
      BY <1>0, <2>2, <3>1, RowWriteType DEF RowsTypeOK, rowVars, Tokens
    <3>3. AttemptTypeOK'
      BY <1>0, <2>2, <3>2, EndAttemptType
    <3> QED
      BY <2>1, <3>2, <3>3 DEF DataTypeOK, SweepTypeOK, dataVars, sweepVars, Tokens
  <2>3. CASE UNCHANGED rowVars /\ ((Goes(w, "fail") /\ UNCHANGED cur) \/ After(w, resume[w]))
    <3>1. AttemptTypeOK'
      BY <1>0, <2>3, GoesType, AfterType DEF rowVars
    <3> QED
      BY <2>1, <2>3, <3>1 DEF RowsTypeOK, DataTypeOK, SweepTypeOK, rowVars, dataVars, sweepVars, Tokens
  <2> QED
    BY <1>11, <2>2, <2>3 DEF DeleteFails, AfterRaise
<1>12. ASSUME NEW w \in Workers, Complete(w) \/ LinkLate(w) PROVE TypeOK'
  <2>1. /\ job(w) \in Jobs
        /\ cur[w].scan \in 0..MaxScans
        /\ cur[w].scan \in scans
        /\ cur[w].scan \in ScanIds
    BY <1>0, <1>12 DEF Complete, LinkLate, HasAttempt, InAttempt, Attempts, DataTypeOK, ScanIds
  <2>2. RowsTypeOK' /\ clock' = clock
    BY <1>0, <1>12, <2>1, RowWriteType DEF Complete, LinkLate, RowsTypeOK, rowVars, Tokens
  <2>3. AttemptTypeOK'
    BY <1>0, <1>12, <2>2, EndAttemptType DEF Complete, LinkLate
  <2>4. /\ inProgress' = [inProgress EXCEPT ![job(w)] = 0]
        /\ scanId' = [scanId EXCEPT ![job(w)] = cur[w].scan]
        /\ digest' = [digest EXCEPT ![cur[w].scan] = FileOf[job(w)]]
        /\ UNCHANGED <<file, scans, lastScan, writer>>
    BY <1>12, <2>1 DEF Complete, LinkLate, Stamped
  <2>5. FileOf[job(w)] \in Nat
    BY <2>1, FilesAssumption
  <2>6. DataTypeOK'
    BY <2>1, <2>2, <2>4, <2>5, BoundsAssumption DEF DataTypeOK, Tokens
  <2> QED
    BY <1>12, <2>2, <2>3, <2>6 DEF Complete, LinkLate, SweepTypeOK, sweepVars, budgets
<1>13. ASSUME NEW w \in Workers, Superseded(w) PROVE TypeOK'
  <2>1. AttemptTypeOK'
    BY <1>0, <1>13, EndAttemptType DEF Superseded, rowVars
  <2> QED
    BY <1>13, <2>1 DEF Superseded, RowsTypeOK, DataTypeOK, SweepTypeOK, rowVars, dataVars, sweepVars, budgets, Tokens
<1>14. ASSUME NEW w \in Workers, FailJob(w) \/ ReleaseJob(w) PROVE TypeOK'
  <2>1. job(w) \in Jobs
    BY <1>14 DEF FailJob, ReleaseJob, HasAttempt, InAttempt
  <2>2. RowsTypeOK' /\ clock' = clock
    BY <1>0, <1>14, <2>1, RowWriteType DEF FailJob, ReleaseJob, RowsTypeOK, rowVars, Tokens
  <2>3. AttemptTypeOK'
    BY <1>0, <1>14, <2>2, GotoType, EndAttemptType DEF FailJob, ReleaseJob
  <2> QED
    BY <1>14, <2>2, <2>3 DEF FailJob, ReleaseJob, DataTypeOK, SweepTypeOK, dataVars, sweepVars, budgets, Tokens
<1>15. ASSUME NEW w \in Workers, AfterFail(w) PROVE TypeOK'
  <2>1. job(w) \in Jobs
    BY <1>15 DEF AfterFail, HasAttempt, InAttempt
  <2>2. AttemptTypeOK' /\ inProgress' \in [Jobs -> 0..MaxScans]
    BY <1>15, <2>1, DiscardDeadScanType DEF AfterFail, rowVars
  <2> QED
    BY <1>15, <2>2 DEF AfterFail, RowsTypeOK, DataTypeOK, SweepTypeOK, rowVars, sweepVars, budgets, Tokens
<1>16. ASSUME NEW w \in Workers, StallExit(w) \/ Crash(w) PROVE TypeOK'
  <2>1. /\ faults' \in 0..MaxFaults
        /\ UNCHANGED <<dataVars, sweepVars, asks>>
        /\ EndAttempt(w, "down")
    BY <1>16, BoundsAssumption DEF StallExit, Crash
  <2>2. RowsTypeOK' /\ clock' = clock
    <3>1. CASE UNCHANGED rowVars
      BY <3>1 DEF RowsTypeOK, rowVars, Tokens
    <3>2. CASE pc[w] \in {"parse", "write", "parsed"} /\ FailRow(job(w), cur[w].token)
      <4>1. job(w) \in Jobs
        BY <3>2 DEF HasAttempt, InAttempt
      <4> QED
        BY <1>0, <3>2, <4>1, RowWriteType
    <3> QED
      BY <1>16, <3>1, <3>2 DEF StallExit, Crash
  <2>3. AttemptTypeOK'
    BY <1>0, <2>1, <2>2, EndAttemptType
  <2> QED
    BY <2>1, <2>2, <2>3 DEF DataTypeOK, SweepTypeOK, dataVars, sweepVars, Tokens
<1>17. ASSUME NEW w \in Workers, LoseLock(w) PROVE TypeOK'
  BY <1>17, BoundsAssumption
  DEF LoseLock, RowsTypeOK, DataTypeOK, AttemptTypeOK, SweepTypeOK, rowVars, dataVars, sweepVars, Tokens, Attempts
<1>18. ASSUME NEW w \in Workers, Reap(w) PROVE TypeOK'
  <2>1. RowsTypeOK' /\ clock' = clock
    BY <1>18, ReapRowsType DEF Reap
  <2>2. AttemptTypeOK'
    BY <1>18, <2>1, GotoType DEF Reap
  <2>3. SweepTypeOK'
    BY <1>18 DEF Reap, SweepTypeOK, Reapable, Requeued
  <2> QED
    BY <1>18, <2>1, <2>2, <2>3 DEF Reap, DataTypeOK, dataVars, budgets, Tokens
<1>19. ASSUME NEW w \in Workers, NextDead(w) \/ NextLeftover(w) PROVE TypeOK'
  <2>1. PICK j \in Jobs, b \in BOOLEAN, r \in Resumes :
          todo' = [todo EXCEPT ![w] = @ \ {j}] /\ DiscardDeadScan(w, j, b, r)
    BY <1>19 DEF NextDead, NextLeftover, TakeFirst
  <2>2. UNCHANGED <<rowVars, scanId, file, scans, lastScan, digest, writer, skip, budgets>>
    BY <1>19 DEF NextDead, NextLeftover
  <2>3. AttemptTypeOK' /\ inProgress' \in [Jobs -> 0..MaxScans]
    BY <2>1, <2>2, DiscardDeadScanType DEF rowVars
  <2> QED
    BY <2>1, <2>2, <2>3 DEF RowsTypeOK, DataTypeOK, SweepTypeOK, rowVars, budgets, Tokens
<1>20. ASSUME NEW w \in Workers, ListLeftovers(w) \/ EndSweep(w) PROVE TypeOK'
  <2>1. UNCHANGED <<rowVars, dataVars, budgets>> /\ \E p \in Steps : Goto(w, p)
    BY <1>20 DEF ListLeftovers, EndSweep
  <2>2. AttemptTypeOK'
    BY <2>1, GotoType DEF rowVars
  <2>3. SweepTypeOK'
    BY <1>20 DEF ListLeftovers, EndSweep, Leftovers, SweepTypeOK, sweepVars
  <2> QED
    BY <2>1, <2>2, <2>3 DEF RowsTypeOK, DataTypeOK, rowVars, dataVars, budgets, Tokens
<1>21. ASSUME NEW j \in Jobs, Upload(j) \/ Discard(j) \/ ExpireFile(j) PROVE TypeOK'
  <2>1. /\ file' \subseteq Jobs
        /\ UNCHANGED <<inProgress, scanId, scans, lastScan, digest, writer, attemptVars, sweepVars, budgets>>
    BY <1>21 DEF Upload, Discard, ExpireFile, DataTypeOK
  <2>2. RowsTypeOK' /\ clock' = clock
    <3>1. \/ \E st \in Statuses : InsertRow(j, st)
          \/ CancelRow(j, {"staged"}, "failed")
          \/ UNCHANGED rowVars
      BY <1>0, <1>21 DEF Upload, Discard, ExpireFile
    <3>2. CASE UNCHANGED rowVars
      BY <3>2 DEF RowsTypeOK, rowVars, Tokens
    <3> QED
      BY <1>0, <3>1, <3>2, RowWriteType
  <2> QED
    BY <2>1, <2>2 DEF DataTypeOK, AttemptTypeOK, SweepTypeOK, attemptVars, sweepVars, budgets, Tokens, Attempts
<1>22. ASSUME NEW j \in Jobs, QueueJob(j) \/ Cancel(j) \/ TimePasses(j) PROVE TypeOK'
  <2>1. RowsTypeOK' /\ clock' = clock
    BY <1>0, <1>22, RowWriteType DEF QueueJob, Cancel, TimePasses
  <2>2. asks' \in 0..MaxAsks /\ UNCHANGED <<dataVars, attemptVars, sweepVars, faults>>
    BY <1>22, BoundsAssumption DEF QueueJob, Cancel, TimePasses, budgets
  <2> QED
    BY <2>1, <2>2 DEF DataTypeOK, AttemptTypeOK, SweepTypeOK, dataVars, attemptVars, sweepVars, Tokens, Attempts
<1>23. ASSUME NEW s \in ScanIds, DeleteScan(s) PROVE TypeOK'
  BY <1>23, BoundsAssumption
  DEF DeleteScan, Cleared, RowsTypeOK, DataTypeOK, AttemptTypeOK, SweepTypeOK, rowVars,
      attemptVars, sweepVars, budgets, Tokens, Attempts
<1>24. CASE UNCHANGED vars
  BY <1>24
  DEF vars, RowsTypeOK, DataTypeOK, AttemptTypeOK, SweepTypeOK, rowVars, dataVars,
      attemptVars, sweepVars, budgets, Tokens, Attempts
<1> QED
  BY <1>1, <1>2, <1>3, <1>4, <1>5, <1>6, <1>7, <1>8, <1>9, <1>10, <1>11, <1>12, <1>13, <1>14,
     <1>15, <1>16, <1>17, <1>18, <1>19, <1>20, <1>21, <1>22, <1>23, <1>24
  DEF Next, WorkerNext, Advance, OperatorNext

(* What a worker's step leaves of the workers.                             *)

\* A step of w touches no other worker's attempt, keeps w's own attempt or
\* drops it, and is in an attempt afterwards only if it was in it before.
Shape(w) ==
  /\ \A v \in Workers \ {w} :
       pc'[v] = pc[v] /\ cur'[v] = cur[v] /\ seen'[v] = seen[v] /\ resume'[v] = resume[v]
  /\ \/ cur'[w] = NoAttempt
     \/ cur'[w].job = cur[w].job /\ cur'[w].token = cur[w].token
  /\ InAttempt(w)' => InAttempt(w) /\ cur'[w].token = cur[w].token

\* A plain move keeps the shape, provided it does not enter an attempt.
LEMMA GotoShape ==
  ASSUME AttemptTypeOK, NEW w \in Workers, NEW p \in Steps \ {"delete"}, Goto(w, p),
         InAttempt(w) \/ p \in {"boot", "idle", "reap", "sweep"}
  PROVE  Shape(w)
BY DEF AttemptTypeOK, Goto, Shape, InAttempt

\* Dropping the attempt keeps the shape.
LEMMA EndAttemptShape ==
  ASSUME AttemptTypeOK, NEW w \in Workers, NEW p \in {"idle", "down"}, EndAttempt(w, p)
  PROVE  Shape(w)
BY DEF AttemptTypeOK, EndAttempt, Shape, InAttempt

\* Going to look a scan up keeps the shape: only an attempt does that.
LEMMA LookupThenShape ==
  ASSUME AttemptTypeOK, NEW w \in Workers, NEW r, LookupThen(w, r), InAttempt(w)
  PROVE  Shape(w)
BY DEF AttemptTypeOK, LookupThen, Shape, InAttempt

\* Going to delete a scan keeps the shape: an attempt does, or the reaper and the
\* sweep, which have none.
LEMMA DeleteThenShape ==
  ASSUME AttemptTypeOK, NEW w \in Workers, NEW s, NEW r, DeleteThen(w, s, r),
         InAttempt(w) \/ r \in {"reap", "sweep"}
  PROVE  Shape(w)
BY DEF AttemptTypeOK, DeleteThen, Shape, InAttempt

\* Returning from a cleanup keeps the shape: it goes back to the attempt it
\* interrupted, or to the reaper or the sweep.
LEMMA AfterShape ==
  ASSUME AttemptTypeOK, NEW w \in Workers, NEW r, After(w, r),
         InAttempt(w) \/ r \in {"reap", "sweep"}
  PROVE  Shape(w)
<1>1. CASE r \in {"fail", "release", "parse", "reap", "sweep"} /\ Goes(w, r) /\ UNCHANGED cur
  BY <1>1 DEF AttemptTypeOK, Goes, Shape, InAttempt
<1>2. CASE EndAttempt(w, "idle")
  BY <1>2, EndAttemptShape
<1>3. CASE InAttempt(w) /\ Goes(w, "fail") /\ UNCHANGED cur
  BY <1>3 DEF AttemptTypeOK, Goes, Shape, InAttempt
<1>4. CASE /\ InAttempt(w)
           /\ Goes(w, "parse")
           /\ cur' = [cur EXCEPT ![w] = [job |-> @.job, token |-> @.token, scan |-> 0, left |-> @.left - 1]]
  BY <1>4 DEF AttemptTypeOK, Goes, Shape, InAttempt
<1> QED
  BY <1>1, <1>2, <1>3, <1>4 DEF After

\* The cleanup of a dead attempt's scan keeps the shape.
LEMMA DiscardDeadScanShape ==
  ASSUME AttemptTypeOK, NEW w \in Workers, NEW j, NEW b, NEW r, DiscardDeadScan(w, j, b, r),
         InAttempt(w) \/ r \in {"reap", "sweep"}
  PROVE  Shape(w)
BY AfterShape, DeleteThenShape DEF DiscardDeadScan

\* Every step of a worker but a claim has the shape: no worker touches another's
\* attempt, and nobody gets a token without claiming.
LEMMA WorkerShape ==
  ASSUME TypeOK, NEW w \in Workers, WorkerNext(w)
  PROVE  Shape(w) \/ \E j \in Jobs : Claim(w, j)
<1> USE DEF TypeOK
<1>1. CASE Load(w) \/ AfterFail(w) \/ NextDead(w) \/ NextLeftover(w)
  BY <1>1, DiscardDeadScanShape DEF Load, AfterFail, NextDead, NextLeftover, InAttempt
<1>2. CASE MissingFile(w) \/ ParserDone(w) \/ CompleteRefused(w) \/ Boot(w) \/ Reap(w)
           \/ ListLeftovers(w) \/ EndSweep(w)
  BY <1>2, GotoShape DEF MissingFile, ParserDone, CompleteRefused, Boot, Reap, ListLeftovers, EndSweep, InAttempt
<1>3. CASE LoseJob(w) \/ ParserFails(w) \/ Shutdown(w)
  BY <1>3, LookupThenShape DEF LoseJob, ParserFails, Shutdown, InAttempt
<1>4. CASE CreateScan(w)
  BY <1>4 DEF CreateScan, Shape, InAttempt, AttemptTypeOK, Attempts
<1>5. CASE Lookup(w)
  BY <1>5, AfterShape, DeleteThenShape DEF Lookup, InAttempt
<1>6. CASE Delete(w)
  <2>1. InAttempt(w) \/ resume[w] \in {"reap", "sweep"} \/ resume[w] = "none"
    BY <1>6 DEF Delete, InAttempt, AttemptTypeOK
  <2> QED
    BY <1>6, <2>1, AfterShape DEF Delete, After
<1>7. CASE DeleteFails(w)
  <2>1. InAttempt(w) \/ resume[w] \in {"reap", "sweep"} \/ resume[w] = "none"
    BY <1>7 DEF DeleteFails, InAttempt, AttemptTypeOK
  <2>2. CASE resume[w] = "next" /\ Goes(w, "fail") /\ UNCHANGED cur
    BY <1>7, <2>2 DEF DeleteFails, Goes, Shape, InAttempt, AttemptTypeOK
  <2> QED
    BY <1>7, <2>1, <2>2, AfterShape, EndAttemptShape DEF DeleteFails, AfterRaise, After
<1>8. CASE Complete(w) \/ LinkLate(w) \/ Superseded(w) \/ ReleaseJob(w) \/ StallExit(w) \/ Crash(w)
  BY <1>8, EndAttemptShape DEF Complete, LinkLate, Superseded, ReleaseJob, StallExit, Crash
<1>9. CASE FailJob(w)
  BY <1>9, EndAttemptShape, GotoShape DEF FailJob, InAttempt
<1>10. CASE Heartbeat(w) \/ LoseLock(w)
  BY <1>10 DEF Heartbeat, LoseLock, attemptVars, Shape, InAttempt
<1> QED
  BY <1>1, <1>2, <1>3, <1>4, <1>5, <1>6, <1>7, <1>8, <1>9, <1>10 DEF WorkerNext, Advance

\* Every step keeps each attempt's job and token known and its token its own: a
\* claim takes a token no attempt has (claim_oldest_queued).
LEMMA AttemptStep ==
  ASSUME TypeOK, HasAttempt, OwnTokens, [Next]_vars
  PROVE  HasAttempt' /\ OwnTokens'
<1>1. ASSUME NEW w \in Workers, Shape(w) PROVE HasAttempt' /\ OwnTokens'
  BY <1>1 DEF Shape, HasAttempt, OwnTokens, NoAttempt, InAttempt
<1>2. ASSUME NEW w \in Workers, NEW j \in Jobs, Claim(w, j) PROVE HasAttempt' /\ OwnTokens'
  <2>1. /\ clock \in Nat
        /\ \A v \in Workers : cur[v].token \in 0..clock
        /\ cur'[w].token = clock + 1 /\ cur'[w].job = j
        /\ pc'[w] = "claimed"
        /\ \A v \in Workers \ {w} : pc'[v] = pc[v] /\ cur'[v] = cur[v] /\ resume'[v] = resume[v]
    BY <1>2 DEF Claim, TypeOK, RowsTypeOK, AttemptTypeOK, Attempts, Tokens
  <2>2. HasAttempt'
    BY <2>1 DEF HasAttempt, InAttempt
  <2>3. OwnTokens'
    BY <2>1 DEF OwnTokens
  <2> QED
    BY <2>2, <2>3
<1>3. CASE UNCHANGED <<pc, cur, resume>>
  BY <1>3 DEF HasAttempt, OwnTokens, InAttempt
<1>4. OperatorNext => UNCHANGED <<pc, cur, resume>>
  BY DEF OperatorNext, Upload, QueueJob, Cancel, Discard, ExpireFile, TimePasses, DeleteScan, attemptVars
<1> QED
  BY <1>1, <1>2, <1>3, <1>4, WorkerShape DEF Next, vars, attemptVars

---------------------------------------------------------------------------
(* Tokens on the rows: a row gets a new token only from a claim.            *)

Claims == \E w \in Workers, j \in Jobs : Claim(w, j)

\* Only a claim writes a new token to a row: every other write leaves started_at
\* alone or clears it.
LEMMA StartedStep ==
  ASSUME TypeOK, [Next]_vars, ~Claims
  PROVE  \A j \in Jobs : started'[j] \in {started[j], 0}
<1> USE DEF TypeOK, RowsTypeOK
<1>1. ASSUME NEW j \in Jobs, NEW t, NEW st, NEW from, NEW to, NEW count,
             \/ InsertRow(j, st) \/ HeartbeatRow(j, t) \/ CompleteRow(j, t) \/ FailRow(j, t)
             \/ CancelRow(j, from, to) \/ LeaseAges(j)
      PROVE  started' = started
  BY <1>1 DEF InsertRow, HeartbeatRow, CompleteRow, FailRow, CancelRow, LeaseAges
<1>2. ASSUME NEW j, NEW t, NEW from, NEW count, ReleaseRow(j, t) \/ RetryRow(j, from, count)
      PROVE  \A k \in Jobs : started'[k] \in {started[k], 0}
  BY <1>2 DEF ReleaseRow, RetryRow, BackToQueue
<1>3. ASSUME NEW j, NEW t, CompleteRow(j, t) \/ FailRow(j, t) \/ HeartbeatRow(j, t)
      PROVE  started' = started
  BY <1>3 DEF CompleteRow, FailRow, HeartbeatRow
<1>4. ASSUME NEW w \in Workers, WorkerNext(w) PROVE \A j \in Jobs : started'[j] \in {started[j], 0}
  <2>1. CASE UNCHANGED rowVars
    BY <2>1 DEF rowVars
  <2>2. CASE Reap(w)
    BY <2>2 DEF Reap, ReapRows
  <2>3. CASE \/ Heartbeat(w) \/ DeleteFails(w) \/ Complete(w) \/ FailJob(w) \/ ReleaseJob(w) \/ StallExit(w)
    BY <1>2, <1>3, <2>1, <2>3 DEF Heartbeat, DeleteFails, Complete, FailJob, ReleaseJob, StallExit
  <2>4. \/ UNCHANGED rowVars \/ Reap(w) \/ Heartbeat(w) \/ DeleteFails(w) \/ Complete(w) \/ FailJob(w)
        \/ ReleaseJob(w) \/ StallExit(w) \/ Claims
    BY <1>4 DEF WorkerNext, Advance, Load, MissingFile, CreateScan, LoseJob, ParserDone, Lookup, Delete,
       CompleteRefused, LinkLate, Superseded, AfterFail, Boot, NextDead, ListLeftovers, NextLeftover,
       EndSweep, ParserFails, Shutdown, Crash, LoseLock, Claims
  <2> QED
    BY <2>1, <2>2, <2>3, <2>4
<1>5. ASSUME OperatorNext PROVE \A j \in Jobs : started'[j] \in {started[j], 0}
  BY <1>1, <1>2, <1>5 DEF OperatorNext, Upload, QueueJob, Cancel, Discard, ExpireFile, TimePasses, DeleteScan, rowVars
<1> QED
  BY <1>4, <1>5 DEF Next, vars, rowVars

\* A worker whose token is on its job's row after a step that claims nothing had
\* it there before, under the same attempt.
LEMMA HoldingStep ==
  ASSUME TypeOK, HasAttempt, [Next]_vars, ~Claims, NEW v \in Workers, Holding(v)'
  PROVE  Holding(v) /\ cur'[v].job = cur[v].job /\ cur'[v].token = cur[v].token
<1>1. cur'[v].token # 0
  BY DEF Holding
<1>2. cur'[v].job = cur[v].job /\ cur'[v].token = cur[v].token
  <2>1. ASSUME NEW w \in Workers, WorkerNext(w)
        PROVE  cur'[v].job = cur[v].job /\ cur'[v].token = cur[v].token
    BY <1>1, <2>1, WorkerShape DEF Shape, NoAttempt, Claims
  <2>2. OperatorNext => UNCHANGED cur
    BY DEF OperatorNext, Upload, QueueJob, Cancel, Discard, ExpireFile, TimePasses, DeleteScan, attemptVars
  <2> QED
    BY <2>1, <2>2 DEF Next, vars, attemptVars
<1>3. cur[v].job \in Jobs
  BY <1>1, <1>2 DEF HasAttempt
<1> QED
  BY <1>1, <1>2, <1>3, StartedStep DEF Holding

---------------------------------------------------------------------------
(* Pointers: who may rely on what about in_progress_scan_id.                *)

\* Nothing but the stamp of a new scan ever sets a pointer.
PointersOnlyCleared == \A j \in Jobs : inProgress'[j] \in {inProgress[j], 0}

\* A step sets a pointer only by stamping a new scan (note_scan_created); every
\* other write of one clears it.
LEMMA PointersStep ==
  ASSUME TypeOK, [Next]_vars
  PROVE  PointersOnlyCleared \/ \E w \in Workers : CreateScan(w)
<1> USE DEF TypeOK, DataTypeOK, PointersOnlyCleared
<1>1. ASSUME NEW w, NEW j, NEW b, NEW r, DiscardDeadScan(w, j, b, r) PROVE PointersOnlyCleared
  BY <1>1 DEF DiscardDeadScan
<1>2. ASSUME NEW w \in Workers, WorkerNext(w), ~CreateScan(w) PROVE PointersOnlyCleared
  <2>1. CASE Load(w) \/ AfterFail(w) \/ NextDead(w) \/ NextLeftover(w)
    BY <1>1, <2>1 DEF Load, AfterFail, NextDead, NextLeftover
  <2>2. CASE Delete(w) \/ Complete(w) \/ LinkLate(w)
    BY <2>2 DEF Delete, Complete, LinkLate, Cleared
  <2>3. \/ Load(w) \/ AfterFail(w) \/ NextDead(w) \/ NextLeftover(w)
        \/ Delete(w) \/ Complete(w) \/ LinkLate(w) \/ UNCHANGED inProgress
    BY <1>2 DEF WorkerNext, Advance, MissingFile, LoseJob, ParserDone, Lookup, CompleteRefused, Superseded,
       Boot, ListLeftovers, EndSweep, ParserFails, Shutdown, Crash, LoseLock, Claim, Reap, Heartbeat,
       DeleteFails, FailJob, ReleaseJob, StallExit, dataVars
  <2> QED
    BY <2>1, <2>2, <2>3
<1>3. ASSUME OperatorNext PROVE PointersOnlyCleared
  BY <1>3 DEF OperatorNext, Upload, QueueJob, Cancel, Discard, ExpireFile, TimePasses, DeleteScan, Cleared, dataVars
<1> QED
  BY <1>2, <1>3 DEF Next, vars, dataVars

\* A worker none of whose own variables the step touches keeps what it knows.
LEMMA BystanderPointer ==
  ASSUME TypeOK, HasAttempt, [Next]_vars, ~Claims, PointersOnlyCleared, NEW v \in Workers, PointerKnown(v),
         pc'[v] = pc[v], cur'[v] = cur[v], seen'[v] = seen[v], resume'[v] = resume[v]
  PROVE  PointerKnown(v)'
<1>1. SUFFICES ASSUME Holding(v)' PROVE PointerKnown(v)'
  BY DEF PointerKnown
<1>2. Holding(v) /\ cur[v].job \in Jobs
  BY <1>1, HoldingStep DEF HasAttempt, Holding
<1> QED
  BY <1>2 DEF PointerKnown, PointersOnlyCleared

\* A worker's own step, other than a claim or a new scan, keeps what the worker
\* knows of its pointer: it was cleared, or its scan deleted, before it parses again.
LEMMA ActorPointer ==
  ASSUME TypeOK, HasAttempt, [Next]_vars, ~Claims, NEW w \in Workers, WorkerNext(w), ~CreateScan(w), PointerKnown(w)
  PROVE  PointerKnown(w)'
<1>1. SUFFICES ASSUME Holding(w)' PROVE PointerKnown(w)'
  BY DEF PointerKnown
<1>2. /\ Holding(w)
      /\ cur[w].job \in Jobs
      /\ cur'[w].job = cur[w].job
      /\ cur'[w].token = cur[w].token
  BY <1>1, HoldingStep DEF HasAttempt, Holding
<1> DEFINE j == cur[w].job
<1>3. inProgress \in [Jobs -> 0..MaxScans] /\ pc \in [Workers -> Steps] /\ resume \in [Workers -> Resumes]
      /\ seen \in [Workers -> 0..MaxScans]
  BY DEF TypeOK, DataTypeOK, AttemptTypeOK
<1>4. ASSUME pc'[w] \notin {"parse", "write", "parsed", "delete"} PROVE PointerKnown(w)'
  BY <1>4 DEF PointerKnown
<1>5. ASSUME NEW k \in Jobs, NEW b, NEW r \in {"done", "reap", "sweep"}, DiscardDeadScan(w, k, b, r)
      PROVE  PointerKnown(w)'
  BY <1>3, <1>5 DEF DiscardDeadScan, After, Goes, EndAttempt, DeleteThen, PointerKnown, AttemptTypeOK
<1>6. CASE Load(w)
  <2>1. DiscardDeadScan(w, j, FALSE, "parse")
    BY <1>6 DEF Load
  <2>2. CASE After(w, "parse") /\ inProgress'[j] = 0
    BY <1>2, <1>3, <2>2 DEF After, Goes, EndAttempt, PointerKnown
  <2>3. CASE DeleteThen(w, inProgress[j], "parse") /\ UNCHANGED inProgress
    BY <1>2, <1>3, <2>3 DEF DeleteThen, PointerKnown
  <2> QED
    BY <1>2, <1>3, <2>1, <2>2, <2>3 DEF DiscardDeadScan
<1>7. CASE AfterFail(w) \/ NextDead(w) \/ NextLeftover(w)
  BY <1>2, <1>5, <1>7 DEF AfterFail, NextDead, NextLeftover
<1>8. CASE Lookup(w)
  <2>1. started[j] = cur[w].token
    BY <1>2 DEF Holding
  <2>2. CASE DeleteThen(w, inProgress[j], resume[w])
    BY <1>2, <1>3, <1>8, <2>2 DEF DeleteThen, PointerKnown, Lookup, dataVars
  <2>3. CASE inProgress[j] = 0
    BY <1>2, <1>3, <1>8, <2>1, <2>3 DEF Lookup, Named, After, Goes, EndAttempt, PointerKnown, dataVars
  <2>4. Named(w) = inProgress[j]
    BY <2>1 DEF Named
  <2>5. DeleteThen(w, Named(w), resume[w]) \/ Named(w) = 0
    BY <1>8 DEF Lookup
  <2> QED
    BY <2>2, <2>3, <2>4, <2>5
<1>9. CASE Delete(w)
  <2>1. pc[w] = "delete" /\ inProgress' = Cleared(inProgress, seen[w]) /\ After(w, resume[w])
    BY <1>9 DEF Delete
  <2>2. CASE resume[w] \in {"parse", "next"}
    <3>1. inProgress'[j] = 0
      BY <1>2, <2>1, <2>2 DEF PointerKnown, Cleared
    <3>2. pc'[w] \in {"parse", "fail"}
      BY <1>3, <2>1, <2>2 DEF After, Goes
    <3> QED
      BY <1>2, <3>1, <3>2 DEF PointerKnown
  <2>3. CASE resume[w] \notin {"parse", "next"}
    BY <1>3, <1>4, <2>1, <2>3 DEF After, Goes, EndAttempt
  <2> QED
    BY <2>2, <2>3
<1>10. CASE DeleteFails(w)
  BY <1>3, <1>4, <1>10 DEF DeleteFails, AfterRaise, After, Goes, EndAttempt
<1>11. CASE ParserDone(w)
  BY <1>2, <1>3, <1>11 DEF ParserDone, Goto, PointerKnown, dataVars
<1>12. CASE Heartbeat(w) \/ LoseLock(w)
  BY <1>2, <1>3, <1>12 DEF Heartbeat, LoseLock, PointerKnown, attemptVars, dataVars
<1>13. CASE \/ MissingFile(w) \/ CompleteRefused(w) \/ Boot(w) \/ Reap(w) \/ ListLeftovers(w) \/ EndSweep(w)
            \/ LoseJob(w) \/ ParserFails(w) \/ Shutdown(w) \/ FailJob(w)
  BY <1>3, <1>4, <1>13
  DEF MissingFile, CompleteRefused, Boot, Reap, ListLeftovers, EndSweep, LoseJob, ParserFails, Shutdown,
      FailJob, Goto, LookupThen, EndAttempt
<1>14. CASE Complete(w) \/ LinkLate(w) \/ Superseded(w) \/ ReleaseJob(w) \/ StallExit(w) \/ Crash(w)
  BY <1>3, <1>4, <1>14 DEF Complete, LinkLate, Superseded, ReleaseJob, StallExit, Crash, EndAttempt
<1> QED
  BY <1>6, <1>7, <1>8, <1>9, <1>10, <1>11, <1>12, <1>13, <1>14 DEF WorkerNext, Advance, Claims

\* Every step keeps what every worker knows of its job's pointer: the stamp of a
\* new scan finds the pointer empty, and no other attempt is on that row.
LEMMA PointerStep ==
  ASSUME TypeOK, HasAttempt, OwnTokens, \A v \in Workers : PointerKnown(v), [Next]_vars
  PROVE  \A v \in Workers : PointerKnown(v)'
<1>1. ASSUME NEW w \in Workers, NEW k \in Jobs, Claim(w, k), NEW v \in Workers PROVE PointerKnown(v)'
  <2>1. /\ clock \in Nat
        /\ \A u \in Workers : cur[u].token \in 0..clock
        /\ started \in [Jobs -> 0..clock]
        /\ started' = [started EXCEPT ![k] = clock + 1]
        /\ inProgress' = inProgress
        /\ pc'[w] = "claimed"
        /\ v # w => pc'[v] = pc[v] /\ cur'[v] = cur[v] /\ seen'[v] = seen[v] /\ resume'[v] = resume[v]
    BY <1>1 DEF Claim, ClaimRow, TypeOK, RowsTypeOK, AttemptTypeOK, Attempts, Tokens, dataVars
  <2>2. CASE v = w
    BY <2>1, <2>2 DEF PointerKnown
  <2>3. CASE v # w
    <3>1. SUFFICES ASSUME Holding(v)' PROVE PointerKnown(v)'
      BY DEF PointerKnown
    <3>2. cur[v].token # 0 /\ cur[v].job \in Jobs
      BY <2>1, <2>3, <3>1 DEF Holding, HasAttempt
    <3>3. Holding(v)
      BY <2>1, <2>3, <3>1, <3>2 DEF Holding
    <3> QED
      BY <2>1, <2>3, <3>3 DEF PointerKnown
  <2> QED
    BY <2>2, <2>3
<1>2. ASSUME NEW w \in Workers, CreateScan(w), ~Claims, NEW v \in Workers PROVE PointerKnown(v)'
  <2>1. /\ cur[w].job \in Jobs /\ started[cur[w].job] = cur[w].token
        /\ inProgress' = [inProgress EXCEPT ![cur[w].job] = lastScan + 1]
        /\ cur' = [cur EXCEPT ![w].scan = lastScan + 1]
        /\ pc' = [pc EXCEPT ![w] = "write"]
        /\ UNCHANGED <<started, seen, resume>>
        /\ inProgress \in [Jobs -> 0..MaxScans]
        /\ pc \in [Workers -> Steps]
        /\ cur \in [Workers -> Attempts]
    BY <1>2 DEF CreateScan, Mine, Owns, rowVars, TypeOK, DataTypeOK, AttemptTypeOK
  <2>2. CASE v = w
    <3>1. pc'[w] = "write" /\ cur'[w].scan = lastScan + 1 /\ cur'[w].job = cur[w].job
      BY <2>1 DEF Attempts
    <3>2. inProgress'[cur[w].job] = lastScan + 1
      BY <2>1
    <3> QED
      BY <2>2, <3>1, <3>2 DEF PointerKnown
  <2>3. CASE v # w
    <3>1. SUFFICES ASSUME Holding(v)' PROVE PointerKnown(v)'
      BY DEF PointerKnown
    <3>2. cur'[v] = cur[v] /\ pc'[v] = pc[v]
      BY <2>1, <2>3
    <3>3. Holding(v) /\ cur[v].job \in Jobs /\ cur[v].job # cur[w].job
      BY <2>1, <2>3, <3>1, <3>2 DEF Holding, HasAttempt, OwnTokens
    <3>4. inProgress'[cur[v].job] = inProgress[cur[v].job]
      BY <2>1, <3>3
    <3> QED
      BY <2>1, <3>2, <3>3, <3>4 DEF PointerKnown
  <2> QED
    BY <2>2, <2>3
<1>3. ASSUME ~Claims, PointersOnlyCleared, NEW w \in Workers, WorkerNext(w), ~CreateScan(w), NEW v \in Workers
      PROVE  PointerKnown(v)'
  <2>1. CASE v = w
    BY <1>3, <2>1, ActorPointer
  <2>2. CASE v # w
    <3>1. Shape(w)
      BY <1>3, WorkerShape DEF Claims
    <3> QED
      BY <1>3, <2>2, <3>1, BystanderPointer DEF Shape
  <2> QED
    BY <2>1, <2>2
<1>4. ASSUME OperatorNext \/ UNCHANGED vars, ~Claims, NEW v \in Workers PROVE PointerKnown(v)'
  <2>1. UNCHANGED <<pc, cur, seen, resume>>
    BY <1>4 DEF OperatorNext, Upload, QueueJob, Cancel, Discard, ExpireFile, TimePasses, DeleteScan,
       attemptVars, vars
  <2>2. ~ \E w \in Workers : CreateScan(w)
    BY <2>1 DEF CreateScan, TypeOK, AttemptTypeOK
  <2> QED
    BY <1>4, <2>1, <2>2, PointersStep, BystanderPointer
<1> QED
  BY <1>1, <1>2, <1>3, <1>4, PointersStep DEF Next, Claims

---------------------------------------------------------------------------
(* What one step may do to the scans and to the jobs that name them.        *)

Kept == UNCHANGED <<scanId, scans, lastScan, digest, writer>>

\* A scan goes, and the foreign keys clear every pointer to it.
Removed(s) ==
  /\ scans' = scans \ {s}
  /\ inProgress' = Cleared(inProgress, s)
  /\ scanId' = Cleared(scanId, s)
  /\ UNCHANGED <<lastScan, digest, writer>>

\* A pointer to the scan its job already shows is dropped.
Forgot(j) ==
  /\ inProgress[j] = scanId[j]
  /\ inProgress' = [inProgress EXCEPT ![j] = 0]
  /\ Kept

\* Every step is a scan's creation or publication, or does one of these at most.
LEMMA DataStep ==
  ASSUME TypeOK, HasAttempt, [Next]_vars
  PROVE  \/ \E w \in Workers : CreateScan(w) \/ Complete(w) \/ LinkLate(w)
         \/ \E s \in Nat : Removed(s)
         \/ \E j \in Jobs : Forgot(j)
         \/ (UNCHANGED inProgress /\ Kept)
<1>1. ASSUME NEW w \in Workers, NEW j \in Jobs, NEW b, NEW r, DiscardDeadScan(w, j, b, r), Kept
      PROVE  Forgot(j) \/ UNCHANGED inProgress
  BY <1>1 DEF DiscardDeadScan, Forgot
<1>2. ASSUME NEW w \in Workers, Load(w) \/ AfterFail(w)
      PROVE  (\E j \in Jobs : Forgot(j)) \/ (UNCHANGED inProgress /\ Kept)
  <2>1. cur[w].job \in Jobs
    BY <1>2 DEF Load, AfterFail, HasAttempt, InAttempt
  <2>2. Kept
    BY <1>2 DEF Load, AfterFail, Kept
  <2> QED
    BY <1>1, <1>2, <2>1, <2>2 DEF Load, AfterFail
<1>3. ASSUME NEW w \in Workers, NextDead(w) \/ NextLeftover(w)
      PROVE  (\E j \in Jobs : Forgot(j)) \/ (UNCHANGED inProgress /\ Kept)
  <2>1. Kept
    BY <1>3 DEF NextDead, NextLeftover, Kept
  <2> QED
    BY <1>1, <1>3, <2>1 DEF NextDead, NextLeftover
<1>4. ASSUME NEW w \in Workers, Delete(w) PROVE \E s \in Nat : Removed(s)
  <2>1. seen[w] \in Nat
    BY BoundsAssumption DEF TypeOK, AttemptTypeOK
  <2> QED
    BY <1>4, <2>1 DEF Delete, Removed
<1>5. ASSUME NEW w \in Workers, WorkerNext(w)
      PROVE  \/ Load(w) \/ AfterFail(w) \/ NextDead(w) \/ NextLeftover(w) \/ Delete(w)
             \/ CreateScan(w) \/ Complete(w) \/ LinkLate(w) \/ (UNCHANGED inProgress /\ Kept)
  BY <1>5 DEF WorkerNext, Advance, MissingFile, LoseJob, ParserDone, Lookup, CompleteRefused, Superseded,
     Boot, ListLeftovers, EndSweep, ParserFails, Shutdown, Crash, LoseLock, Claim, Reap, Heartbeat,
     DeleteFails, FailJob, ReleaseJob, StallExit, dataVars, Kept
<1>6. ASSUME OperatorNext PROVE (\E s \in Nat : Removed(s)) \/ (UNCHANGED inProgress /\ Kept)
  <2>1. ASSUME NEW s \in ScanIds, DeleteScan(s) PROVE \E u \in Nat : Removed(u)
    BY <2>1 DEF DeleteScan, Removed, ScanIds
  <2> QED
    BY <1>6, <2>1 DEF OperatorNext, Upload, QueueJob, Cancel, Discard, ExpireFile, TimePasses, dataVars, Kept
<1>7. UNCHANGED vars => (UNCHANGED inProgress /\ Kept)
  BY DEF vars, dataVars, Kept
<1> QED
  BY <1>2, <1>3, <1>4, <1>5, <1>6, <1>7 DEF Next

\* A row becomes completed only by Complete, and keeps its token from then on.
LEMMA CompletedStep ==
  ASSUME TypeOK, [Next]_vars, NEW j \in Jobs, status'[j] = "completed"
  PROVE  \/ status[j] = "completed" /\ started'[j] = started[j]
         \/ \E w \in Workers : Complete(w) /\ cur[w].job = j
<1> DEFINE Final == status[j] = "completed" /\ started'[j] = started[j]
<1>0. status \in [Jobs -> Statuses] /\ started \in [Jobs -> Tokens] /\ clock \in Nat
  BY DEF TypeOK, RowsTypeOK
<1>1. ASSUME NEW k, NEW t, NEW st \in {"staged", "queued", "failed"}, NEW from \in SUBSET (Statuses \ {"completed"}),
             NEW count,
             \/ InsertRow(k, st) \/ ClaimRow(k) \/ HeartbeatRow(k, t) \/ FailRow(k, t) \/ ReleaseRow(k, t)
             \/ CancelRow(k, from, st) \/ RetryRow(k, from, count) \/ LeaseAges(k)
      PROVE  Final
  BY <1>0, <1>1
  DEF InsertRow, ClaimRow, HeartbeatRow, FailRow, ReleaseRow, CancelRow, RetryRow, LeaseAges, BackToQueue, Owns
<1>2. UNCHANGED rowVars => Final
  BY DEF rowVars
<1>3. ASSUME NEW w \in Workers, Reap(w) PROVE Final
  BY <1>3 DEF Reap, ReapRows, Requeued, Reapable, Stale
<1>4. ASSUME NEW w \in Workers, Complete(w) PROVE Final \/ cur[w].job = j
  BY <1>0, <1>4 DEF Complete, CompleteRow, Owns
<1>5. ASSUME NEW w \in Workers, WorkerNext(w) PROVE Final \/ Complete(w)
  <2>1. CASE UNCHANGED rowVars
    BY <1>2, <2>1
  <2>2. CASE Reap(w)
    BY <1>3, <2>2
  <2>3. CASE Heartbeat(w) \/ FailJob(w) \/ ReleaseJob(w) \/ StallExit(w) \/ DeleteFails(w)
    BY <1>1, <1>2, <2>3 DEF Heartbeat, FailJob, ReleaseJob, StallExit, DeleteFails
  <2>4. CASE \E k \in Jobs : Claim(w, k)
    BY <1>1, <2>4 DEF Claim
  <2> QED
    BY <1>5, <2>1, <2>2, <2>3, <2>4 DEF WorkerNext, Advance, Load, MissingFile, CreateScan, LoseJob, ParserDone,
       Lookup, Delete, CompleteRefused, LinkLate, Superseded, AfterFail, Boot, NextDead, ListLeftovers,
       NextLeftover, EndSweep, ParserFails, Shutdown, Crash, LoseLock
<1>6. ASSUME OperatorNext PROVE Final
  <2>1. {"staged", "failed"} \in SUBSET (Statuses \ {"completed"})
        /\ {"queued", "processing"} \in SUBSET (Statuses \ {"completed"})
        /\ {"staged"} \in SUBSET (Statuses \ {"completed"})
    BY DEF Statuses
  <2> QED
    BY <1>1, <1>2, <1>6, <2>1
    DEF OperatorNext, Upload, QueueJob, Cancel, Discard, ExpireFile, TimePasses, DeleteScan
<1> QED
  BY <1>2, <1>4, <1>5, <1>6 DEF Next, vars

\* A worker that writes after the step wrote the same scan before it, or creates it now.
LEMMA WritingStep ==
  ASSUME TypeOK, HasAttempt, [Next]_vars, NEW v \in Workers, pc'[v] \in {"write", "parsed"}
  PROVE  CreateScan(v) \/ (pc[v] \in {"write", "parsed"} /\ cur'[v] = cur[v])
<1> DEFINE Writing == pc[v] \in {"write", "parsed"} /\ cur'[v] = cur[v]
<1>0. pc \in [Workers -> Steps] /\ resume \in [Workers -> Resumes]
  BY DEF TypeOK, AttemptTypeOK
<1>1. ASSUME NEW w \in Workers, WorkerNext(w), w # v PROVE Writing
  <2>1. ASSUME NEW j \in Jobs, Claim(w, j) PROVE Writing
    BY <1>1, <2>1 DEF Claim
  <2> QED
    BY <1>1, <2>1, WorkerShape DEF Shape
<1>2. ASSUME WorkerNext(v), ~CreateScan(v) PROVE Writing
  <2>1. ASSUME NEW j, NEW b, NEW r \in {"parse", "done", "reap", "sweep"}, DiscardDeadScan(v, j, b, r) PROVE FALSE
    BY <1>0, <2>1 DEF DiscardDeadScan, After, Goes, EndAttempt, DeleteThen
  <2>2. CASE Load(v) \/ AfterFail(v) \/ NextDead(v) \/ NextLeftover(v)
    BY <2>1, <2>2 DEF Load, AfterFail, NextDead, NextLeftover
  <2>3. CASE ParserDone(v) \/ Heartbeat(v) \/ LoseLock(v)
    BY <1>0, <2>3 DEF ParserDone, Heartbeat, LoseLock, Goto, attemptVars
  <2>4. CASE Lookup(v) \/ Delete(v) \/ DeleteFails(v)
    BY <1>0, <2>4 DEF Lookup, Delete, DeleteFails, AfterRaise, After, Goes, EndAttempt, DeleteThen
  <2>5. CASE \/ MissingFile(v) \/ LoseJob(v) \/ ParserFails(v) \/ Shutdown(v) \/ CompleteRefused(v) \/ Boot(v)
             \/ Reap(v) \/ ListLeftovers(v) \/ EndSweep(v) \/ FailJob(v) \/ \E j \in Jobs : Claim(v, j)
    BY <1>0, <2>5
    DEF MissingFile, LoseJob, ParserFails, Shutdown, CompleteRefused, Boot, Reap, ListLeftovers, EndSweep,
        FailJob, Claim, Goto, LookupThen, EndAttempt
  <2>6. CASE Complete(v) \/ LinkLate(v) \/ Superseded(v) \/ ReleaseJob(v) \/ StallExit(v) \/ Crash(v)
    BY <1>0, <2>6 DEF Complete, LinkLate, Superseded, ReleaseJob, StallExit, Crash, EndAttempt
  <2> QED
    BY <1>2, <2>2, <2>3, <2>4, <2>5, <2>6 DEF WorkerNext, Advance
<1>3. ASSUME OperatorNext \/ UNCHANGED vars PROVE Writing
  BY <1>3 DEF OperatorNext, Upload, QueueJob, Cancel, Discard, ExpireFile, TimePasses, DeleteScan, attemptVars, vars
<1> QED
  BY <1>1, <1>2, <1>3 DEF Next

\* The scan ids in use, and who wrote each, only grow.
LEMMA WritesOwnScanStep ==
  ASSUME TypeOK, HasAttempt, WritesOwnScan, [Next]_vars
  PROVE  WritesOwnScan'
<1>0. /\ lastScan \in Nat
      /\ writer \in [ScanIds -> Tokens]
      /\ ScanIds = 1..MaxScans
      /\ cur \in [Workers -> Attempts]
  BY BoundsAssumption DEF TypeOK, DataTypeOK, AttemptTypeOK, ScanIds
<1>1. ASSUME NEW v \in Workers, CreateScan(v) PROVE cur'[v].scan \in 1..lastScan' /\ writer'[cur'[v].scan] = cur'[v].token
  <2>1. cur'[v].scan = lastScan + 1 /\ cur'[v].token = cur[v].token
    BY <1>0, <1>1 DEF CreateScan, Attempts
  <2>2. lastScan + 1 \in ScanIds
    BY <1>0, <1>1, BoundsAssumption DEF CreateScan
  <2> QED
    BY <1>0, <1>1, <2>1, <2>2 DEF CreateScan
<1>2. lastScan' \in Nat /\ lastScan <= lastScan' /\ \A s \in 1..lastScan : writer'[s] = writer[s]
  <2>1. CASE \E w \in Workers : CreateScan(w)
    BY <1>0, <2>1 DEF CreateScan
  <2>2. CASE UNCHANGED <<lastScan, writer>>
    BY <1>0, <2>2
  <2> QED
    BY <2>1, <2>2, DataStep DEF Kept, Removed, Forgot, Complete, LinkLate
<1> QED
  BY <1>0, <1>1, <1>2, WritingStep DEF WritesOwnScan

\* Every step keeps a shown scan in the database and stamped: a completion links a
\* scan it has just stamped, and a deletion clears the link with the row.
LEMMA ShownIsStampedStep ==
  ASSUME TypeOK, HasAttempt, ShownIsStamped, [Next]_vars
  PROVE  ShownIsStamped'
<1>0. /\ scanId \in [Jobs -> 0..MaxScans] /\ digest \in [ScanIds -> Nat]
      /\ scans \subseteq ScanIds
      /\ FileOf \in [Jobs -> Nat \ {0}]
  BY FilesAssumption, BoundsAssumption DEF TypeOK, DataTypeOK, ScanIds
<1>1. ASSUME NEW w \in Workers, Complete(w) \/ LinkLate(w) PROVE ShownIsStamped'
  <2>1. /\ cur[w].scan \in scans
        /\ scanId' = [scanId EXCEPT ![cur[w].job] = cur[w].scan]
        /\ digest' = [digest EXCEPT ![cur[w].scan] = FileOf[cur[w].job]]
        /\ scans' = scans
    BY <1>1 DEF Complete, LinkLate, Stamped
  <2>2. cur[w].job \in Jobs
    <3>1. InAttempt(w)
      BY <1>1 DEF Complete, LinkLate, InAttempt
    <3> QED
      BY <3>1 DEF HasAttempt
  <2> QED
    BY <1>0, <2>1, <2>2 DEF ShownIsStamped
<1>2. ASSUME NEW w \in Workers, CreateScan(w) PROVE ShownIsStamped'
  BY <1>2 DEF CreateScan, ShownIsStamped
<1>3. ASSUME NEW s \in Nat, Removed(s) PROVE ShownIsStamped'
  BY <1>0, <1>3 DEF Removed, Cleared, ShownIsStamped
<1>4. CASE Kept
  BY <1>4 DEF Kept, ShownIsStamped
<1> QED
  BY <1>1, <1>2, <1>3, <1>4, DataStep DEF Forgot

---------------------------------------------------------------------------
(* No scan loses its last name.                                             *)

\* Every step keeps each unfinished scan named by a row: a new scan is stamped in
\* its own commit over an empty pointer, a completion stamps what it unlinks, and a
\* pointer is cleared only with its scan or when the scan is finished.
LEMMA NoOrphanScanStep ==
  ASSUME TypeOK, HasAttempt, \A w \in Workers : PointerKnown(w), ShownIsStamped, NoOrphanScan, [Next]_vars
  PROVE  NoOrphanScan'
<1>0. /\ inProgress \in [Jobs -> 0..MaxScans] /\ digest \in [ScanIds -> Nat]
      /\ scans \subseteq 1..lastScan /\ scans \subseteq ScanIds /\ lastScan \in Nat
      /\ FileOf \in [Jobs -> Nat \ {0}]
  BY FilesAssumption, BoundsAssumption DEF TypeOK, DataTypeOK, ScanIds
<1>1. ASSUME NEW w \in Workers, CreateScan(w) PROVE NoOrphanScan'
  <2>1. cur[w].job \in Jobs /\ inProgress[cur[w].job] = 0
    <3>1. InAttempt(w) /\ pc[w] = "parse" /\ Mine(w)
      BY <1>1 DEF CreateScan, InAttempt
    <3> QED
      BY <3>1 DEF HasAttempt, Mine, Owns, Holding, PointerKnown
  <2>2. /\ inProgress' = [inProgress EXCEPT ![cur[w].job] = lastScan + 1]
        /\ scans' = scans \cup {lastScan + 1}
        /\ digest' = digest
    BY <1>1 DEF CreateScan
  <2>3. ASSUME NEW s \in scans PROVE digest[s] # 0 \/ \E j \in Jobs : inProgress'[j] = s
    <3>1. ASSUME NEW j \in Jobs, inProgress[j] = s PROVE inProgress'[j] = s
      BY <1>0, <2>1, <2>2, <3>1
    <3> QED
      BY <3>1 DEF NoOrphanScan
  <2>4. inProgress'[cur[w].job] = lastScan + 1
    BY <1>0, <2>1, <2>2
  <2> QED
    BY <2>1, <2>2, <2>3, <2>4 DEF NoOrphanScan
<1>2. ASSUME NEW w \in Workers, Complete(w) \/ LinkLate(w) PROVE NoOrphanScan'
  <2>1. cur[w].job \in Jobs /\ inProgress[cur[w].job] \in {0, cur[w].scan}
    <3>1. InAttempt(w) /\ pc[w] = "parsed" /\ started[cur[w].job] = cur[w].token
      BY <1>2 DEF Complete, LinkLate, InAttempt, CompleteRow, Owns, FailedAttempt
    <3> QED
      BY <3>1 DEF HasAttempt, Holding, PointerKnown
  <2>2. /\ cur[w].scan \in scans
        /\ inProgress' = [inProgress EXCEPT ![cur[w].job] = 0]
        /\ digest' = [digest EXCEPT ![cur[w].scan] = FileOf[cur[w].job]]
        /\ scans' = scans
    BY <1>2 DEF Complete, LinkLate, Stamped
  <2>3. digest'[cur[w].scan] # 0
    BY <1>0, <2>1, <2>2
  <2>4. ASSUME NEW s \in scans, s # cur[w].scan PROVE digest'[s] # 0 \/ \E j \in Jobs : inProgress'[j] = s
    <3>1. digest'[s] = digest[s] /\ s # 0
      BY <1>0, <2>2, <2>4
    <3>2. ASSUME NEW j \in Jobs, inProgress[j] = s PROVE inProgress'[j] = s
      BY <1>0, <2>1, <2>2, <2>4, <3>1, <3>2
    <3> QED
      BY <3>1, <3>2 DEF NoOrphanScan
  <2> QED
    BY <2>2, <2>3, <2>4 DEF NoOrphanScan
<1>3. ASSUME NEW s \in Nat, Removed(s) PROVE NoOrphanScan'
  BY <1>0, <1>3 DEF Removed, Cleared, NoOrphanScan
<1>4. ASSUME NEW k \in Jobs, Forgot(k) PROVE NoOrphanScan'
  <2>1. scans' = scans /\ digest' = digest /\ \A j \in Jobs \ {k} : inProgress'[j] = inProgress[j]
    BY <1>0, <1>4 DEF Forgot, Kept
  <2>2. ASSUME NEW s \in scans, inProgress[k] = s PROVE digest[s] # 0
    <3>1. s # 0 /\ scanId[k] = s
      BY <1>0, <1>4, <2>2 DEF Forgot
    <3> QED
      BY <3>1 DEF ShownIsStamped
  <2> QED
    BY <2>1, <2>2 DEF NoOrphanScan
<1>5. CASE UNCHANGED inProgress /\ Kept
  BY <1>5 DEF Kept, NoOrphanScan
<1> QED
  BY <1>1, <1>2, <1>3, <1>4, <1>5, DataStep

---------------------------------------------------------------------------
(* A completed job shows its holder's scan.                                 *)

\* Every step keeps a completed job's scan its holder's: only the fenced completion
\* completes a row; afterwards its token never changes and its scan only goes.
LEMMA PublishedByOwnerStep ==
  ASSUME TypeOK, HasAttempt, WritesOwnScan, PublishedByOwner, [Next]_vars
  PROVE  PublishedByOwner'
<1>0. /\ inProgress \in [Jobs -> 0..MaxScans] /\ scanId \in [Jobs -> 0..MaxScans]
      /\ scans \subseteq 1..lastScan /\ scans \subseteq ScanIds /\ lastScan \in Nat /\ writer \in [ScanIds -> Tokens]
      /\ status \in [Jobs -> Statuses]
  BY BoundsAssumption DEF TypeOK, DataTypeOK, RowsTypeOK, ScanIds
<1> SUFFICES ASSUME NEW j \in Jobs, status'[j] = "completed", scanId'[j] # 0
             PROVE  scanId'[j] \in scans' /\ writer'[scanId'[j]] = started'[j] /\ inProgress'[j] = 0
  BY DEF PublishedByOwner
<1>1. ASSUME NEW w \in Workers, Complete(w), cur[w].job = j
      PROVE  scanId'[j] \in scans' /\ writer'[scanId'[j]] = started'[j] /\ inProgress'[j] = 0
  <2>1. /\ cur[w].scan \in scans /\ writer[cur[w].scan] = cur[w].token
        /\ started[j] = cur[w].token
    BY <1>1 DEF Complete, CompleteRow, Owns, WritesOwnScan
  <2> QED
    BY <1>0, <1>1, <2>1 DEF Complete, CompleteRow
<1>2. ASSUME status[j] = "completed", started'[j] = started[j],
             ~ \E w \in Workers : Complete(w) /\ cur[w].job = j
      PROVE  scanId'[j] \in scans' /\ writer'[scanId'[j]] = started'[j] /\ inProgress'[j] = 0
  <2>1. CASE \E w \in Workers : CreateScan(w) \/ Complete(w) \/ LinkLate(w)
    <3>1. PICK w \in Workers : CreateScan(w) \/ Complete(w) \/ LinkLate(w)
      BY <2>1
    <3>2. cur[w].job # j
      BY <1>2, <3>1 DEF CreateScan, LinkLate, Mine, Owns, FailedAttempt
    <3>3. scanId'[j] = scanId[j] /\ inProgress'[j] = inProgress[j] /\ scans \subseteq scans'
      BY <1>0, <3>1, <3>2 DEF CreateScan, Complete, LinkLate
    <3>4. \A s \in scans : writer'[s] = writer[s]
      <4>1. writer' = [writer EXCEPT ![lastScan + 1] = cur[w].token] \/ writer' = writer
        BY <3>1 DEF CreateScan, Complete, LinkLate
      <4>2. \A s \in scans : s # lastScan + 1
        BY <1>0
      <4> QED
        BY <1>0, <4>1, <4>2
    <3> QED
      BY <1>2, <3>3, <3>4 DEF PublishedByOwner
  <2>2. ASSUME NEW s \in Nat, Removed(s)
        PROVE  scanId'[j] \in scans' /\ writer'[scanId'[j]] = started'[j] /\ inProgress'[j] = 0
    BY <1>0, <1>2, <2>2 DEF Removed, Cleared, PublishedByOwner
  <2>3. CASE Kept /\ inProgress'[j] \in {inProgress[j], 0}
    BY <1>2, <2>3 DEF Kept, PublishedByOwner
  <2>4. \A k \in Jobs : Forgot(k) => Kept /\ inProgress'[j] \in {inProgress[j], 0}
    BY <1>0 DEF Forgot
  <2> QED
    BY <2>1, <2>2, <2>3, <2>4, DataStep
<1> QED
  BY <1>1, <1>2, CompletedStep

---------------------------------------------------------------------------
(* The theorems.                                                            *)

\* The initial states: no attempt, no scan, no pointer.
LEMMA InitIInv == Init => IInv
<1> SUFFICES ASSUME Init PROVE IInv
  OBVIOUS
<1>1. TypeOK
  BY InitType
<1>2. \A w \in Workers : pc[w] = "boot" /\ cur[w].token = 0
  BY DEF Init, NoAttempt
<1>3. scans = {} /\ \A j \in Jobs : scanId[j] = 0
  BY DEF Init
<1> QED
  BY <1>1, <1>2, <1>3
  DEF IInv, HasAttempt, InAttempt, OwnTokens, PointerKnown, Holding, ShownIsStamped, WritesOwnScan,
      NoOrphanScan, PublishedByOwner

\* Every step of the queue keeps all of IInv.
LEMMA StepIInv == IInv /\ [Next]_vars => IInv'
<1> SUFFICES ASSUME IInv, [Next]_vars PROVE IInv'
  OBVIOUS
<1>1. TypeOK' /\ HasAttempt' /\ OwnTokens'
  BY TypeStep, AttemptStep DEF IInv
<1>2. \A w \in Workers : PointerKnown(w)'
  BY PointerStep DEF IInv
<1>3. ShownIsStamped' /\ WritesOwnScan'
  BY ShownIsStampedStep, WritesOwnScanStep DEF IInv
<1>4. NoOrphanScan' /\ PublishedByOwner'
  BY NoOrphanScanStep, PublishedByOwnerStep DEF IInv
<1> QED
  BY <1>1, <1>2, <1>3, <1>4 DEF IInv

\* The strengthened invariant holds of every reachable state.
THEOREM InductiveInvariant == Spec => []IInv
BY InitIInv, StepIInv, PTL DEF Spec

\* Every variable of the queue keeps its type: tokens stay below the clock,
\* scan ids below the sequence, and every worker at a step of its program.
THEOREM TypeCorrect == Spec => []TypeOK
<1>1. IInv => TypeOK
  BY DEF IInv
<1> QED
  BY <1>1, InductiveInvariant, PTL

\* However many workers crash, stall, lose their lock or their row, a scan that
\* is not a finished import is always named by a job row a cleanup can read.
THEOREM NoOrphan == Spec => []NoOrphanScan
<1>1. IInv => NoOrphanScan
  BY DEF IInv
<1> QED
  BY <1>1, InductiveInvariant, PTL

\* However many attempts a job had, the scan a completed job shows was written
\* by the attempt whose token is on its row.
THEOREM Published == Spec => []PublishedByOwner
<1>1. IInv => PublishedByOwner
  BY DEF IInv
<1> QED
  BY <1>1, InductiveInvariant, PTL

---------------------------------------------------------------------------
(* Accepted jobs keep their input (FileWhileNeeded), a file is not         *)
(* imported by two jobs at once (OneOpenPerFile), and the queue implements *)
(* what it promises its submitters (QueueContract).                        *)
(*                                                                         *)
(* OneOpenPerFile is not inductive, and queue_job's look at the first twin *)
(* only does not give it by itself: what does is that nobody may upload a  *)
(* file while a job of it is staged, so that a staged job is the newest of *)
(* its file (StagedIsNewest) and the first twin, when staged, the only one.*)

Open == {"queued", "processing"}

\* Jobs are inserted in the order of their ids.
InOrder == \A k, l \in Jobs : k < l /\ status[k] = "none" => status[l] = "none"

\* No later job of the file of a staged one exists, unless imported anyway.
StagedIsNewest ==
  \A k \in Jobs, l \in Jobs \ Repeatable :
    status[k] = "staged" /\ k < l /\ FileOf[k] = FileOf[l] => status[l] = "none"

\* A row that does not exist has no token and shows nothing.
NothingBeforeUpload == \A j \in Jobs : status[j] = "none" => started[j] = 0 /\ scanId[j] = 0

CInv == /\ IInv
        /\ InOrder /\ StagedIsNewest /\ NothingBeforeUpload
        /\ FileWhileNeeded /\ OneOpenPerFile

---------------------------------------------------------------------------
(* What one step may do to one row.                                        *)

Unmoved(j) == status'[j] = status[j] /\ started'[j] = started[j]
GivenBack(j) == /\ status[j] = "processing" /\ status'[j] = "queued" /\ started'[j] = 0
Stopped(j) == /\ status[j] \in {"staged", "queued", "processing"} /\ status'[j] = "failed"
              /\ started'[j] = started[j]
Completed(j) == \E w \in Workers : Complete(w) /\ cur[w].job = j /\ status[j] = "processing"
                                   /\ status'[j] = "completed" /\ started'[j] = started[j]
Claimed(j) == \E w \in Workers : Claim(w, j)

RowMoves(j) == \/ Unmoved(j) \/ Upload(j) \/ QueueJob(j) \/ Claimed(j)
               \/ GivenBack(j) \/ Stopped(j) \/ Completed(j)

\* The writes of JobTransitions, seen from any row.
LEMMA WritesMove ==
  ASSUME RowsTypeOK, NEW j \in Jobs, NEW k \in Jobs, NEW t
  PROVE  /\ HeartbeatRow(k, t) \/ LeaseAges(k) => Unmoved(j)
         /\ FailRow(k, t) => Unmoved(j) \/ Stopped(j)
         /\ ReleaseRow(k, t) => Unmoved(j) \/ GivenBack(j)
         /\ CancelRow(k, {"queued", "processing"}, "failed") => Unmoved(j) \/ Stopped(j)
         /\ CancelRow(k, {"staged"}, "failed") => Unmoved(j) \/ Stopped(j)
<1> USE DEF RowsTypeOK, Unmoved
<1>1. HeartbeatRow(k, t) \/ LeaseAges(k) => Unmoved(j)
  BY DEF HeartbeatRow, LeaseAges
<1>2. FailRow(k, t) => Unmoved(j) \/ Stopped(j)
  BY DEF FailRow, Owns, Stopped
<1>3. ReleaseRow(k, t) => Unmoved(j) \/ GivenBack(j)
  BY DEF ReleaseRow, BackToQueue, Owns, GivenBack
<1>4. /\ CancelRow(k, {"queued", "processing"}, "failed") => Unmoved(j) \/ Stopped(j)
      /\ CancelRow(k, {"staged"}, "failed") => Unmoved(j) \/ Stopped(j)
  BY DEF CancelRow, Stopped
<1> QED
  BY <1>1, <1>2, <1>3, <1>4

\* A worker's step.
LEMMA WorkerMoves ==
  ASSUME TypeOK, HasAttempt, NEW w \in Workers, WorkerNext(w), NEW j \in Jobs
  PROVE  RowMoves(j) /\ (clock' = clock \/ \E k \in Jobs : Claim(w, k))
<1>0. RowsTypeOK /\ status \in [Jobs -> Statuses] /\ started \in [Jobs -> Tokens]
  BY DEF TypeOK, RowsTypeOK
<1>1. CASE UNCHANGED rowVars
  BY <1>1 DEF rowVars, RowMoves, Unmoved
<1>2. CASE Reap(w)
  <2>1. Requeued \subseteq {k \in Jobs : status[k] = "processing"} /\ Reapable \subseteq {k \in Jobs : status[k] = "processing"}
    BY DEF Requeued, Reapable, Stale
  <2>2. /\ clock' = clock
        /\ (j \in Requeued => GivenBack(j))
        /\ (j \in Reapable \ Requeued => Stopped(j))
        /\ (j \notin Reapable /\ j \notin Requeued => Unmoved(j))
    BY <1>2, <2>1 DEF Reap, ReapRows, GivenBack, Stopped, Unmoved
  <2> QED
    BY <2>2 DEF RowMoves
<1>3. CASE \E k \in Jobs : Claim(w, k)
  <2>1. PICK k \in Jobs : Claim(w, k)
    BY <1>3
  <2>2. k # j => Unmoved(j)
    BY <1>0, <2>1 DEF Claim, ClaimRow, Unmoved
  <2> QED
    BY <2>1, <2>2 DEF RowMoves, Claimed
<1>4. CASE Complete(w)
  <2>1. cur[w].job \in Jobs
    BY <1>4 DEF Complete, HasAttempt, InAttempt
  <2>2. clock' = clock /\ (cur[w].job = j => Completed(j)) /\ (cur[w].job # j => Unmoved(j))
    BY <1>0, <1>4, <2>1 DEF Complete, CompleteRow, Owns, Completed, Unmoved
  <2> QED
    BY <2>2 DEF RowMoves
<1>5. CASE Heartbeat(w) \/ FailJob(w) \/ ReleaseJob(w) \/ StallExit(w) \/ DeleteFails(w)
  <2>1. CASE UNCHANGED rowVars
    BY <1>1, <2>1
  <2>2. CASE ~UNCHANGED rowVars
    <3>1. \/ HeartbeatRow(cur[w].job, cur[w].token) \/ FailRow(cur[w].job, cur[w].token)
          \/ ReleaseRow(cur[w].job, cur[w].token)
      BY <1>5, <2>2 DEF Heartbeat, FailJob, ReleaseJob, StallExit, DeleteFails
    <3>2. InAttempt(w)
      BY <1>5, <2>2 DEF Heartbeat, FailJob, ReleaseJob, StallExit, DeleteFails, InAttempt
    <3>3. cur[w].job \in Jobs
      BY <3>2 DEF HasAttempt
    <3>4. clock' = clock
      BY <3>1 DEF HeartbeatRow, FailRow, ReleaseRow, BackToQueue
    <3>5. Unmoved(j) \/ Stopped(j) \/ GivenBack(j)
      BY <1>0, <3>1, <3>3, WritesMove
    <3> QED
      BY <3>4, <3>5 DEF RowMoves
  <2> QED
    BY <2>1, <2>2
<1>6. \/ UNCHANGED rowVars \/ Reap(w) \/ Heartbeat(w) \/ DeleteFails(w) \/ Complete(w) \/ FailJob(w)
      \/ ReleaseJob(w) \/ StallExit(w) \/ \E k \in Jobs : Claim(w, k)
  BY DEF WorkerNext, Advance, Load, MissingFile, CreateScan, LoseJob, ParserDone, Lookup, Delete,
     CompleteRefused, LinkLate, Superseded, AfterFail, Boot, NextDead, ListLeftovers, NextLeftover,
     EndSweep, ParserFails, Shutdown, Crash, LoseLock
<1> QED
  BY <1>1, <1>2, <1>3, <1>4, <1>5, <1>6

\* Every step.
LEMMA RowStep ==
  ASSUME TypeOK, HasAttempt, [Next]_vars, NEW j \in Jobs
  PROVE  RowMoves(j) /\ (clock' = clock \/ Claims)
<1>0. RowsTypeOK /\ status \in [Jobs -> Statuses] /\ started \in [Jobs -> Tokens]
  BY DEF TypeOK, RowsTypeOK
<1>1. ASSUME NEW w \in Workers, WorkerNext(w) PROVE RowMoves(j) /\ (clock' = clock \/ Claims)
  BY <1>1, WorkerMoves DEF Claims
<1>2. ASSUME NEW k \in Jobs, Upload(k) \/ QueueJob(k)
      PROVE  RowMoves(j) /\ clock' = clock
  <2>1. clock' = clock /\ (k # j => Unmoved(j))
    BY <1>0, <1>2 DEF Upload, QueueJob, InsertRow, RetryRow, BackToQueue, Unmoved
  <2> QED
    BY <1>2, <2>1 DEF RowMoves
<1>3. ASSUME NEW k \in Jobs, Cancel(k) \/ Discard(k) \/ TimePasses(k)
      PROVE  RowMoves(j) /\ clock' = clock
  <2>1. CASE UNCHANGED rowVars
    BY <2>1 DEF rowVars, RowMoves, Unmoved
  <2>2. CASE ~UNCHANGED rowVars
    <3>1. \/ CancelRow(k, {"queued", "processing"}, "failed") \/ CancelRow(k, {"staged"}, "failed") \/ LeaseAges(k)
      BY <1>3, <2>2 DEF Cancel, Discard, TimePasses
    <3>2. clock' = clock
      BY <3>1 DEF CancelRow, LeaseAges
    <3>3. Unmoved(j) \/ Stopped(j)
      BY <1>0, <3>1, WritesMove
    <3> QED
      BY <3>2, <3>3 DEF RowMoves
  <2> QED
    BY <2>1, <2>2
<1>4. CASE UNCHANGED vars \/ (\E k \in Jobs : ExpireFile(k)) \/ \E s \in ScanIds : DeleteScan(s)
  BY <1>4 DEF vars, ExpireFile, DeleteScan, rowVars, RowMoves, Unmoved
<1> QED
  BY <1>1, <1>2, <1>3, <1>4 DEF Next, OperatorNext

---------------------------------------------------------------------------
(* How a row comes to be, to be staged, and to be open.                    *)

\* Rows appear by an upload only, and open by an upload or queue_job only.
LEMMA Arrivals ==
  ASSUME TypeOK, HasAttempt, [Next]_vars, NEW j \in Jobs
  PROVE  /\ status'[j] = "none" => status[j] = "none" /\ Unmoved(j)
         /\ status[j] = "none" /\ status'[j] # "none" => Upload(j)
         /\ status'[j] = "staged" => status[j] = "staged" \/ Upload(j)
         /\ status'[j] \in Open => status[j] \in Open \/ Upload(j) \/ QueueJob(j)
<1>0. RowsTypeOK
  BY DEF TypeOK
<1>1. RowMoves(j)
  BY RowStep
<1>2. ASSUME Upload(j) PROVE status[j] = "none" /\ status'[j] \in {"staged", "queued"}
  BY <1>0, <1>2 DEF Upload, InsertRow, RowsTypeOK
<1>3. ASSUME QueueJob(j) PROVE status[j] \in {"staged", "failed"} /\ status'[j] = "queued"
  BY <1>0, <1>3 DEF QueueJob, RetryRow, BackToQueue, RowsTypeOK
<1>4. ASSUME Claimed(j) PROVE status[j] = "queued" /\ status'[j] = "processing"
  BY <1>0, <1>4 DEF Claimed, Claim, ClaimRow, RowsTypeOK
<1> QED
  BY <1>1, <1>2, <1>3, <1>4 DEF RowMoves, Unmoved, GivenBack, Stopped, Completed, Open

\* While one job is uploaded or queued, the rows of the others stand still.
LEMMA OthersStill ==
  ASSUME TypeOK, NEW j \in Jobs, NEW k \in Jobs, k # j, Upload(j) \/ QueueJob(j)
  PROVE  status'[k] = status[k]
BY DEF TypeOK, RowsTypeOK, Upload, QueueJob, InsertRow, RetryRow, BackToQueue

\* A set of numbers has a least one.
LEMMA LeastOf ==
  ASSUME NEW T \in SUBSET Nat, T # {}
  PROVE  \E x \in T : \A y \in T : x <= y
<1>1. PICK x \in T : \A y \in T : ~(<<y, x>> \in OpToRel(<, Nat))
  BY NatLessThanWellFounded, WFMin
<1>2. \A y \in T : ~(y < x)
  BY <1>1 DEF OpToRel
<1> QED
  BY <1>2

\* A job that is opened finds no open job of its file: a first twin that is
\* staged is the newest of the file, so there is no other.
LEMMA OpensAlone ==
  ASSUME TypeOK, StagedIsNewest, NEW j \in Jobs \ Repeatable, NEW k \in Jobs \ Repeatable,
         j # k, FileOf[j] = FileOf[k], status[k] \in Open, Upload(j) \/ QueueJob(j)
  PROVE  FALSE
<1>1. k \in Twins(j)
  BY DEF Twins, Open
<1>2. QueueJob(j)
  BY <1>1 DEF Upload
<1>3. Twins(j) \in SUBSET Nat
  BY JobsAssumption DEF Twins
<1>4. PICK m \in Twins(j) : \A i \in Twins(j) : m <= i
  BY <1>1, <1>3, LeastOf
<1>5. m \in Jobs /\ FileOf[m] = FileOf[j] /\ FirstIn(Twins(j), m)
  BY <1>4 DEF Twins, FirstIn
<1>6. status[m] = "staged"
  BY <1>2, <1>5 DEF QueueJob
<1>7. m < k
  BY <1>1, <1>3, <1>4, <1>6 DEF Open
<1> QED
  BY <1>5, <1>6, <1>7 DEF StagedIsNewest, Open

---------------------------------------------------------------------------
(* The parts of the invariant.                                             *)

\* Ids stay in the order of the uploads.
LEMMA InOrderStep ==
  ASSUME TypeOK, HasAttempt, InOrder, [Next]_vars
  PROVE  InOrder'
<1> SUFFICES ASSUME NEW k \in Jobs, NEW l \in Jobs, k < l, status'[k] = "none"
             PROVE  status'[l] = "none"
  BY DEF InOrder
<1>1. status[k] = "none" /\ status[l] = "none"
  BY Arrivals DEF InOrder
<1>2. ~Upload(l)
  BY <1>1 DEF Upload
<1> QED
  BY <1>1, <1>2, Arrivals

\* A job of a file that has a staged one is refused at its upload.
LEMMA StagedIsNewestStep ==
  ASSUME TypeOK, HasAttempt, InOrder, StagedIsNewest, [Next]_vars
  PROVE  StagedIsNewest'
<1> SUFFICES ASSUME NEW k \in Jobs, NEW l \in Jobs \ Repeatable,
                    status'[k] = "staged", k < l, FileOf[k] = FileOf[l]
             PROVE  status'[l] = "none"
  BY DEF StagedIsNewest
<1>0. k # l
  BY JobsAssumption
<1>1. CASE Upload(k)
  <2>1. status[k] = "none"
    BY <1>1 DEF Upload, InsertRow
  <2>2. status[l] = "none"
    BY <2>1 DEF InOrder
  <2> QED
    BY <1>0, <1>1, <2>2, OthersStill
<1>2. CASE status[k] = "staged"
  <2>1. status[l] = "none"
    BY <1>2 DEF StagedIsNewest
  <2>2. k \in Twins(l)
    BY <1>0, <1>2 DEF Twins
  <2>3. ~Upload(l)
    BY <2>2 DEF Upload
  <2> QED
    BY <2>1, <2>3, Arrivals
<1> QED
  BY <1>1, <1>2, Arrivals

\* A row that does not exist yet is neither claimed nor given a result.
LEMMA NothingBeforeUploadStep ==
  ASSUME TypeOK, HasAttempt, NothingBeforeUpload, [Next]_vars
  PROVE  NothingBeforeUpload'
<1> SUFFICES ASSUME NEW j \in Jobs, status'[j] = "none"
             PROVE  started'[j] = 0 /\ scanId'[j] = 0
  BY DEF NothingBeforeUpload
<1>1. status[j] = "none" /\ Unmoved(j)
  BY Arrivals
<1>2. started'[j] = 0 /\ scanId[j] = 0
  BY <1>1 DEF NothingBeforeUpload, Unmoved
<1>3. scanId \in [Jobs -> 0..MaxScans]
  BY DEF TypeOK, DataTypeOK
<1>4. ASSUME NEW w \in Workers, CreateScan(w) \/ Complete(w) \/ LinkLate(w) PROVE scanId'[j] = 0
  <2>1. CreateScan(w) \/ (cur[w].job # j /\ scanId' = [scanId EXCEPT ![cur[w].job] = cur[w].scan])
    BY <1>1, <1>4 DEF Complete, LinkLate, CompleteRow, Owns, FailedAttempt
  <2> QED
    BY <1>2, <1>3, <2>1 DEF CreateScan
<1>5. ASSUME NEW s \in Nat, Removed(s) PROVE scanId'[j] = 0
  BY <1>2, <1>5 DEF Removed, Cleared
<1>6. (UNCHANGED inProgress /\ Kept) \/ (\E k \in Jobs : Forgot(k)) => scanId'[j] = 0
  BY <1>2 DEF Kept, Forgot
<1> QED
  BY <1>2, <1>4, <1>5, <1>6, DataStep

\* A file goes only from a job that is staged or over.
LEMMA FileStep ==
  ASSUME TypeOK, [Next]_vars, NEW j \in Jobs, status[j] \in Open, j \in file
  PROVE  j \in file'
<1>1. ASSUME NEW w \in Workers, WorkerNext(w) PROVE file' = file
  BY <1>1 DEF WorkerNext, Advance, Load, MissingFile, CreateScan, LoseJob, ParserDone, Lookup, Delete,
     Complete, CompleteRefused, LinkLate, Superseded, FailJob, AfterFail, ReleaseJob, Boot, NextDead,
     ListLeftovers, NextLeftover, EndSweep, Claim, Reap, Heartbeat, ParserFails, Shutdown, DeleteFails,
     StallExit, Crash, LoseLock, dataVars
<1>2. ASSUME NEW k \in Jobs, Upload(k) \/ QueueJob(k) \/ Cancel(k) \/ TimePasses(k) PROVE file \subseteq file'
  BY <1>2 DEF Upload, QueueJob, Cancel, TimePasses, dataVars
<1>3. ASSUME NEW k \in Jobs, Discard(k) \/ ExpireFile(k) PROVE j \in file'
  <2>1. k # j
    BY <1>3 DEF Discard, ExpireFile, CancelRow, Open
  <2> QED
    BY <1>3, <2>1 DEF Discard, ExpireFile
<1>4. ASSUME NEW s \in ScanIds, DeleteScan(s) PROVE file' = file
  BY <1>4 DEF DeleteScan
<1>5. UNCHANGED vars => file' = file
  BY DEF vars, dataVars
<1> QED
  BY <1>1, <1>2, <1>3, <1>4, <1>5 DEF Next, OperatorNext

\* A job is opened with its file there, and keeps it while it is open.
LEMMA FileWhileNeededStep ==
  ASSUME TypeOK, HasAttempt, FileWhileNeeded, [Next]_vars
  PROVE  FileWhileNeeded'
<1> SUFFICES ASSUME NEW j \in Jobs, status'[j] \in Open PROVE j \in file'
  BY DEF FileWhileNeeded, Open
<1>1. Upload(j) \/ QueueJob(j) => j \in file'
  BY DEF Upload, QueueJob, dataVars
<1>2. status[j] \in Open => j \in file'
  BY FileStep DEF FileWhileNeeded, Open
<1> QED
  BY <1>1, <1>2, Arrivals

\* No two jobs of a file become open, in whatever order.
LEMMA OneOpenPerFileStep ==
  ASSUME TypeOK, HasAttempt, StagedIsNewest, OneOpenPerFile, [Next]_vars
  PROVE  OneOpenPerFile'
<1> SUFFICES ASSUME NEW j \in Jobs \ Repeatable, NEW k \in Jobs \ Repeatable, FileOf[j] = FileOf[k],
                    status'[j] \in Open, status'[k] \in Open, j # k
             PROVE  FALSE
  BY DEF OneOpenPerFile, Open
<1>1. ~(status[j] \in Open /\ status[k] \in Open)
  BY DEF OneOpenPerFile, Open
<1>2. ~(Upload(j) \/ QueueJob(j))
  BY OthersStill, OpensAlone
<1>3. ~(Upload(k) \/ QueueJob(k))
  BY OthersStill, OpensAlone
<1> QED
  BY <1>1, <1>2, <1>3, Arrivals

\* The invariant of this module, at the start and along every step.
LEMMA InitCInv == Init => CInv
<1> SUFFICES ASSUME Init PROVE CInv
  OBVIOUS
<1>1. \A j \in Jobs : status[j] = "none" /\ started[j] = 0 /\ scanId[j] = 0
  BY DEF Init, RowsInit
<1> QED
  BY <1>1, InitIInv DEF CInv, InOrder, StagedIsNewest, NothingBeforeUpload, FileWhileNeeded, OneOpenPerFile

LEMMA StepCInv == CInv /\ [Next]_vars => CInv'
<1> SUFFICES ASSUME CInv, [Next]_vars PROVE CInv'
  OBVIOUS
<1>1. TypeOK /\ HasAttempt
  BY DEF CInv, IInv
<1>2. IInv' /\ InOrder' /\ StagedIsNewest'
  BY <1>1, StepIInv, InOrderStep, StagedIsNewestStep DEF CInv
<1>3. NothingBeforeUpload' /\ FileWhileNeeded' /\ OneOpenPerFile'
  BY <1>1, NothingBeforeUploadStep, FileWhileNeededStep, OneOpenPerFileStep DEF CInv
<1> QED
  BY <1>2, <1>3 DEF CInv

---------------------------------------------------------------------------
(* The refinement of QueueContract.                                        *)

\* The token of the attempt whose scan job j shows.
Result(j) == IF scanId[j] = 0 THEN 0 ELSE writer[scanId[j]]

\* An attempt that was cancelled after its parser had finished links its scan.
LinkedLate(j) ==
  /\ status[j] = "failed" /\ Unmoved(j)
  /\ Result(j) = 0 /\ started[j] # 0 /\ Result(j)' = started[j]

\* A job that gets its attempt's scan shows the token on its row.
LEMMA ShowsItsHolder ==
  ASSUME TypeOK, HasAttempt, WritesOwnScan, NEW w \in Workers, Complete(w) \/ LinkLate(w),
         NEW j \in Jobs, cur[w].job = j
  PROVE  started[j] # 0 /\ Result(j)' = started[j]
<1>0. scanId \in [Jobs -> 0..MaxScans] /\ lastScan \in 0..MaxScans
  BY DEF TypeOK, DataTypeOK
<1>1. /\ pc[w] = "parsed" /\ started[j] = cur[w].token /\ cur[w].token # 0
      /\ scanId' = [scanId EXCEPT ![j] = cur[w].scan] /\ writer' = writer
  BY DEF Complete, LinkLate, CompleteRow, Owns, FailedAttempt, HasAttempt, InAttempt
<1>2. cur[w].scan # 0 /\ writer[cur[w].scan] = cur[w].token
  BY <1>0, <1>1 DEF WritesOwnScan
<1>3. scanId'[j] = cur[w].scan
  BY <1>0, <1>1
<1> QED
  BY <1>1, <1>2, <1>3 DEF Result

\* What a job shows changes with its completion, a late link or a deletion only.
LEMMA ShownStep ==
  ASSUME TypeOK, HasAttempt, ShownIsStamped, WritesOwnScan, [Next]_vars, NEW j \in Jobs
  PROVE  \/ Result(j)' = Result(j)
         \/ Result(j)' = 0 /\ Unmoved(j)
         \/ Completed(j) /\ Result(j)' = started[j]
         \/ LinkedLate(j)
<1>0. /\ scanId \in [Jobs -> 0..MaxScans] /\ writer \in [ScanIds -> Tokens]
      /\ status \in [Jobs -> Statuses] /\ scans \subseteq 1..lastScan /\ lastScan \in 0..MaxScans
  BY DEF TypeOK, DataTypeOK, RowsTypeOK
<1>1. ASSUME NEW w \in Workers, CreateScan(w) PROVE Result(j)' = Result(j)
  <2>1. scanId' = scanId /\ writer' = [writer EXCEPT ![lastScan + 1] = cur[w].token]
    BY <1>1 DEF CreateScan
  <2>2. scanId[j] # 0 => scanId[j] \in 1..lastScan
    BY <1>0 DEF ShownIsStamped
  <2> QED
    BY <1>0, <2>1, <2>2 DEF Result
<1>2. ASSUME NEW w \in Workers, Complete(w) \/ LinkLate(w)
      PROVE  \/ Result(j)' = Result(j)
             \/ Completed(j) /\ Result(j)' = started[j]
             \/ LinkedLate(j)
  <2>1. scanId' = [scanId EXCEPT ![cur[w].job] = cur[w].scan] /\ writer' = writer
    BY <1>2 DEF Complete, LinkLate
  <2>2. CASE cur[w].job # j
    BY <1>0, <2>1, <2>2 DEF Result
  <2>3. CASE cur[w].job = j
    <3>4. started[j] # 0 /\ Result(j)' = started[j]
      BY <1>2, <2>3, ShowsItsHolder
    <3>5. CASE Complete(w)
      <4>1. started' = started /\ status[j] = "processing" /\ status'[j] = "completed"
        BY <1>0, <2>3, <3>5 DEF Complete, CompleteRow, Owns
      <4> QED
        BY <2>3, <3>4, <3>5, <4>1 DEF Completed
    <3>6. CASE LinkLate(w)
      BY <2>3, <3>4, <3>6 DEF LinkLate, LinkedLate, FailedAttempt, Unmoved, rowVars, Result
    <3> QED
      BY <1>2, <3>5, <3>6
  <2> QED
    BY <2>2, <2>3
<1>3. ASSUME NEW s, scanId' = Cleared(scanId, s), writer' = writer, UNCHANGED rowVars
      PROVE  Result(j)' = Result(j) \/ (Result(j)' = 0 /\ Unmoved(j))
  BY <1>3 DEF Cleared, Result, Unmoved, rowVars
<1>4. ASSUME NEW w \in Workers, Delete(w)
      PROVE  Result(j)' = Result(j) \/ (Result(j)' = 0 /\ Unmoved(j))
  BY <1>3, <1>4 DEF Delete
<1>5. ASSUME NEW s \in ScanIds, DeleteScan(s)
      PROVE  Result(j)' = Result(j) \/ (Result(j)' = 0 /\ Unmoved(j))
  BY <1>3, <1>5 DEF DeleteScan
<1>6. UNCHANGED <<scanId, writer>> => Result(j)' = Result(j)
  BY DEF Result
<1>7. ASSUME NEW w \in Workers, WorkerNext(w)
      PROVE  CreateScan(w) \/ Complete(w) \/ LinkLate(w) \/ Delete(w) \/ UNCHANGED <<scanId, writer>>
  BY <1>7 DEF WorkerNext, Advance, Load, MissingFile, LoseJob, ParserDone, Lookup,
     CompleteRefused, Superseded, FailJob, AfterFail, ReleaseJob, Boot, NextDead,
     ListLeftovers, NextLeftover, EndSweep, Claim, Reap, Heartbeat, ParserFails, Shutdown, DeleteFails,
     StallExit, Crash, LoseLock, dataVars
<1>8. OperatorNext => (\E s \in ScanIds : DeleteScan(s)) \/ UNCHANGED <<scanId, writer>>
  BY DEF OperatorNext, Upload, QueueJob, Cancel, Discard, ExpireFile, TimePasses, dataVars
<1>9. UNCHANGED vars => UNCHANGED <<scanId, writer>>
  BY DEF vars, dataVars
<1> QED
  BY <1>1, <1>2, <1>4, <1>5, <1>6, <1>7, <1>8, <1>9 DEF Next

\* What one step is to the contract, for one job, when nothing is claimed.
LEMMA MoveOfOne ==
  ASSUME CInv, [Next]_vars, ~Claims, NEW j \in Jobs
  PROVE  \/ Contract!Same(j) \/ Contract!Submit(j) \/ Contract!Start(j) \/ Contract!Publish(j)
         \/ Contract!HandBack(j) \/ Contract!Stop(j) \/ Contract!Keep(j) \/ Contract!Withdraw(j)
<1>0. /\ TypeOK /\ HasAttempt /\ ShownIsStamped /\ WritesOwnScan
      /\ status \in [Jobs -> Statuses] /\ started \in [Jobs -> Tokens] /\ NothingBeforeUpload
  BY DEF CInv, IInv, TypeOK, RowsTypeOK
<1> DEFINE shown == \/ Result(j)' = Result(j)
                    \/ Result(j)' = 0 /\ Unmoved(j)
                    \/ Completed(j) /\ Result(j)' = started[j]
                    \/ LinkedLate(j)
<1>1. shown
  BY <1>0, ShownStep
<1>2. RowMoves(j) /\ ~Claimed(j)
  BY <1>0, RowStep DEF Claims, Claimed
<1> USE DEF Phase, Result, Contract!Move, Contract!Holds, Contract!Shows
<1>3. CASE Unmoved(j)
  <2>1. Result(j)' = Result(j) => Contract!Same(j)
    BY <1>3 DEF Unmoved, Contract!Same
  <2>2. Result(j)' = 0 => Contract!Withdraw(j)
    BY <1>3 DEF Unmoved, Contract!Withdraw
  <2>3. LinkedLate(j) => Contract!Keep(j)
    BY <1>3 DEF Unmoved, LinkedLate, Contract!Keep
  <2>4. ~Completed(j)
    BY <1>3 DEF Unmoved, Completed
  <2> QED
    BY <1>1, <2>1, <2>2, <2>3, <2>4
<1>4. CASE Upload(j)
  BY <1>0, <1>4 DEF Upload, InsertRow, NothingBeforeUpload, Contract!Submit
<1>5. CASE QueueJob(j)
  BY <1>0, <1>5 DEF QueueJob, RetryRow, BackToQueue, dataVars, Contract!Start
<1>6. CASE GivenBack(j)
  <2>1. ~Unmoved(j) /\ ~LinkedLate(j) /\ ~Completed(j)
    BY <1>6 DEF GivenBack, Unmoved, LinkedLate, Completed
  <2>2. Result(j)' = Result(j)
    BY <1>1, <2>1
  <2> QED
    BY <1>6, <2>2 DEF GivenBack, Contract!HandBack
<1>7. CASE Stopped(j)
  <2>1. ~Unmoved(j) /\ ~LinkedLate(j) /\ ~Completed(j)
    BY <1>7 DEF Stopped, Unmoved, LinkedLate, Completed
  <2>2. Result(j)' = Result(j)
    BY <1>1, <2>1
  <2> QED
    BY <1>7, <2>2 DEF Stopped, Contract!Stop
<1>8. CASE Completed(j)
  <2>1. Result(j)' = started[j]
    BY <1>0, <1>8, ShowsItsHolder DEF Completed
  <2> QED
    BY <1>8, <2>1 DEF Completed, Contract!Publish
<1> QED
  BY <1>2, <1>3, <1>4, <1>5, <1>6, <1>7, <1>8 DEF RowMoves

\* A claim is the contract's Take: one job, a token no claim had before.
LEMMA ClaimTakes ==
  ASSUME CInv, NEW w \in Workers, NEW k \in Jobs, Claim(w, k)
  PROVE  Contract!Take(k) /\ \A j \in Jobs \ {k} : Contract!Same(j)
<1>0. /\ status \in [Jobs -> Statuses] /\ started \in [Jobs -> Tokens] /\ clock \in Nat
  BY DEF CInv, IInv, TypeOK, RowsTypeOK
<1>1. /\ status[k] = "queued" /\ status' = [status EXCEPT ![k] = "processing"]
      /\ started' = [started EXCEPT ![k] = clock + 1] /\ clock' = clock + 1
      /\ scanId' = scanId /\ writer' = writer
  BY DEF Claim, ClaimRow, dataVars
<1> USE DEF Phase, Contract!Move, Contract!Holds, Contract!Shows
<1>2. Contract!Take(k)
  BY <1>0, <1>1 DEF Contract!Take
<1>3. ASSUME NEW j \in Jobs \ {k} PROVE Contract!Same(j)
  BY <1>0, <1>1 DEF Contract!Same
<1> QED
  BY <1>2, <1>3

\* Only a claim uses a token up.
LEMMA ClockStill ==
  ASSUME TypeOK, HasAttempt, [Next]_vars, ~Claims
  PROVE  clock' = clock
<1>1. CASE Jobs # {}
  BY <1>1, RowStep
<1>2. CASE Jobs = {}
  <2>1. ASSUME NEW w \in Workers PROVE ~InAttempt(w) /\ Requeued = {}
    BY <1>2 DEF HasAttempt, Requeued, Reapable
  <2>2. UNCHANGED rowVars \/ (\E w \in Workers : Reap(w)) => clock' = clock
    BY DEF rowVars, Reap, ReapRows
  <2>3. ASSUME NEW w \in Workers, WorkerNext(w) PROVE UNCHANGED rowVars \/ Reap(w)
    BY <1>2, <2>1, <2>3 DEF WorkerNext, Advance, Load, MissingFile, CreateScan, LoseJob, ParserDone, Lookup,
       Delete, Complete, CompleteRefused, LinkLate, Superseded, FailJob, AfterFail, ReleaseJob, Boot, NextDead,
       ListLeftovers, NextLeftover, EndSweep, Heartbeat, ParserFails, Shutdown, DeleteFails,
       StallExit, Crash, LoseLock, InAttempt
  <2> QED
    BY <1>2, <2>2, <2>3 DEF Next, OperatorNext, DeleteScan, vars, rowVars
<1> QED
  BY <1>1, <1>2

\* Every step of the queue is a step of the contract.
LEMMA ContractStep == CInv /\ [Next]_vars => Contract!Next
<1> SUFFICES ASSUME CInv, [Next]_vars PROVE Contract!Next
  OBVIOUS
<1>1. CASE Claims
  <2>1. PICK w \in Workers, k \in Jobs : Claim(w, k)
    BY <1>1 DEF Claims
  <2> QED
    BY <2>1, ClaimTakes DEF Contract!Next
<1>2. CASE ~Claims
  <2>2. clock' = clock
    BY <1>2, ClockStill DEF CInv, IInv
  <2> QED
    BY <1>2, <2>2, MoveOfOne DEF Contract!Next
<1> QED
  BY <1>1, <1>2

\* The empty table is the contract's initial state.
LEMMA ContractInit == Init => Contract!Init
BY DEF Init, RowsInit, Phase, Contract!Init

---------------------------------------------------------------------------
(* The theorems.                                                           *)

\* The invariant of this module holds of every reachable state.
THEOREM ContractInvariant == Spec => []CInv
BY InitCInv, StepCInv, PTL DEF Spec

\* However jobs are staged, cancelled, retried, reaped and expired, one that is
\* queued or processing has its upload on disk.
THEOREM FilesKept == Spec => []FileWhileNeeded
<1>1. CInv => FileWhileNeeded
  BY DEF CInv
<1> QED
  BY <1>1, ContractInvariant, PTL

\* However many jobs of a file there are, two that were not imported anyway are
\* never both queued or processing.
THEOREM OneOpen == Spec => []OneOpenPerFile
<1>1. CInv => OneOpenPerFile
  BY DEF CInv
<1> QED
  BY <1>1, ContractInvariant, PTL

\* The queue implements QueueContract: fresh tokens, results of the holder only,
\* finished jobs final, stopped jobs never done.
THEOREM KeepsPromises == Spec => KeepsContract
<1>1. CInv /\ [Next]_vars => [Contract!Next]_(Contract!vars)
  BY ContractStep
<1> QED
  BY <1>1, ContractInit, ContractInvariant, PTL DEF Spec, KeepsContract, Contract!Spec

---------------------------------------------------------------------------
(* What a cleanup deletes, and how often an upload is imported.            *)
(*                                                                         *)
(* A cleanup deletes the scan it read a transaction earlier, so both of    *)
(* its properties are about what may happen to that scan in between.  They *)
(* rest on whose scan a pointer names (OwnPointers): never a finished      *)
(* import (FinishedUnnamed), and never that of an attempt of another job.  *)

\* Scan ids come from the sequence, and no id is stamped before it is used.
Ids ==
  /\ \A j \in Jobs : inProgress[j] <= lastScan
  /\ \A w \in Workers : seen[w] <= lastScan /\ cur[w].scan <= lastScan
  /\ \A s \in ScanIds : digest[s] # 0 => s <= lastScan

\* A scan is named by one job at most, and that of an attempt by the attempt's job.
OwnPointers ==
  /\ \A j, k \in Jobs : inProgress[j] # 0 /\ inProgress[j] = inProgress[k] => j = k
  /\ \A j \in Jobs, w \in Workers : cur[w].scan # 0 /\ inProgress[j] = cur[w].scan => j = cur[w].job

\* No job names a finished import.
FinishedUnnamed == \A s \in ScanIds : digest[s] # 0 => \A j \in Jobs : inProgress[j] # s

\* The cleanups that are fenced or ask whether the job has failed.
Fenced == {"next", "fail", "release", "done", "sweep"}

\* None of them is about to delete the scan that the holder of a job writes.
SparesHolder ==
  \A w, v \in Workers :
    /\ pc[w] = "delete" /\ resume[w] \in Fenced
    /\ pc[v] \in {"write", "parsed"} /\ Mine(v)
    => cur[v].scan # seen[w]

\* No other upload carries the bytes of j.
Sole(j) == \A k \in Jobs : FileOf[k] = FileOf[j] => k = j

\* The scan that carries the bytes of one upload is the one its job shows, and
\* that job is not to be run again.
OncePerUpload ==
  \A j \in Jobs \ Repeatable : Sole(j) =>
    \A s \in scans : digest[s] = FileOf[j] => scanId[j] = s /\ status[j] \in {"completed", "failed"}

\* A stamp is the file of some job.
DigestOfFile == \A s \in ScanIds : digest[s] # 0 => \E j \in Jobs : digest[s] = FileOf[j]

DInv == IInv /\ Ids /\ OwnPointers /\ FinishedUnnamed /\ SparesHolder /\ OncePerUpload /\ DigestOfFile

\* w reads a pointer and is about to delete what it names: the pointer of a
\* failed job, or that of its own job under its own token, when the cleanup is
\* one of the Fenced.
Enters(w) ==
  /\ UNCHANGED rowVars /\ UNCHANGED inProgress /\ Kept
  /\ cur'[w] = cur[w]
  /\ \E j \in Jobs :
       /\ inProgress[j] # 0 /\ seen'[w] = inProgress[j]
       /\ resume'[w] \in Fenced => status[j] = "failed" \/ (j = cur[w].job /\ Holding(w))

\* A worker's cursor is kept, cleared, or set as it enters a cleanup, and only
\* so does it come to delete anything.
LEMMA SeenStep ==
  ASSUME TypeOK, HasAttempt, [Next]_vars, NEW w \in Workers
  PROVE  /\ Enters(w) \/ seen'[w] \in {seen[w], 0}
         /\ pc'[w] = "delete" =>
              Enters(w) \/ (pc[w] = "delete" /\ seen'[w] = seen[w] /\ resume'[w] = resume[w])
<1> DEFINE Goal == /\ Enters(w) \/ seen'[w] \in {seen[w], 0}
                   /\ pc'[w] = "delete" =>
                        Enters(w) \/ (pc[w] = "delete" /\ seen'[w] = seen[w] /\ resume'[w] = resume[w])
<1>0. /\ pc \in [Workers -> Steps] /\ resume \in [Workers -> Resumes] /\ seen \in [Workers -> 0..MaxScans]
      /\ inProgress \in [Jobs -> 0..MaxScans]
  BY DEF TypeOK, DataTypeOK, AttemptTypeOK
<1>1. CASE UNCHANGED <<pc, seen, resume>>
  BY <1>1
<1>2. ASSUME NEW r, After(w, r) PROVE Goal
  BY <1>0, <1>2 DEF After, Goes, EndAttempt
<1>3. ASSUME NEW p \in Steps \ {"delete"}, Goto(w, p) \/ EndAttempt(w, p) PROVE Goal
  BY <1>0, <1>3 DEF Goto, EndAttempt
<1>4. ASSUME NEW r, LookupThen(w, r) PROVE Goal
  BY <1>0, <1>4 DEF LookupThen
<1>5. ASSUME NEW j \in Jobs, NEW b \in BOOLEAN, NEW r, DiscardDeadScan(w, j, b, r),
             UNCHANGED rowVars, Kept, b \/ r \notin Fenced
      PROVE  Goal
  <2>1. CASE After(w, r)
    BY <1>2, <2>1
  <2>2. CASE /\ b => status[j] = "failed"
             /\ inProgress[j] # 0
             /\ DeleteThen(w, inProgress[j], r)
             /\ UNCHANGED inProgress
    <3>1. seen'[w] = inProgress[j] /\ resume'[w] = r /\ cur'[w] = cur[w]
      BY <1>0, <2>2 DEF DeleteThen
    <3>2. Enters(w)
      BY <1>5, <2>2, <3>1 DEF Enters
    <3> QED
      BY <3>2
  <2> QED
    BY <1>5, <2>1, <2>2 DEF DiscardDeadScan
<1>6. ASSUME NEW v \in Workers, v # w, WorkerNext(v) PROVE Goal
  <2>1. pc'[w] = pc[w] /\ seen'[w] = seen[w] /\ resume'[w] = resume[w]
    BY <1>0, <1>6, WorkerShape DEF Shape, Claim
  <2> QED
    BY <2>1
<1>7. ASSUME WorkerNext(w) PROVE Goal
  <2>1. CASE Load(w)
    <3>1. cur[w].job \in Jobs
      BY <2>1 DEF Load, HasAttempt, InAttempt
    <3> QED
      BY <1>5, <2>1, <3>1 DEF Load, Kept, Fenced
  <2>2. CASE AfterFail(w)
    <3>1. cur[w].job \in Jobs
      BY <2>2 DEF AfterFail, HasAttempt, InAttempt
    <3> QED
      BY <1>5, <2>2, <3>1 DEF AfterFail, Kept
  <2>3. CASE NextDead(w) \/ NextLeftover(w)
    BY <1>5, <2>3 DEF NextDead, NextLeftover, Kept, Fenced
  <2>4. CASE Lookup(w)
    <3>1. cur[w].job \in Jobs /\ cur[w].token # 0
      BY <2>4 DEF Lookup, HasAttempt, InAttempt
    <3>2. CASE After(w, resume[w])
      BY <1>2, <3>2
    <3>3. CASE Named(w) # 0 /\ DeleteThen(w, Named(w), resume[w])
      <4>1. inProgress[cur[w].job] # 0 /\ Named(w) = inProgress[cur[w].job] /\ Holding(w)
        BY <3>1, <3>3 DEF Named, Holding
      <4>2. seen'[w] = inProgress[cur[w].job] /\ cur'[w] = cur[w]
        BY <1>0, <3>3, <4>1 DEF DeleteThen
      <4>3. Enters(w)
        BY <2>4, <3>1, <4>1, <4>2 DEF Lookup, Enters, Kept, dataVars
      <4> QED
        BY <4>3
    <3> QED
      BY <2>4, <3>2, <3>3 DEF Lookup
  <2>5. CASE Delete(w) \/ DeleteFails(w)
    <3>1. CASE \E r : After(w, r)
      BY <1>2, <3>1
    <3>2. CASE EndAttempt(w, "idle")
      BY <1>3, <3>2
    <3>3. CASE Goes(w, "fail")
      BY <1>0, <3>3 DEF Goes
    <3> QED
      BY <2>5, <3>1, <3>2, <3>3 DEF Delete, DeleteFails, AfterRaise
  <2>6. CASE LoseJob(w) \/ ParserFails(w) \/ Shutdown(w)
    BY <1>4, <2>6 DEF LoseJob, ParserFails, Shutdown
  <2>7. CASE \E p \in Steps \ {"delete"} : Goto(w, p) \/ EndAttempt(w, p)
    BY <1>3, <2>7
  <2>8. CASE CreateScan(w) \/ (\E j \in Jobs : Claim(w, j)) \/ Heartbeat(w) \/ LoseLock(w)
    BY <1>0, <2>8 DEF CreateScan, Claim, Heartbeat, LoseLock, attemptVars
  <2> QED
    BY <1>7, <2>1, <2>2, <2>3, <2>4, <2>5, <2>6, <2>7, <2>8
    DEF WorkerNext, Advance, MissingFile, ParserDone, Complete, CompleteRefused, LinkLate, Superseded, FailJob,
        ReleaseJob, Boot, ListLeftovers, EndSweep, Reap, StallExit, Crash
<1>8. CASE OperatorNext \/ UNCHANGED vars
  BY <1>1, <1>8 DEF OperatorNext, Upload, QueueJob, Cancel, Discard, ExpireFile, TimePasses, DeleteScan,
     attemptVars, vars
<1> QED
  BY <1>6, <1>7, <1>8 DEF Next

\* An attempt's scan is the one it had, none, or the one it creates.
LEMMA ScanStep ==
  ASSUME TypeOK, [Next]_vars, NEW w \in Workers
  PROVE  CreateScan(w) \/ cur'[w].scan = 0 \/ (cur'[w].scan = cur[w].scan /\ cur'[w].job = cur[w].job)
<1> DEFINE Goal == cur'[w].scan = 0 \/ (cur'[w].scan = cur[w].scan /\ cur'[w].job = cur[w].job)
<1>0. cur \in [Workers -> Attempts]
  BY DEF TypeOK, AttemptTypeOK
<1>1. UNCHANGED cur => Goal
  OBVIOUS
<1>2. ASSUME NEW r, After(w, r) PROVE Goal
  BY <1>0, <1>2 DEF After, Goes, EndAttempt, NoAttempt
<1>3. ASSUME NEW p, EndAttempt(w, p) PROVE Goal
  BY <1>0, <1>3 DEF EndAttempt, NoAttempt
<1>4. ASSUME NEW j, NEW b, NEW r, DiscardDeadScan(w, j, b, r) PROVE Goal
  BY <1>2, <1>4 DEF DiscardDeadScan, DeleteThen
<1>5. ASSUME NEW v \in Workers, v # w, WorkerNext(v) PROVE Goal
  <2>1. cur'[w] = cur[w]
    BY <1>0, <1>5, WorkerShape DEF Shape, Claim
  <2> QED
    BY <2>1
<1>6. ASSUME WorkerNext(w) PROVE Goal \/ CreateScan(w)
  <2>1. CASE Load(w) \/ AfterFail(w) \/ NextDead(w) \/ NextLeftover(w)
    BY <1>4, <2>1 DEF Load, AfterFail, NextDead, NextLeftover
  <2>2. CASE Lookup(w) \/ Delete(w) \/ DeleteFails(w)
    BY <1>1, <1>2, <1>3, <2>2 DEF Lookup, Delete, DeleteFails, AfterRaise, DeleteThen
  <2>3. CASE \E j \in Jobs : Claim(w, j)
    BY <1>0, <2>3 DEF Claim
  <2>4. CASE \E p : EndAttempt(w, p)
    BY <1>3, <2>4
  <2> QED
    BY <1>1, <1>6, <2>1, <2>2, <2>3, <2>4
    DEF WorkerNext, Advance, MissingFile, LoseJob, ParserDone, Complete, CompleteRefused, LinkLate, Superseded,
        FailJob, ReleaseJob, Boot, ListLeftovers, EndSweep, Reap, Heartbeat, ParserFails, Shutdown, StallExit,
        Crash, LoseLock, Goto, LookupThen, attemptVars
<1>7. CASE OperatorNext \/ UNCHANGED vars
  BY <1>1, <1>7 DEF OperatorNext, Upload, QueueJob, Cancel, Discard, ExpireFile, TimePasses, DeleteScan,
     attemptVars, vars
<1> QED
  BY <1>5, <1>6, <1>7 DEF Next

\* Every step keeps scan ids below the sequence.
LEMMA IdsStep ==
  ASSUME IInv, Ids, [Next]_vars
  PROVE  Ids'
<1>0. /\ TypeOK /\ HasAttempt /\ lastScan \in Nat
      /\ inProgress \in [Jobs -> 0..MaxScans] /\ digest \in [ScanIds -> Nat] /\ scans \subseteq 1..lastScan
      /\ seen \in [Workers -> 0..MaxScans] /\ cur \in [Workers -> Attempts]
  BY BoundsAssumption DEF IInv, TypeOK, DataTypeOK, AttemptTypeOK
<1>1. /\ lastScan \in Nat /\ lastScan' \in Nat /\ lastScan <= lastScan'
      /\ \A w \in Workers : CreateScan(w) => lastScan' = lastScan + 1
  BY <1>0, DataStep DEF CreateScan, Complete, LinkLate, Removed, Forgot, Kept
<1>2. ASSUME NEW j \in Jobs PROVE inProgress'[j] <= lastScan'
  <2>1. inProgress[j] \in Nat /\ inProgress[j] <= lastScan
    BY <1>0, BoundsAssumption DEF Ids
  <2>2. inProgress'[j] \in {inProgress[j], 0} \/ inProgress'[j] = lastScan'
    BY <1>0, PointersStep DEF PointersOnlyCleared, CreateScan
  <2> QED
    BY <1>1, <2>1, <2>2
<1>3. ASSUME NEW w \in Workers PROVE seen'[w] <= lastScan'
  <2>1. seen[w] \in Nat /\ seen[w] <= lastScan /\ \A j \in Jobs : inProgress[j] \in Nat /\ inProgress[j] <= lastScan
    BY <1>0, BoundsAssumption DEF Ids
  <2>2. seen'[w] \in {seen[w], 0} \/ \E j \in Jobs : seen'[w] = inProgress[j]
    BY <1>0, SeenStep DEF Enters
  <2> QED
    BY <1>1, <2>1, <2>2
<1>4. ASSUME NEW w \in Workers PROVE cur'[w].scan <= lastScan'
  <2>1. cur[w].scan \in Nat /\ cur[w].scan <= lastScan
    BY <1>0, BoundsAssumption DEF Ids, Attempts
  <2>2. CreateScan(w) => cur'[w].scan = lastScan'
    BY <1>0 DEF CreateScan, Attempts
  <2> QED
    BY <1>0, <1>1, <2>1, <2>2, ScanStep
<1>5. ASSUME NEW s \in ScanIds, digest'[s] # 0 PROVE s <= lastScan'
  <2>0. s \in Nat
    BY DEF ScanIds
  <2>1. CASE digest'[s] = digest[s]
    <3>1. s <= lastScan
      BY <1>5, <2>1 DEF Ids
    <3> QED
      BY <1>1, <2>0, <3>1
  <2>2. ASSUME NEW w \in Workers, Complete(w) \/ LinkLate(w), digest'[s] # digest[s] PROVE s <= lastScan
    <3>1. digest' = [digest EXCEPT ![cur[w].scan] = FileOf[cur[w].job]] /\ cur[w].scan \in scans
      BY <2>2 DEF Complete, LinkLate, Stamped
    <3>2. s = cur[w].scan
      BY <1>0, <2>2, <3>1
    <3>3. s \in 1..lastScan
      BY <1>0, <3>1, <3>2
    <3> QED
      BY <1>0, <2>0, <3>3
  <2>3. digest'[s] = digest[s] \/ \E w \in Workers : Complete(w) \/ LinkLate(w)
    BY <1>0, DataStep DEF CreateScan, Removed, Forgot, Kept
  <2> QED
    BY <1>0, <1>1, <2>0, <2>1, <2>2, <2>3
<1> QED
  BY <1>2, <1>3, <1>4, <1>5 DEF Ids

\* A new scan is named by its job only, and no pointer is set otherwise.
LEMMA OwnPointersStep ==
  ASSUME IInv, Ids, OwnPointers, [Next]_vars
  PROVE  OwnPointers'
<1>0. /\ TypeOK /\ HasAttempt /\ lastScan \in Nat
      /\ inProgress \in [Jobs -> 0..MaxScans] /\ cur \in [Workers -> Attempts]
      /\ \A j \in Jobs : inProgress[j] \in Nat /\ inProgress[j] <= lastScan
      /\ \A v \in Workers : cur[v].scan \in Nat /\ cur[v].scan <= lastScan
  BY BoundsAssumption DEF IInv, TypeOK, DataTypeOK, AttemptTypeOK, Ids, Attempts
<1>1. ASSUME NEW w \in Workers, CreateScan(w) PROVE OwnPointers'
  <2>1. /\ cur[w].job \in Jobs
        /\ inProgress' = [inProgress EXCEPT ![cur[w].job] = lastScan + 1]
        /\ cur' = [cur EXCEPT ![w].scan = lastScan + 1]
    BY <1>1 DEF CreateScan, Mine
  <2>2. \A j \in Jobs : inProgress'[j] = IF j = cur[w].job THEN lastScan + 1 ELSE inProgress[j]
    BY <1>0, <2>1
  <2>3. /\ cur'[w].scan = lastScan + 1 /\ cur'[w].job = cur[w].job
        /\ \A v \in Workers : v # w => cur'[v] = cur[v]
    BY <1>0, <2>1 DEF Attempts
  <2>4. ASSUME NEW j \in Jobs, NEW k \in Jobs, inProgress'[j] # 0, inProgress'[j] = inProgress'[k] PROVE j = k
    BY <1>0, <2>2, <2>4 DEF OwnPointers
  <2>5. ASSUME NEW j \in Jobs, NEW v \in Workers, cur'[v].scan # 0, inProgress'[j] = cur'[v].scan
        PROVE  j = cur'[v].job
    BY <1>0, <2>2, <2>3, <2>5 DEF OwnPointers
  <2> QED
    BY <2>4, <2>5 DEF OwnPointers
<1>2. CASE PointersOnlyCleared /\ ~ \E w \in Workers : CreateScan(w)
  <2>1. \A j \in Jobs : inProgress'[j] # 0 => inProgress'[j] = inProgress[j]
    BY <1>2 DEF PointersOnlyCleared
  <2>2. \A v \in Workers : cur'[v].scan # 0 => cur'[v].scan = cur[v].scan /\ cur'[v].job = cur[v].job
    BY <1>0, <1>2, ScanStep
  <2> QED
    BY <2>1, <2>2 DEF OwnPointers
<1> QED
  BY <1>0, <1>1, <1>2, PointersStep

\* A completion, early or late, clears the one pointer to the scan it stamps.
LEMMA FinishedStep ==
  ASSUME IInv, Ids, OwnPointers, FinishedUnnamed, DigestOfFile, [Next]_vars
  PROVE  FinishedUnnamed' /\ DigestOfFile'
<1>0. /\ TypeOK /\ HasAttempt /\ lastScan \in Nat
      /\ inProgress \in [Jobs -> 0..MaxScans] /\ digest \in [ScanIds -> Nat]
      /\ scans \subseteq ScanIds /\ scans \subseteq 1..lastScan
  BY BoundsAssumption DEF IInv, TypeOK, DataTypeOK, ScanIds
<1>1. ASSUME NEW w \in Workers, Complete(w) \/ LinkLate(w) PROVE FinishedUnnamed' /\ DigestOfFile'
  <2>1. cur[w].job \in Jobs
    BY <1>1 DEF Complete, LinkLate, IInv, HasAttempt, InAttempt
  <2>2. /\ cur[w].scan \in scans
        /\ inProgress' = [inProgress EXCEPT ![cur[w].job] = 0]
        /\ digest' = [digest EXCEPT ![cur[w].scan] = FileOf[cur[w].job]]
    BY <1>1 DEF Complete, LinkLate, Stamped
  <2>3. \A j \in Jobs : inProgress'[j] # cur[w].scan
    <3>1. cur[w].scan # 0
      BY <1>0, <2>2
    <3> QED
      BY <1>0, <2>1, <2>2, <3>1 DEF OwnPointers
  <2>4. ASSUME NEW s \in ScanIds, s # cur[w].scan
        PROVE  digest'[s] = digest[s] /\ \A j \in Jobs : inProgress'[j] = s => inProgress[j] = s
    <3>1. s # 0
      BY DEF ScanIds
    <3> QED
      BY <1>0, <2>1, <2>2, <2>4, <3>1
  <2>5. digest'[cur[w].scan] = FileOf[cur[w].job]
    BY <1>0, <2>2
  <2> QED
    BY <2>1, <2>3, <2>4, <2>5 DEF FinishedUnnamed, DigestOfFile
<1>2. ASSUME NEW w \in Workers, CreateScan(w) PROVE FinishedUnnamed' /\ DigestOfFile'
  <2>1. digest' = digest /\ inProgress' = [inProgress EXCEPT ![cur[w].job] = lastScan + 1]
    BY <1>2 DEF CreateScan
  <2>2. \A s \in ScanIds : digest[s] # 0 => s # lastScan + 1
    BY <1>0 DEF Ids, ScanIds
  <2>3. \A j \in Jobs : inProgress'[j] \in {inProgress[j], lastScan + 1}
    BY <1>0, <2>1
  <2>4. FinishedUnnamed'
    BY <2>1, <2>2, <2>3 DEF FinishedUnnamed
  <2> QED
    BY <2>1, <2>4 DEF DigestOfFile
<1>3. CASE digest' = digest /\ PointersOnlyCleared
  <2>1. \A s \in ScanIds : s # 0
    BY DEF ScanIds
  <2> QED
    BY <1>3, <2>1 DEF FinishedUnnamed, DigestOfFile, PointersOnlyCleared
<1>4. \/ \E w \in Workers : CreateScan(w) \/ Complete(w) \/ LinkLate(w)
      \/ digest' = digest
  BY <1>0, DataStep DEF Removed, Forgot, Kept
<1> QED
  BY <1>0, <1>1, <1>2, <1>3, <1>4, PointersStep

\* Who holds a row after a step that he does not claim in held it before.
LEMMA MineStep ==
  ASSUME TypeOK, HasAttempt, [Next]_vars, NEW v \in Workers,
         Mine(v)', cur'[v] = cur[v], pc[v] \in {"write", "parsed"}
  PROVE  Mine(v)
<1>0. /\ status \in [Jobs -> Statuses] /\ started \in [Jobs -> Tokens] /\ clock \in Nat
      /\ cur[v].token \in 0..clock /\ cur[v].job \in Jobs
  BY DEF TypeOK, RowsTypeOK, AttemptTypeOK, Attempts, Tokens, Mine
<1> DEFINE j == cur[v].job
<1>1. status'[j] = "processing" /\ started'[j] = cur[v].token
  BY DEF Mine, Owns
<1>2. ~Claimed(j)
  <2>1. ASSUME NEW w \in Workers, Claim(w, j) PROVE started'[j] = clock + 1
    BY <1>0, <2>1 DEF Claim, ClaimRow
  <2> QED
    BY <1>0, <1>1, <2>1 DEF Claimed
<1>3. ~Upload(j) /\ ~QueueJob(j)
  BY <1>0, <1>1 DEF Upload, InsertRow, QueueJob, RetryRow, BackToQueue
<1>4. Unmoved(j)
  BY <1>0, <1>1, <1>2, <1>3, RowStep DEF RowMoves, GivenBack, Stopped, Completed
<1> QED
  BY <1>0, <1>1, <1>4 DEF Unmoved, Mine, Owns

\* Between reading a pointer and deleting its scan a retry and a peer's claim
\* may land: the peer's own scan is another.
LEMMA SparesHolderStep ==
  ASSUME IInv, Ids, OwnPointers, SparesHolder, [Next]_vars
  PROVE  SparesHolder'
<1>0. /\ TypeOK /\ HasAttempt /\ OwnTokens /\ lastScan \in Nat
      /\ \A u \in Workers : seen[u] \in Nat /\ seen[u] <= lastScan /\ cur[u].scan \in Nat
      /\ pc \in [Workers -> Steps] /\ cur \in [Workers -> Attempts]
  BY BoundsAssumption DEF IInv, TypeOK, DataTypeOK, AttemptTypeOK, Ids, Attempts
<1> SUFFICES ASSUME NEW w \in Workers, NEW v \in Workers,
                    pc'[w] = "delete", resume'[w] \in Fenced,
                    pc'[v] \in {"write", "parsed"}, Mine(v)'
             PROVE  cur'[v].scan # seen'[w]
  BY DEF SparesHolder
<1>1. v # w
  OBVIOUS
<1>2. CASE CreateScan(v)
  <2>1. cur'[v].scan = lastScan + 1 /\ inProgress'[cur[v].job] = lastScan + 1 /\ cur[v].job \in Jobs
    BY <1>0, <1>2 DEF CreateScan, Attempts, Mine, TypeOK, DataTypeOK
  <2>2. pc'[w] = pc[w] /\ seen'[w] = seen[w]
    BY <1>0, <1>1, <1>2 DEF CreateScan
  <2> QED
    BY <1>0, <2>1, <2>2
<1>3. CASE pc[v] \in {"write", "parsed"} /\ cur'[v] = cur[v]
  <2>1. Mine(v)
    BY <1>0, <1>3, MineStep
  <2>2. CASE pc[w] = "delete" /\ seen'[w] = seen[w] /\ resume'[w] = resume[w]
    BY <1>3, <2>1, <2>2 DEF SparesHolder
  <2>3. CASE Enters(w)
    <3>1. PICK j \in Jobs : /\ inProgress[j] # 0 /\ seen'[w] = inProgress[j]
                            /\ status[j] = "failed" \/ (j = cur[w].job /\ Holding(w))
      BY <2>3 DEF Enters
    <3>2. SUFFICES ASSUME cur[v].scan = inProgress[j] PROVE FALSE
      BY <1>3, <3>1
    <3>3. j = cur[v].job
      BY <3>1, <3>2 DEF OwnPointers
    <3>4. status[j] = "processing" /\ started[j] = cur[v].token
      BY <2>1, <3>3 DEF Mine, Owns
    <3>5. cur[w].token # 0 /\ started[j] = cur[w].token
      BY <3>1, <3>4 DEF Holding
    <3> QED
      BY <1>0, <1>1, <3>4, <3>5 DEF OwnTokens
  <2> QED
    BY <1>0, <2>2, <2>3, SeenStep
<1> QED
  BY <1>0, <1>2, <1>3, WritingStep

\* A job is stamped when it holds its row or has failed without a scan, and is
\* not run again once a scan carries its bytes.
LEMMA OncePerUploadStep ==
  ASSUME IInv, Ids, OncePerUpload, [Next]_vars
  PROVE  OncePerUpload'
<1>0. /\ TypeOK /\ HasAttempt /\ lastScan \in Nat
      /\ status \in [Jobs -> Statuses] /\ digest \in [ScanIds -> Nat] /\ scanId \in [Jobs -> 0..MaxScans]
      /\ scans \subseteq ScanIds /\ scans \subseteq 1..lastScan
      /\ FileOf \in [Jobs -> Nat \ {0}]
  BY FilesAssumption, BoundsAssumption DEF IInv, TypeOK, DataTypeOK, RowsTypeOK, ScanIds
<1> SUFFICES ASSUME NEW j \in Jobs \ Repeatable, Sole(j), NEW s \in scans', digest'[s] = FileOf[j]
             PROVE  scanId'[j] = s /\ status'[j] \in {"completed", "failed"}
  BY DEF OncePerUpload, Sole
<1>s. FileOf[j] # 0
  BY <1>0
<1>1. ASSUME NEW w \in Workers, Complete(w) \/ LinkLate(w)
      PROVE  scanId'[j] = s /\ status'[j] \in {"completed", "failed"}
  <2>1. cur[w].job \in Jobs
    BY <1>1 DEF Complete, LinkLate, IInv, HasAttempt, InAttempt
  <2>2. /\ cur[w].scan \in scans /\ scans' = scans
        /\ scanId' = [scanId EXCEPT ![cur[w].job] = cur[w].scan]
        /\ digest' = [digest EXCEPT ![cur[w].scan] = FileOf[cur[w].job]]
    BY <1>1 DEF Complete, LinkLate, Stamped
  <2>3. CASE cur[w].job = j
    <3>1. \A t \in scans : digest[t] # FileOf[j]
      <4>1. status[j] = "processing" \/ scanId[j] = 0
        BY <1>1, <2>3 DEF Complete, CompleteRow, Owns, LinkLate
      <4>2. \A t \in scans : t # 0
        BY <1>0
      <4> QED
        BY <4>1, <4>2 DEF OncePerUpload
    <3>2. s = cur[w].scan
      BY <1>0, <2>2, <3>1
    <3>3. status'[j] \in {"completed", "failed"}
      BY <1>0, <1>1, <2>3 DEF Complete, CompleteRow, LinkLate, FailedAttempt, rowVars
    <3> QED
      BY <1>0, <2>2, <2>3, <3>2, <3>3
  <2>4. CASE cur[w].job # j
    <3>1. FileOf[cur[w].job] # FileOf[j]
      BY <2>1, <2>4 DEF Sole
    <3>2. s # cur[w].scan /\ digest[s] = FileOf[j]
      BY <1>0, <2>2, <3>1
    <3>3. scanId[j] = s /\ status[j] \in {"completed", "failed"}
      BY <2>2, <3>2 DEF OncePerUpload
    <3>4. scanId'[j] = scanId[j] /\ status'[j] = status[j]
      BY <1>0, <1>1, <2>2, <2>4 DEF Complete, CompleteRow, LinkLate, rowVars
    <3> QED
      BY <3>3, <3>4
  <2> QED
    BY <2>3, <2>4
<1>2. CASE ~ \E w \in Workers : Complete(w) \/ LinkLate(w)
  <2>1. digest' = digest
    BY <1>0, <1>2, DataStep DEF CreateScan, Removed, Forgot, Kept
  <2>2. s \in scans
    <3>1. scans' \subseteq scans \/ \E w \in Workers : CreateScan(w)
      BY <1>0, <1>2, DataStep DEF Removed, Forgot, Kept
    <3>2. ASSUME NEW w \in Workers, CreateScan(w) PROVE s \in scans
      <4>1. scans' = scans \cup {lastScan + 1} /\ lastScan + 1 \in ScanIds
        BY <1>0, <3>2, BoundsAssumption DEF CreateScan, ScanIds
      <4>2. digest[lastScan + 1] = 0
        BY <1>0, <4>1 DEF Ids
      <4> QED
        BY <1>s, <2>1, <4>1, <4>2
    <3> QED
      BY <3>1, <3>2
  <2>3. scanId[j] = s /\ status[j] \in {"completed", "failed"} /\ InInventory(j)
    BY <2>1, <2>2 DEF OncePerUpload, InInventory
  <2>4. scanId'[j] = s
    <3>1. ASSUME NEW t \in Nat, Removed(t) PROVE scanId'[j] = s
      BY <1>0, <2>3, <3>1 DEF Removed, Cleared
    <3> QED
      BY <1>0, <1>2, <2>3, <3>1, DataStep DEF CreateScan, Forgot, Kept
  <2>5. status'[j] \in {"completed", "failed"}
    <3>1. ~Upload(j) /\ ~QueueJob(j) /\ ~Claimed(j)
      BY <2>3 DEF Upload, InsertRow, QueueJob, Claimed, Claim, ClaimRow
    <3> QED
      BY <1>0, <2>3, <3>1, RowStep DEF RowMoves, Unmoved, GivenBack, Stopped, Completed
  <2> QED
    BY <2>4, <2>5
<1> QED
  BY <1>1, <1>2

\* The invariant of the cleanups and imports holds in every behaviour.
LEMMA DataInvariant == Spec => []DInv
<1>1. Init => DInv
  <2>1. Init => IInv
    BY InitIInv
  <2>2. Init => Ids /\ OwnPointers /\ FinishedUnnamed /\ SparesHolder /\ OncePerUpload /\ DigestOfFile
    BY DEF Init, NoAttempt, Ids, OwnPointers, FinishedUnnamed, SparesHolder, OncePerUpload, DigestOfFile
  <2> QED
    BY <2>1, <2>2 DEF DInv
<1>2. DInv /\ [Next]_vars => DInv'
  <2> SUFFICES ASSUME DInv, [Next]_vars PROVE DInv'
    OBVIOUS
  <2>1. IInv'
    BY StepIInv DEF DInv
  <2>2. Ids' /\ OwnPointers' /\ FinishedUnnamed' /\ DigestOfFile'
    BY IdsStep, OwnPointersStep, FinishedStep DEF DInv
  <2>3. SparesHolder' /\ OncePerUpload'
    BY SparesHolderStep, OncePerUploadStep DEF DInv
  <2> QED
    BY <2>1, <2>2, <2>3 DEF DInv
<1> QED
  BY <1>1, <1>2, PTL DEF Spec

\* A scan goes at a deletion's end only by that deletion.
LEMMA DeletionEnds ==
  ASSUME TypeOK, HasAttempt, [Next]_vars, NEW w \in Workers, pc[w] = "delete", pc'[w] # "delete"
  PROVE  Delete(w) \/ scans \subseteq scans'
<1>1. ASSUME NEW v \in Workers, WorkerNext(v), ~Delete(v) PROVE scans \subseteq scans'
  BY <1>1 DEF WorkerNext, Advance, Load, MissingFile, CreateScan, LoseJob, ParserDone, Lookup, Complete,
     CompleteRefused, LinkLate, Superseded, FailJob, AfterFail, ReleaseJob, Boot, NextDead, ListLeftovers,
     NextLeftover, EndSweep, Claim, Reap, Heartbeat, ParserFails, Shutdown, DeleteFails, StallExit, Crash,
     LoseLock, dataVars
<1>2. ASSUME NEW v \in Workers, Delete(v), v # w PROVE pc'[w] = pc[w]
  BY <1>2, WorkerShape DEF Shape, WorkerNext, Advance, Claim, Delete
<1>3. OperatorNext \/ UNCHANGED vars => pc' = pc
  BY DEF OperatorNext, Upload, QueueJob, Cancel, Discard, ExpireFile, TimePasses, DeleteScan, attemptVars, vars
<1> QED
  BY <1>1, <1>2, <1>3 DEF Next

\* However many workers stall, are reaped and come back: a cleanup that is
\* fenced, or has seen its job failed, never deletes the scan that a job's
\* holder is writing.
THEOREM CleanupSparesHolder == Spec => FencedCleanupSparesLive
<1>1. DInv /\ [Next]_vars =>
        [SparesLive({"next", "fail", "release", "done", "sweep"})]_vars
  <2> SUFFICES ASSUME DInv, [Next]_vars, NEW w \in Workers, NEW v \in Workers,
                      pc[w] = "delete", pc'[w] # "delete", resume[w] \in Fenced,
                      pc[v] \in {"write", "parsed"}, Mine(v), cur[v].scan \in scans
               PROVE  cur[v].scan \in scans'
    BY DEF SparesLive, Fenced
  <2>1. cur[v].scan # seen[w]
    BY DEF DInv, SparesHolder
  <2>2. Delete(w) \/ scans \subseteq scans'
    BY DeletionEnds DEF DInv, IInv
  <2> QED
    BY <2>1, <2>2 DEF Delete
<1> QED
  BY <1>1, DataInvariant, PTL DEF Spec, FencedCleanupSparesLive

\* A deletion under way is not of a finished import.
CleansUnfinished ==
  \A w \in Workers : pc[w] = "delete" => \A s \in ScanIds : digest[s] # 0 => seen[w] # s

\* With one worker, as deployed, nobody finishes an import that a cleanup has
\* looked up, and no cleanup ever deletes one.
THEOREM FinishedSpared ==
  ASSUME \A w, v \in Workers : w = v
  PROVE  Spec => CleanupSparesFinished
<1>1. Init => CleansUnfinished
  BY DEF Init, CleansUnfinished
<1>2. DInv /\ CleansUnfinished /\ [Next]_vars => CleansUnfinished'
  <2> SUFFICES ASSUME DInv, CleansUnfinished, [Next]_vars, NEW w \in Workers, pc'[w] = "delete",
                      NEW s \in ScanIds, digest'[s] # 0
               PROVE  seen'[w] # s
    BY DEF CleansUnfinished
  <2>1. TypeOK /\ HasAttempt
    BY DEF DInv, IInv
  <2>2. CASE Enters(w)
    BY <2>2 DEF Enters, Kept, DInv, FinishedUnnamed
  <2>3. CASE pc[w] = "delete" /\ seen'[w] = seen[w]
    <3>1. ~ \E v \in Workers : Complete(v) \/ LinkLate(v)
      BY <2>3 DEF Complete, LinkLate
    <3>2. digest' = digest
      BY <2>1, <3>1, DataStep DEF CreateScan, Removed, Forgot, Kept
    <3> QED
      BY <2>3, <3>2 DEF CleansUnfinished
  <2> QED
    BY <2>1, <2>2, <2>3, SeenStep
<1>3. DInv /\ CleansUnfinished /\ [Next]_vars =>
        [\A w \in Workers : pc[w] = "delete" /\ pc'[w] # "delete" =>
           {s \in scans : digest[s] # 0} \subseteq scans']_vars
  <2> SUFFICES ASSUME DInv, CleansUnfinished, [Next]_vars, NEW w \in Workers,
                      pc[w] = "delete", pc'[w] # "delete", NEW s \in scans, digest[s] # 0
               PROVE  s \in scans'
    OBVIOUS
  <2>1. Delete(w) \/ scans \subseteq scans'
    BY DeletionEnds DEF DInv, IInv
  <2>2. s \in ScanIds
    BY BoundsAssumption DEF DInv, IInv, TypeOK, DataTypeOK, ScanIds
  <2>3. seen[w] # s
    BY <2>2 DEF CleansUnfinished
  <2> QED
    BY <2>1, <2>3 DEF Delete
<1> QED
  BY <1>1, <1>2, <1>3, DataInvariant, PTL DEF Spec, CleanupSparesFinished

\* No upload is imported twice by its own job, whatever was cancelled after its
\* parser had finished and retried since.  (Two uploads of the same bytes may
\* be: the second is accepted while the first is cancelled and still parsing.)
THEOREM ImportedOnceEach ==
  ASSUME \A j \in Jobs : Sole(j)
  PROVE  Spec => []ImportedOnce
<1>1. DInv => ImportedOnce
  <2> SUFFICES ASSUME DInv, NEW s \in scans, NEW t \in scans, digest[s] # 0, digest[s] = digest[t],
                      ~ \E j \in Repeatable : FileOf[j] = digest[s]
               PROVE  s = t
    BY DEF ImportedOnce
  <2>1. s \in ScanIds
    BY BoundsAssumption DEF DInv, IInv, TypeOK, DataTypeOK, ScanIds
  <2>2. PICK j \in Jobs : digest[s] = FileOf[j]
    BY <2>1 DEF DInv, DigestOfFile
  <2>3. j \in Jobs \ Repeatable /\ Sole(j)
    BY <2>2
  <2>4. digest[s] = FileOf[j] /\ digest[t] = FileOf[j]
    BY <2>2
  <2>5. scanId[j] = s
    BY <2>3, <2>4 DEF DInv, OncePerUpload
  <2>6. scanId[j] = t
    BY <2>3, <2>4 DEF DInv, OncePerUpload
  <2> QED
    BY <2>5, <2>6
<1> QED
  BY <1>1, DataInvariant, PTL

===========================================================================
