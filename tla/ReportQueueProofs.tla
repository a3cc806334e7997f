------------------------- MODULE ReportQueueProofs -------------------------
(***************************************************************************)
(* Proofs about the report queue, for any number of jobs, workers,         *)
(* directories, crashes, dropped statements and requests.                  *)
(*                                                                         *)
(* None of the properties is inductive.  What is recorded is what is on    *)
(* disk because one worker at a time is between locking the report and its *)
(* commit (OneLock).  That a pending report has a job needs to know which  *)
(* live job is not about to be failed (Secure): an attempt gives its job   *)
(* up only after it marked the report, and what the handler asks for is    *)
(* its own claim (ClaimRead, MarkJudged).  The last two theorems are about  *)
(* one worker, as deployed, and false of two: nobody then acts on what a   *)
(* peer has changed since it was read (DoneIsFinal, NamedSpared).          *)
(***************************************************************************)
EXTENDS ReportQueue, TLAPS, WellFoundedInduction

\* The steps at which a worker has an attempt.
InAttempt == {"claimed", "render", "publish", "broken", "mark", "close", "written", "lost",
              "failing", "discard"}

HasAttempt == \A w \in Workers : pc[w] \in InAttempt => Job(w) \in Jobs /\ cur[w].token # 0

\* What a reaper has locked is processing and nobody else's.
HeldOK ==
  \A w \in Workers : \A j \in held[w] :
    /\ pc[w] = "reap" /\ status[j] = "processing"
    /\ \A v \in Workers : j \in held[v] => v = w

OneLock ==
  \A v, w \in Workers : pc[v] \in {"publish", "mark"} /\ pc[w] \in {"publish", "mark"} => v = w

OfKind ==
  \A w \in Workers : /\ pc[w] \in {"written", "lost"} => Job(w) \notin Issues
                     /\ pc[w] \in {"publish", "close"} => Job(w) \in Issues

\* A row that does not exist has no token.
NothingBefore == \A j \in Jobs : status[j] = "none" => started[j] = 0

QInv == TypeOK /\ HasAttempt /\ HeldOK /\ OneLock /\ OfKind /\ NothingBefore

---------------------------------------------------------------------------
(* Types.                                                                  *)

USE DEF Steps, InAttempt

\* Every write of one row but a claim keeps the rows' types and takes no token.
LEMMA RowWriteType ==
  ASSUME RowsTypeOK, NEW j \in Jobs, NEW t, NEW st \in Statuses, NEW from, NEW count \in Nat,
         \/ InsertRow(j, st) \/ HeartbeatRow(j, t) \/ CompleteRow(j, t) \/ FailRow(j, t)
         \/ ReleaseRow(j, t) \/ CancelRow(j, from, st) \/ RetryRow(j, from, count) \/ LeaseAges(j)
         \/ UNCHANGED rowVars
  PROVE  RowsTypeOK' /\ clock' = clock
<1> USE DEF RowsTypeOK, Tokens, Statuses
<1>1. CASE InsertRow(j, st)
  BY <1>1 DEF InsertRow
<1>2. CASE HeartbeatRow(j, t) \/ CompleteRow(j, t) \/ FailRow(j, t)
  BY <1>2 DEF HeartbeatRow, CompleteRow, FailRow
<1>3. CASE ReleaseRow(j, t)
  BY <1>3 DEF ReleaseRow, BackToQueue
<1>4. CASE CancelRow(j, from, st)
  BY <1>4 DEF CancelRow
<1>5. CASE RetryRow(j, from, count)
  BY <1>5 DEF RetryRow, BackToQueue
<1>6. CASE LeaseAges(j) \/ UNCHANGED rowVars
  BY <1>6 DEF LeaseAges, rowVars
<1> QED
  BY <1>1, <1>2, <1>3, <1>4, <1>5, <1>6

\* So do a claim, which takes one token, and the reaper's commit.
LEMMA ClaimRowsType ==
  ASSUME RowsTypeOK, NEW j \in Jobs, ClaimRows(j)
  PROVE  RowsTypeOK' /\ clock' = clock + 1
BY DEF RowsTypeOK, ClaimRows, Tokens, Statuses

LEMMA ReapRowsType ==
  ASSUME RowsTypeOK, NEW requeued, NEW failed, ReapRows(requeued, failed)
  PROVE  RowsTypeOK' /\ clock' = clock
BY DEF RowsTypeOK, ReapRows, Tokens, Statuses

\* What TypeOK says of the workers, of the report and the files, and of the budgets.
Attempts == [job : Jobs \cup {0}, token : Tokens, claim : Tokens, dir : 0..lastDir]

WorkersOK ==
  /\ pc \in [Workers -> Steps]
  /\ cur \in [Workers -> Attempts]
  /\ mayFail \in [Workers -> BOOLEAN]
  /\ held \in [Workers -> SUBSET Jobs]

FilesOK ==
  /\ result \in [Jobs -> 0..lastDir]
  /\ past \subseteq Jobs
  /\ gone \subseteq past
  /\ lastDir \in 0..MaxDirs
  /\ dirs \subseteq 1..lastDir
  /\ madeBy \in [Dirs -> [job : Jobs \cup {0}, token : Tokens]]
  /\ aged \subseteq dirs
  /\ expired \in [Workers -> SUBSET past]
  /\ orphans \in [Workers -> SUBSET (1..lastDir)]

ReportOK ==
  /\ render \in {"draft", "pending", "done", "failed"}
  /\ recorded \in Tokens
  /\ onDisk \in Tokens

BudgetsOK == faults \in 0..MaxFaults /\ drops \in 0..MaxDrops /\ asks \in 0..MaxAsks

LEMMA TypeParts == TypeOK <=> RowsTypeOK /\ WorkersOK /\ FilesOK /\ ReportOK /\ BudgetsOK
BY DEF TypeOK, WorkersOK, Attempts, FilesOK, ReportOK, BudgetsOK

LEMMA InitType == Init => TypeOK
BY BoundsAssumption
DEF Init, RowsInit, TypeOK, RowsTypeOK, Tokens, Statuses, NoAttempt, Dirs

LEMMA RowsStep ==
  ASSUME TypeOK, HasAttempt, [Next]_vars
  PROVE  RowsTypeOK' /\ (clock' = clock \/ clock' = clock + 1)
<1>0. RowsTypeOK
  BY DEF TypeOK
<1>1. CASE UNCHANGED rowVars
  BY <1>0, <1>1 DEF RowsTypeOK, rowVars, Tokens
<1>2. ASSUME NEW w \in Workers, WorkerNext(w) PROVE RowsTypeOK' /\ (clock' = clock \/ clock' = clock + 1)
  <2>1. CASE \E j \in Jobs : Claim(w, j)
    BY <1>0, <2>1, ClaimRowsType DEF Claim
  <2>2. CASE ReapCommit(w)
    BY <1>0, <2>2, ReapRowsType DEF ReapCommit
  <2>3. CASE \/ Renew(w) \/ Finish(w) \/ FinishRaises(w) \/ Close(w) \/ CloseRaises(w) \/ FailJob(w)
             \/ Shutdown(w)
    <3>1. Job(w) \in Jobs
      BY <2>3 DEF HasAttempt, Renew, Finish, FinishRaises, Close, CloseRaises, FailJob, Shutdown
    <3>2. \/ HeartbeatRow(Job(w), cur[w].token) \/ CompleteRow(Job(w), cur[w].token)
          \/ FailRow(Job(w), cur[w].token) \/ ReleaseRow(Job(w), cur[w].token) \/ UNCHANGED rowVars
      BY <2>3 DEF Renew, Finish, FinishRaises, PublishArtifact, Close, CloseRaises, FailJob, Shutdown
    <3>3. "failed" \in Statuses /\ 0 \in Nat
      BY DEF Statuses
    <3> QED
      BY <1>0, <3>1, <3>2, <3>3, RowWriteType
  <2> QED
    BY <1>1, <1>2, <2>1, <2>2, <2>3 DEF WorkerNext, Advance, Load, Write, DropArtifact, CopyFiles,
       Publish, Judge, Mark, Discard, Boot, Expire, DeleteExpired, SpareNamed, SpareProcessing,
       RemoveOrphans, ReapLock, RenderFails, PublishRaises, MarkRaises, FailRaises, Crash, jobVars
<1>3. ASSUME NEW j \in Jobs, Issue(j) \/ Rerender(j) \/ Ask(j) \/ Retry(j) \/ Cancel(j) \/ LeaseExpires(j)
      PROVE  RowsTypeOK' /\ clock' = clock
  <2>1. {"queued", "cancelled"} \subseteq Statuses /\ reaps[j] \in Nat
    BY <1>0 DEF Statuses, RowsTypeOK
  <2>2. \/ InsertRow(j, "queued") \/ RetryRow(j, {"failed"}, reaps[j])
        \/ CancelRow(j, {"queued"}, "cancelled") \/ LeaseAges(j)
    BY <1>3 DEF Issue, Rerender, Ask, Retry, Cancel, LeaseExpires
  <2> QED
    BY <1>0, <2>1, <2>2, RowWriteType
<1>4. CASE OutsideNext
  BY <1>1, <1>3, <1>4 DEF OutsideNext, ArtifactExpires, DirAges, jobVars
<1> QED
  BY <1>1, <1>2, <1>4 DEF Next, vars, jobVars

\* The actions that change the workers' files, sweeps or artifacts.
LEMMA FilesStep ==
  ASSUME TypeOK, HasAttempt, [Next]_vars
  PROVE  FilesOK' /\ (lastDir' = lastDir \/ lastDir' = lastDir + 1)
<1>0. /\ RowsTypeOK /\ WorkersOK /\ FilesOK /\ clock \in Nat /\ lastDir \in Nat
      /\ RowsTypeOK' /\ Tokens \subseteq Tokens'
  BY TypeParts, RowsStep, BoundsAssumption DEF RowsTypeOK, FilesOK, Tokens
<1> USE DEF FilesOK
<1>1. CASE UNCHANGED <<result, past, gone, diskVars, sweepVars>>
  BY <1>0, <1>1 DEF diskVars, sweepVars
<1>2. ASSUME NEW w \in Workers, WorkerNext(w) PROVE FilesOK' /\ (lastDir' = lastDir \/ lastDir' = lastDir + 1)
  <2>0. cur[w] \in Attempts
    BY <1>0 DEF WorkersOK
  <2>1. CASE Write(w)
    <3>1. lastDir + 1 \in Dirs /\ lastDir' = lastDir + 1 /\ lastDir' \in 0..MaxDirs
      BY <1>0, <2>1, BoundsAssumption DEF Write, Dirs
    <3>2. [job |-> Job(w), token |-> cur[w].token] \in [job : Jobs \cup {0}, token : Tokens]
      BY <2>0 DEF Attempts, Job
    <3>3. madeBy' \in [Dirs -> [job : Jobs \cup {0}, token : Tokens']]
      BY <1>0, <2>1, <3>1, <3>2 DEF Write
    <3> QED
      BY <1>0, <2>1, <3>1, <3>3 DEF Write, jobVars, sweepVars
  <2>2. CASE Finish(w) \/ FinishRaises(w)
    <3>1. cur[w].dir \in 0..lastDir
      BY <2>0 DEF Attempts
    <3>2. result' \in [Jobs -> 0..lastDir]
      BY <1>0, <2>2, <3>1 DEF Finish, FinishRaises, PublishArtifact
    <3> QED
      BY <1>0, <2>2, <3>2 DEF Finish, FinishRaises, diskVars, sweepVars
  <2>3. CASE DropArtifact(w) \/ Discard(w)
    BY <1>0, <2>3 DEF DropArtifact, Discard, Remove, jobVars, diskVars, sweepVars
  <2>4. CASE Crash(w)
    BY <1>0, <2>4 DEF Crash, jobVars, diskVars
  <2>5. CASE Expire(w)
    BY <1>0, <2>5 DEF Expire, Remove, jobVars
  <2>6. CASE DeleteExpired(w)
    BY <1>0, <2>6 DEF DeleteExpired, diskVars
  <2>7. CASE SpareNamed(w) \/ SpareProcessing(w)
    BY <1>0, <2>7 DEF SpareNamed, SpareProcessing, jobVars, diskVars
  <2>8. CASE RemoveOrphans(w)
    BY <1>0, <2>8 DEF RemoveOrphans, Remove, jobVars
  <2> QED
    BY <1>1, <1>2, <2>1, <2>2, <2>3, <2>4, <2>5, <2>6, <2>7, <2>8 DEF WorkerNext, Advance, Load,
       CopyFiles, Publish, Judge, Mark, Close, FailJob, Boot, ReapCommit, Claim, ReapLock, Renew,
       RenderFails, PublishRaises, MarkRaises, CloseRaises, FailRaises, Shutdown, jobVars
<1>3. ASSUME NEW j \in Jobs, ArtifactExpires(j) PROVE FilesOK' /\ lastDir' = lastDir
  BY <1>0, <1>3 DEF ArtifactExpires, diskVars, sweepVars
<1>4. ASSUME NEW d \in Dirs, DirAges(d) PROVE FilesOK' /\ lastDir' = lastDir
  BY <1>0, <1>4 DEF DirAges, jobVars, sweepVars
<1>5. CASE OutsideNext
  BY <1>1, <1>3, <1>4, <1>5 DEF OutsideNext, Issue, Rerender, Ask, Retry, Cancel, LeaseExpires
<1> QED
  BY <1>1, <1>2, <1>5 DEF Next, vars, jobVars

\* The actions that change what the workers do.
LEMMA WorkersStep ==
  ASSUME TypeOK, HasAttempt, [Next]_vars
  PROVE  WorkersOK'
<1>0. /\ RowsTypeOK /\ WorkersOK /\ clock \in Nat /\ lastDir \in Nat
      /\ started \in [Jobs -> Tokens]
      /\ Attempts \subseteq Attempts'
  BY TypeParts, RowsStep, FilesStep, BoundsAssumption DEF RowsTypeOK, FilesOK, Tokens, Attempts
<1>1. NoAttempt \in Attempts
  BY <1>0 DEF NoAttempt, Attempts, Tokens
<1> USE DEF WorkersOK
<1>2. ASSUME UNCHANGED <<cur, mayFail, held>>, pc' \in [Workers -> Steps] PROVE WorkersOK'
  BY <1>0, <1>2
<1>3. ASSUME NEW w \in Workers, NEW p \in Steps, EndAttempt(w, p),
             held' = held \/ held' = [held EXCEPT ![w] = {}]
      PROVE  WorkersOK'
  BY <1>0, <1>1, <1>3 DEF EndAttempt, Goto
<1>4. ASSUME NEW w \in Workers, WorkerNext(w) PROVE WorkersOK'
  <2>0. /\ cur[w] \in Attempts
        /\ cur[w].job \in Jobs \cup {0} /\ cur[w].token \in Tokens /\ cur[w].claim \in Tokens /\ cur[w].dir \in 0..lastDir
    BY <1>0 DEF Attempts
  <2>1. CASE \E j \in Jobs : Claim(w, j)
    <3>1. PICK j \in Jobs : Claim(w, j)
      BY <2>1
    <3>2. clock' = clock + 1 /\ lastDir' = lastDir
      BY <3>1 DEF Claim, ClaimRows, diskVars
    <3>3. NoAttempt \in Attempts' /\ clock + 1 \in Tokens'
      BY <1>0, <1>1, <3>2 DEF Tokens
    <3>4. [NoAttempt EXCEPT !.job = j, !.token = clock + 1] \in Attempts'
      BY <3>3 DEF Attempts
    <3> QED
      BY <1>0, <3>1, <3>4 DEF Claim, Goto
  <2>2. CASE Load(w)
    <3>1. CASE EndAttempt(w, "idle") /\ held' = held
      BY <1>3, <3>1
    <3>2. CASE cur' = [cur EXCEPT ![w].claim = started[Job(w)]] /\ mayFail' = mayFail /\ held' = held
               /\ \E p \in Steps : Goto(w, p)
      <4>1. Job(w) \in Jobs
        BY <2>2 DEF Load, HasAttempt
      <4>2. [cur[w] EXCEPT !.claim = started[Job(w)]] \in Attempts
        BY <1>0, <2>0, <4>1 DEF Attempts
      <4> QED
        BY <1>0, <3>2, <4>2 DEF Goto
    <3> QED
      BY <2>2, <3>1, <3>2 DEF Load
  <2>3. CASE Write(w)
    <3>1. lastDir' = lastDir + 1 /\ clock' = clock
      BY <2>3 DEF Write, jobVars, rowVars
    <3>2. [cur[w] EXCEPT !.dir = lastDir + 1] \in Attempts'
      BY <1>0, <2>0, <3>1 DEF Attempts, Tokens
    <3> QED
      BY <1>0, <2>3, <3>2 DEF Write, Goto
  <2>4. CASE Judge(w) \/ Mark(w) \/ MarkRaises(w)
    BY <1>0, <2>4 DEF Judge, Mark, MarkRaises, Goto, StillClaimed, Owns
  <2>5. CASE ReapLock(w)
    BY <1>0, <2>5 DEF ReapLock, Goto
  <2>6. CASE held' = held /\ (Finish(w) \/ DropArtifact(w) \/ Close(w) \/ FailJob(w) \/ Discard(w)
                                \/ FailRaises(w) \/ Shutdown(w))
    <3>1. (\E p \in Steps : EndAttempt(w, p)) \/ (UNCHANGED <<cur, mayFail>> /\ \E p \in Steps : Goto(w, p))
      BY <2>6 DEF Finish, DropArtifact, Close, FailJob, Discard, FailRaises, Shutdown
    <3> QED
      BY <1>0, <1>2, <1>3, <2>6, <3>1 DEF Goto
  <2>7. CASE Crash(w) \/ ReapCommit(w)
    <3>1. held' = [held EXCEPT ![w] = {}] /\ \E p \in Steps : EndAttempt(w, p)
      BY <2>7 DEF Crash, ReapCommit
    <3> QED
      BY <1>3, <3>1
  <2>8. CASE UNCHANGED <<cur, mayFail, held>> /\ (pc' = pc \/ \E p \in Steps : Goto(w, p))
    BY <1>0, <1>2, <2>8 DEF Goto
  <2> QED
    BY <1>4, <2>1, <2>2, <2>3, <2>4, <2>5, <2>6, <2>7, <2>8 DEF WorkerNext, Advance, Finish,
       DropArtifact, Close, FailJob, Discard, FailRaises, Shutdown, CopyFiles, Publish, Boot, Renew,
       RenderFails, FinishRaises, PublishRaises, CloseRaises, Expire, DeleteExpired, SpareNamed,
       SpareProcessing, RemoveOrphans
<1>5. CASE OutsideNext \/ UNCHANGED vars
  BY <1>0, <1>2, <1>5 DEF OutsideNext, Issue, Rerender, Ask, Retry, Cancel, LeaseExpires,
     ArtifactExpires, DirAges, vars
<1> QED
  BY <1>4, <1>5 DEF Next

LEMMA ReportStep ==
  ASSUME TypeOK, HasAttempt, [Next]_vars
  PROVE  ReportOK' /\ BudgetsOK'
<1>0. /\ WorkersOK /\ ReportOK /\ BudgetsOK /\ Tokens \subseteq Tokens'
  BY TypeParts, RowsStep DEF TypeOK, RowsTypeOK, Tokens
<1> USE DEF ReportOK, BudgetsOK
<1>1. CASE UNCHANGED <<reportVars, budgets>>
  BY <1>0, <1>1 DEF reportVars, budgets
<1>2. ASSUME NEW w \in Workers, WorkerNext(w) PROVE ReportOK' /\ BudgetsOK'
  <2>0. cur[w].token \in Tokens
    BY <1>0 DEF WorkersOK, Attempts
  <2>1. CASE CopyFiles(w) \/ Publish(w) \/ PublishRaises(w) \/ Mark(w) \/ ReapCommit(w)
    BY <1>0, <2>0, <2>1, BoundsAssumption DEF CopyFiles, Publish, PublishRaises, Mark, ReapCommit, Drop, budgets
  <2>2. CASE \/ Crash(w) \/ Shutdown(w) \/ FinishRaises(w) \/ MarkRaises(w) \/ CloseRaises(w) \/ FailRaises(w)
    BY <1>0, <2>2, BoundsAssumption DEF Crash, Shutdown, FinishRaises, MarkRaises, CloseRaises, FailRaises,
       Fault, Drop, reportVars
  <2> QED
    BY <1>1, <1>2, <2>1, <2>2 DEF WorkerNext, Advance, Load, Write, Finish, DropArtifact, Judge, Close,
       FailJob, Discard, Boot, Expire, DeleteExpired, SpareNamed, SpareProcessing, RemoveOrphans,
       Claim, ReapLock, Renew, RenderFails
<1>3. ASSUME NEW j \in Jobs, Issue(j) \/ Rerender(j) PROVE ReportOK' /\ BudgetsOK'
  BY <1>0, <1>3 DEF Issue, Rerender, budgets
<1>4. ASSUME NEW j \in Jobs, Retry(j) PROVE ReportOK' /\ BudgetsOK'
  BY <1>0, <1>4, BoundsAssumption DEF Retry, reportVars
<1>5. CASE OutsideNext
  BY <1>1, <1>3, <1>4, <1>5 DEF OutsideNext, Ask, Cancel, LeaseExpires, ArtifactExpires, DirAges
<1> QED
  BY <1>1, <1>2, <1>5 DEF Next, vars

\* Every action keeps every variable's type.
LEMMA TypeStep ==
  ASSUME TypeOK, HasAttempt, [Next]_vars
  PROVE  TypeOK'
<1>1. RowsTypeOK' /\ WorkersOK' /\ FilesOK' /\ ReportOK' /\ BudgetsOK'
  BY RowsStep, WorkersStep, FilesStep, ReportStep
<1> QED
  BY <1>1 DEF TypeOK, WorkersOK, Attempts, FilesOK, ReportOK, BudgetsOK

---------------------------------------------------------------------------
(* What one step may do to one row, and to another worker.                 *)

Unmoved(j) == /\ status'[j] = status[j] /\ started'[j] = started[j]
              /\ result'[j] = result[j] /\ reaps'[j] = reaps[j]
Submitted(j) == Issue(j) \/ Rerender(j) \/ Ask(j)
Claims == \E w \in Workers, j \in Jobs : Claim(w, j)
Outdated(j) == j \in Superseded /\ Claims /\ status'[j] = "cancelled"
               /\ UNCHANGED <<started[j], result[j], reaps[j]>>

\* w's attempt writes the row of its job, which no reaper has locked.
Writes(w, j) == Job(w) = j /\ Mine(w) /\ Free(j) /\ reaps'[j] = reaps[j]

GivenBack(j) == status'[j] = "queued" /\ started'[j] = 0 /\ result'[j] = result[j]
Stopped(j) == status'[j] = "failed" /\ UNCHANGED <<started[j], result[j]>>
Completed(j) == status'[j] = "completed" /\ started'[j] = started[j]

Released(j) == GivenBack(j) /\ \E w \in Workers : Writes(w, j) /\ pc[w] = "render"
Failed(j) == Stopped(j) /\ \E w \in Workers : Writes(w, j) /\ pc[w] = "failing"
Published(j) == Completed(j) /\ \E w \in Workers : Writes(w, j) /\ pc[w] = "written" /\ result'[j] = cur[w].dir
Closed(j) == Completed(j) /\ result'[j] = result[j] /\ \E w \in Workers : Writes(w, j) /\ pc[w] = "close"
Reaped(j) ==
  \E w \in Workers :
    /\ ReapCommit(w) /\ j \in held[w]
    /\ IF reaps[j] + 1 <= MaxReaps THEN GivenBack(j) ELSE Stopped(j)

RowMoves(j) == \/ Unmoved(j) \/ Submitted(j) \/ Retry(j) \/ Cancel(j)
               \/ (\E w \in Workers : Claim(w, j)) \/ Outdated(j)
               \/ Released(j) \/ Failed(j) \/ Published(j) \/ Closed(j) \/ Reaped(j)

LEMMA WorkerMoves ==
  ASSUME TypeOK, HasAttempt, NEW w \in Workers, WorkerNext(w), NEW j \in Jobs
  PROVE  RowMoves(j)
<1>0. /\ status \in [Jobs -> Statuses] /\ started \in [Jobs -> Tokens] /\ reaps \in [Jobs -> Nat]
      /\ result \in [Jobs -> 0..lastDir]
  BY DEF TypeOK, RowsTypeOK
<1>1. CASE UNCHANGED <<rowVars, result>>
  BY <1>1 DEF rowVars, RowMoves, Unmoved
<1>2. CASE ReapCommit(w)
  <2>1. CASE j \in held[w]
    <3>1. IF reaps[j] + 1 <= MaxReaps THEN GivenBack(j) ELSE Stopped(j)
      BY <1>2, <2>1 DEF ReapCommit, ReapRows, Requeued, GivenBack, Stopped
    <3> QED
      BY <1>2, <2>1, <3>1 DEF RowMoves, Reaped
  <2>2. CASE j \notin held[w]
    BY <1>2, <2>2 DEF ReapCommit, ReapRows, Requeued, RowMoves, Unmoved
  <2> QED
    BY <2>1, <2>2
<1>3. CASE \E k \in Jobs : Claim(w, k)
  <2>1. PICK k \in Jobs : Claim(w, k)
    BY <1>3
  <2>2. CASE j = k
    BY <2>1, <2>2 DEF RowMoves
  <2>3. CASE j # k /\ j \in Superseded
    BY <1>0, <2>1, <2>3 DEF Claim, ClaimRows, RowMoves, Outdated, Claims
  <2>4. CASE j # k /\ j \notin Superseded
    BY <1>0, <2>1, <2>4 DEF Claim, ClaimRows, RowMoves, Unmoved
  <2> QED
    BY <2>2, <2>3, <2>4
<1>4. CASE Renew(w)
  BY <1>0, <1>4 DEF Renew, HeartbeatRow, RowMoves, Unmoved
<1>5. ASSUME Job(w) # j, \/ Finish(w) \/ FinishRaises(w) \/ Close(w) \/ CloseRaises(w) \/ FailJob(w)
                         \/ Shutdown(w)
      PROVE  Unmoved(j)
  BY <1>0, <1>5 DEF Finish, FinishRaises, PublishArtifact, Close, CloseRaises, FailJob, Shutdown,
     CompleteRow, FailRow, ReleaseRow, BackToQueue, Unmoved, rowVars
<1>6. ASSUME Job(w) = j, \/ Finish(w) \/ FinishRaises(w) \/ Close(w) \/ CloseRaises(w) \/ FailJob(w)
                         \/ Shutdown(w)
      PROVE  RowMoves(j)
  <2>1. CASE UNCHANGED <<rowVars, result>>
    BY <1>1, <2>1
  <2>2. CASE PublishArtifact(w) /\ pc[w] = "written"
    <3>1. Writes(w, j) /\ Completed(j) /\ result'[j] = cur[w].dir
      BY <1>0, <1>6, <2>2 DEF PublishArtifact, CompleteRow, Writes, Completed, Mine
    <3> QED
      BY <2>2, <3>1 DEF RowMoves, Published
  <2>3. CASE pc[w] = "close" /\ Free(j) /\ CompleteRow(j, cur[w].token) /\ result' = result
    <3>1. Writes(w, j) /\ Completed(j)
      BY <1>0, <1>6, <2>3 DEF CompleteRow, Writes, Completed, Mine
    <3> QED
      BY <2>3, <3>1 DEF RowMoves, Closed
  <2>4. CASE pc[w] = "failing" /\ Free(j) /\ FailRow(j, cur[w].token) /\ result' = result
    <3>1. Writes(w, j) /\ Stopped(j)
      BY <1>0, <1>6, <2>4 DEF FailRow, Writes, Stopped, Mine
    <3> QED
      BY <2>4, <3>1 DEF RowMoves, Failed
  <2>5. CASE pc[w] = "render" /\ Free(j) /\ ReleaseRow(j, cur[w].token) /\ result' = result
    <3>1. Writes(w, j) /\ GivenBack(j)
      BY <1>0, <1>6, <2>5 DEF ReleaseRow, BackToQueue, Writes, GivenBack, Mine
    <3> QED
      BY <2>5, <3>1 DEF RowMoves, Released
  <2> QED
    BY <1>6, <2>1, <2>2, <2>3, <2>4, <2>5 DEF Finish, FinishRaises, Close, CloseRaises, FailJob, Shutdown
<1> QED
  BY <1>1, <1>2, <1>3, <1>4, <1>5, <1>6 DEF RowMoves, WorkerNext, Advance, Load, Write, DropArtifact,
     CopyFiles, Publish, Judge, Mark, Discard, Boot, Expire, DeleteExpired, SpareNamed, SpareProcessing,
     RemoveOrphans, ReapLock, RenderFails, PublishRaises, MarkRaises, FailRaises, Crash, jobVars

LEMMA RowStep ==
  ASSUME TypeOK, HasAttempt, [Next]_vars, NEW j \in Jobs
  PROVE  RowMoves(j)
<1>0. /\ status \in [Jobs -> Statuses] /\ started \in [Jobs -> Tokens] /\ reaps \in [Jobs -> Nat]
  BY DEF TypeOK, RowsTypeOK
<1>1. CASE UNCHANGED <<rowVars, result>>
  BY <1>1 DEF rowVars, RowMoves, Unmoved
<1>2. ASSUME NEW k \in Jobs, Issue(k) \/ Rerender(k) \/ Ask(k) \/ Retry(k) \/ Cancel(k) \/ LeaseExpires(k)
      PROVE  RowMoves(j)
  <2>1. CASE k = j /\ ~LeaseExpires(k)
    BY <1>2, <2>1 DEF RowMoves, Submitted
  <2>2. CASE k # j \/ LeaseExpires(k)
    BY <1>0, <1>2, <2>2 DEF Issue, Rerender, Ask, Retry, Cancel, LeaseExpires, InsertRow, RetryRow,
       BackToQueue, CancelRow, LeaseAges, RowMoves, Unmoved
  <2> QED
    BY <2>1, <2>2
<1>3. CASE OutsideNext
  BY <1>1, <1>2, <1>3 DEF OutsideNext, ArtifactExpires, DirAges, jobVars
<1> QED
  BY <1>1, <1>3, WorkerMoves DEF Next, vars, jobVars

\* A worker's step moves no other worker.
LEMMA OthersStay ==
  ASSUME TypeOK, NEW v \in Workers, WorkerNext(v), NEW w \in Workers, w # v
  PROVE  UNCHANGED <<pc[w], cur[w], mayFail[w], held[w], expired[w], orphans[w]>>
<1>1. /\ DOMAIN pc = Workers /\ DOMAIN cur = Workers /\ DOMAIN mayFail = Workers /\ DOMAIN held = Workers
      /\ DOMAIN expired = Workers /\ DOMAIN orphans = Workers
      /\ pc = [x \in Workers |-> pc[x]] /\ cur = [x \in Workers |-> cur[x]]
      /\ mayFail = [x \in Workers |-> mayFail[x]] /\ held = [x \in Workers |-> held[x]]
      /\ expired = [x \in Workers |-> expired[x]] /\ orphans = [x \in Workers |-> orphans[x]]
  BY DEF TypeOK
<1> QED
  BY <1>1 DEF WorkerNext, Advance, Load, Write, Finish, FinishRaises, DropArtifact, CopyFiles, Publish,
     PublishRaises, Judge, Mark, MarkRaises, Close, CloseRaises, FailJob, FailRaises, Discard, Shutdown,
     Crash, Boot, Claim, ReapLock, ReapCommit, Renew, RenderFails, Expire, DeleteExpired, SpareNamed,
     SpareProcessing, RemoveOrphans, EndAttempt, Goto, sweepVars

\* Nobody but a worker moves one.
LEMMA OutsideStays ==
  OutsideNext \/ UNCHANGED vars => UNCHANGED <<pc, cur, mayFail, held, expired, orphans>>
BY DEF OutsideNext, Issue, Rerender, Ask, Retry, Cancel, LeaseExpires, ArtifactExpires, DirAges, vars, sweepVars

\* A worker's attempt keeps its job and its token until it ends.
LEMMA SameAttempt ==
  ASSUME TypeOK, NEW w \in Workers, WorkerNext(w), pc'[w] \in InAttempt
  PROVE  \/ \E j \in Jobs : Claim(w, j)
         \/ pc[w] \in InAttempt /\ Job(w)' = Job(w) /\ cur'[w].token = cur[w].token
<1>0. /\ pc \in [Workers -> Steps] /\ cur \in [Workers -> Attempts]
  BY TypeParts DEF WorkersOK
<1>1. CASE Load(w) \/ Write(w)
  BY <1>0, <1>1 DEF Load, Write, EndAttempt, Goto, Job, Attempts
<1>2. CASE UNCHANGED cur /\ pc[w] \in InAttempt
  BY <1>2 DEF Job
<1>3. CASE \E p \in Steps \ InAttempt : EndAttempt(w, p) \/ Goto(w, p)
  BY <1>0, <1>3 DEF EndAttempt, Goto
<1>4. CASE UNCHANGED pc /\ UNCHANGED cur
  BY <1>4 DEF Job
<1> QED
  BY <1>1, <1>2, <1>3, <1>4 DEF WorkerNext, Advance, Finish, FinishRaises, DropArtifact, CopyFiles,
     Publish, PublishRaises, Judge, Mark, MarkRaises, Close, CloseRaises, FailJob, FailRaises, Discard,
     Shutdown, Crash, Boot, ReapLock, ReapCommit, Renew, RenderFails, Expire, DeleteExpired, SpareNamed,
     SpareProcessing, RemoveOrphans

LEMMA HasAttemptStep ==
  ASSUME TypeOK, HasAttempt, [Next]_vars
  PROVE  HasAttempt'
<1> SUFFICES ASSUME NEW w \in Workers, pc'[w] \in InAttempt PROVE Job(w)' \in Jobs /\ cur'[w].token # 0
  BY DEF HasAttempt
<1>0. clock \in Nat /\ cur \in [Workers -> Attempts] /\ NoAttempt \in [job : Nat, token : Nat, claim : Nat, dir : Nat]
  BY TypeParts DEF WorkersOK, TypeOK, RowsTypeOK, NoAttempt
<1>1. ASSUME NEW j \in Jobs, Claim(w, j) PROVE Job(w)' \in Jobs /\ cur'[w].token # 0
  BY <1>0, <1>1 DEF Claim, Job
<1>2. CASE WorkerNext(w)
  BY <1>1, <1>2, SameAttempt DEF HasAttempt
<1>3. ASSUME NEW v \in Workers, v # w, WorkerNext(v) PROVE Job(w)' \in Jobs /\ cur'[w].token # 0
  BY <1>3, OthersStay DEF HasAttempt, Job
<1>4. CASE OutsideNext \/ UNCHANGED vars
  BY <1>4, OutsideStays DEF HasAttempt, Job
<1> QED
  BY <1>2, <1>3, <1>4 DEF Next

\* A worker holds rows only while it reaps, and lets all of them go at once.
LEMMA HoldsWhileReaping ==
  ASSUME TypeOK, HeldOK, NEW w \in Workers, WorkerNext(w)
  PROVE  ReapLock(w) \/ held'[w] = {}  \/ (held'[w] = held[w] /\ pc'[w] = pc[w])
<1>0. /\ pc \in [Workers -> Steps] /\ held \in [Workers -> SUBSET Jobs]
  BY DEF TypeOK
<1>1. CASE Crash(w) \/ ReapCommit(w)
  BY <1>0, <1>1 DEF Crash, ReapCommit
<1>2. CASE pc[w] # "reap" /\ held' = held
  BY <1>0, <1>2 DEF HeldOK
<1>3. CASE UNCHANGED <<pc, held>>
  BY <1>3
<1> QED
  BY <1>1, <1>2, <1>3 DEF WorkerNext, Advance, Load, Write, Finish, FinishRaises, DropArtifact, CopyFiles,
     Publish, PublishRaises, Judge, Mark, MarkRaises, Close, CloseRaises, FailJob, FailRaises, Discard,
     Shutdown, Boot, Claim, Renew, RenderFails, Expire, DeleteExpired, SpareNamed, SpareProcessing, RemoveOrphans

\* A row that is held moves by its holder's commit only.
LEMMA HeldStays ==
  ASSUME TypeOK, HasAttempt, HeldOK, [Next]_vars, NEW w \in Workers, NEW j \in held[w], j \in held'[w]
  PROVE  Unmoved(j)
<1>0. j \in Jobs /\ status[j] = "processing" /\ held \in [Workers -> SUBSET Jobs]
  BY DEF HeldOK, TypeOK
<1>1. ~Free(j)
  BY DEF Free
<1>2. ~Reaped(j)
  BY <1>0 DEF Reaped, ReapCommit, HeldOK
<1>3. ~Submitted(j) /\ ~Retry(j) /\ ~Cancel(j) /\ ~Outdated(j) /\ ~\E v \in Workers : Claim(v, j)
  BY <1>0 DEF Submitted, Issue, Rerender, Ask, InsertRow, Retry, RetryRow, Cancel, CancelRow, Outdated,
     Superseded, Claim, ClaimRows
<1> QED
  BY <1>0, <1>1, <1>2, <1>3, RowStep DEF RowMoves, Released, Failed, Published, Closed, Writes

LEMMA HeldStep ==
  ASSUME TypeOK, HasAttempt, HeldOK, [Next]_vars
  PROVE  HeldOK'
<1>0. /\ pc \in [Workers -> Steps] /\ held \in [Workers -> SUBSET Jobs] /\ status \in [Jobs -> Statuses]
  BY DEF TypeOK, RowsTypeOK
<1>1. ASSUME NEW w \in Workers, ReapLock(w) PROVE HeldOK'
  BY <1>0, <1>1 DEF ReapLock, Goto, HeldOK, Free, Stale, jobVars, rowVars
<1>2. ASSUME \A w \in Workers : held'[w] = {} \/ (held'[w] = held[w] /\ pc'[w] = pc[w])
      PROVE  HeldOK'
  BY <1>0, <1>2, HeldStays DEF HeldOK, Unmoved
<1>3. ASSUME NEW w \in Workers, WorkerNext(w), ~ReapLock(w) PROVE HeldOK'
  BY <1>2, <1>3, HoldsWhileReaping, OthersStay
<1>4. CASE OutsideNext \/ UNCHANGED vars
  BY <1>2, <1>4, OutsideStays
<1> QED
  BY <1>1, <1>3, <1>4 DEF Next

\* How a worker comes to its steps.
LEMMA ComesFrom ==
  ASSUME TypeOK, NEW w \in Workers, WorkerNext(w)
  PROVE  /\ pc'[w] = "publish" => (CopyFiles(w) /\ render # "done" /\ onDisk' = cur[w].token)
                                  \/ (Renew(w) /\ pc[w] = "publish")
         /\ pc'[w] = "mark" => Judge(w) \/ (Renew(w) /\ pc[w] = "mark")
         /\ pc'[w] = "close" => \/ Load(w) /\ Job(w) \in Issues /\ render = "done"
                                \/ CopyFiles(w) /\ render = "done"
                                \/ Publish(w)
                                \/ Renew(w) /\ pc[w] = "close"
         /\ pc'[w] = "written" => Write(w) \/ (Renew(w) /\ pc[w] = "written")
         /\ pc'[w] = "lost" => Finish(w)
         /\ pc'[w] = "failing" => \/ Mark(w) \/ MarkRaises(w) \/ FinishRaises(w) \/ CloseRaises(w)
                                  \/ RenderFails(w) /\ Job(w) \notin Issues
                                  \/ Renew(w) /\ pc[w] = "failing"
<1>0. pc \in [Workers -> Steps]
  BY DEF TypeOK
<1>1. CASE \E p \in Steps \ {"publish", "mark", "close", "written", "lost", "failing"} : EndAttempt(w, p) \/ Goto(w, p)
  BY <1>0, <1>1 DEF EndAttempt, Goto
<1>2. CASE Load(w) \/ CopyFiles(w) \/ Publish(w) \/ RenderFails(w)
  BY <1>0, <1>2 DEF Load, CopyFiles, Publish, RenderFails, EndAttempt, Goto
<1>3. CASE Write(w) \/ Judge(w) \/ Mark(w) \/ MarkRaises(w) \/ FinishRaises(w) \/ CloseRaises(w)
  BY <1>0, <1>3 DEF Write, Judge, Mark, MarkRaises, FinishRaises, CloseRaises, EndAttempt, Goto
<1>4. CASE Finish(w) \/ FailJob(w)
  BY <1>0, <1>4 DEF Finish, FailJob, EndAttempt, Goto
<1>5. CASE Renew(w)
  BY <1>5 DEF Renew
<1> QED
  BY <1>1, <1>2, <1>3, <1>4, <1>5 DEF WorkerNext, Advance, DropArtifact, PublishRaises, Close, FailRaises,
     Discard, Shutdown, Crash, Boot, Claim, ReapLock, ReapCommit, Expire, DeleteExpired, SpareNamed,
     SpareProcessing, RemoveOrphans

LEMMA LockStep ==
  ASSUME TypeOK, OneLock, [Next]_vars
  PROVE  OneLock'
<1>1. ASSUME NEW w \in Workers, WorkerNext(w) PROVE OneLock'
  <2>1. pc'[w] \in {"publish", "mark"} => pc'[w] = pc[w] \/ ~ReportLocked
    BY <1>1, ComesFrom DEF CopyFiles, Judge, Renew
  <2>2. \A v \in Workers \ {w} : pc'[v] = pc[v]
    BY <1>1, OthersStay
  <2> QED
    BY <2>1, <2>2 DEF OneLock, ReportLocked
<1>2. CASE OutsideNext \/ UNCHANGED vars
  BY <1>2, OutsideStays DEF OneLock
<1> QED
  BY <1>1, <1>2 DEF Next

LEMMA KindStep ==
  ASSUME TypeOK, HasAttempt, OfKind, [Next]_vars
  PROVE  OfKind'
<1>0. cur \in [Workers -> Attempts]
  BY TypeParts DEF WorkersOK
<1>1. ASSUME NEW w \in Workers, WorkerNext(w)
      PROVE  /\ pc'[w] \in {"written", "lost"} => Job(w)' \notin Issues
             /\ pc'[w] \in {"publish", "close"} => Job(w)' \in Issues
  <2>1. pc'[w] \in {"written", "lost", "publish", "close"} => Job(w)' = Job(w)
    BY <1>1, SameAttempt, ComesFrom DEF Claim, Renew, CopyFiles, Load, Publish, Write, Finish
  <2> QED
    BY <1>1, <2>1, ComesFrom DEF OfKind, Renew, CopyFiles, Load, Publish, Write, Finish
<1>2. CASE OutsideNext \/ UNCHANGED vars
  BY <1>2, OutsideStays DEF OfKind, Job
<1>3. ASSUME NEW v \in Workers, WorkerNext(v) PROVE OfKind'
  BY <1>1, <1>3, OthersStay DEF OfKind, Job
<1> QED
  BY <1>2, <1>3 DEF Next

LEMMA NothingStep ==
  ASSUME TypeOK, HasAttempt, NothingBefore, [Next]_vars
  PROVE  NothingBefore'
<1> SUFFICES ASSUME NEW j \in Jobs, status'[j] = "none" PROVE started'[j] = 0
  BY DEF NothingBefore
<1>0. /\ status \in [Jobs -> Statuses]
  BY DEF TypeOK, RowsTypeOK
<1> QED
  BY <1>0, RowStep DEF NothingBefore, RowMoves, Unmoved, Submitted, Issue, Rerender, Ask, InsertRow, Retry,
     RetryRow, BackToQueue, Cancel, CancelRow, Claim, ClaimRows, Outdated, Released, Failed, Published,
     Closed, Reaped, GivenBack, Stopped, Completed

\* QInv holds initially, and every step keeps it.
LEMMA InitQInv == Init => QInv
BY InitType DEF Init, QInv, HasAttempt, HeldOK, OneLock, OfKind, NothingBefore, RowsInit

LEMMA StepQInv == QInv /\ [Next]_vars => QInv'
BY TypeStep, HasAttemptStep, HeldStep, LockStep, KindStep, NothingStep DEF QInv

\* The variables keep their types, a claimed row has its attempt's token, rows
\* are locked by one reaper and the report by one worker.
THEOREM QueueInvariant == Spec => []QInv
BY InitQInv, StepQInv, PTL DEF Spec

\* Every variable of the report queue keeps its type, whatever workers crash,
\* sweep, retry or answer late.
THEOREM TypeCorrect == Spec => []TypeOK
<1>1. QInv => TypeOK
  BY DEF QInv
<1> QED
  BY <1>1, QueueInvariant, PTL

---------------------------------------------------------------------------
(* The report's files are the ones it recorded.                            *)

\* The worker that holds the report's lock wrote the files that are there.
FilesWritten == \A w \in Workers : pc[w] = "publish" => onDisk = cur[w].token

\* Who writes the report's row and its files.
LEMMA ReportWriters ==
  ASSUME [Next]_vars
  PROVE  \/ UNCHANGED reportVars
         \/ \E w \in Workers : CopyFiles(w) \/ Publish(w) \/ PublishRaises(w) \/ Mark(w) \/ ReapCommit(w)
         \/ \E j \in Jobs : Issue(j) \/ Rerender(j)
<1>1. ASSUME NEW w \in Workers, WorkerNext(w)
      PROVE  \/ UNCHANGED reportVars
             \/ CopyFiles(w) \/ Publish(w) \/ PublishRaises(w) \/ Mark(w) \/ ReapCommit(w)
  BY <1>1 DEF WorkerNext, Advance, Load, Write, Finish, FinishRaises, DropArtifact, Judge, MarkRaises,
     Close, CloseRaises, FailJob, FailRaises, Discard, Shutdown, Crash, Boot, Claim, ReapLock, Renew,
     RenderFails, Expire, DeleteExpired, SpareNamed, SpareProcessing, RemoveOrphans
<1>2. OutsideNext \/ UNCHANGED vars => UNCHANGED reportVars \/ \E j \in Jobs : Issue(j) \/ Rerender(j)
  BY DEF OutsideNext, Ask, Retry, Cancel, LeaseExpires, ArtifactExpires, DirAges, vars
<1> QED
  BY <1>1, <1>2 DEF Next

LEMMA FilesWrittenStep ==
  ASSUME QInv, FilesWritten, [Next]_vars
  PROVE  FilesWritten'
<1> SUFFICES ASSUME NEW w \in Workers, pc'[w] = "publish" PROVE onDisk' = cur'[w].token
  BY DEF FilesWritten
<1> USE DEF QInv
<1>1. CASE WorkerNext(w)
  <2>1. CASE CopyFiles(w)
    BY <1>1, <2>1, ComesFrom DEF CopyFiles
  <2>2. CASE Renew(w) /\ pc[w] = "publish"
    BY <2>2 DEF FilesWritten, Renew, reportVars
  <2> QED
    BY <1>1, <2>1, <2>2, ComesFrom
<1>2. ASSUME pc[w] = "publish", cur'[w] = cur[w], ~CopyFiles(w) PROVE onDisk' = cur'[w].token
  <2>1. ReportLocked
    BY <1>2 DEF ReportLocked
  <2>2. onDisk' = onDisk
    BY <2>1, ReportWriters DEF CopyFiles, Publish, PublishRaises, Mark, ReapCommit, Issue, Rerender, reportVars
  <2> QED
    BY <1>2, <2>2 DEF FilesWritten
<1>3. ASSUME NEW v \in Workers, v # w, WorkerNext(v) PROVE onDisk' = cur'[w].token
  <2>1. pc[w] = "publish" /\ cur'[w] = cur[w]
    BY <1>3, OthersStay
  <2> QED
    BY <1>2, <2>1 DEF CopyFiles
<1>4. CASE OutsideNext \/ UNCHANGED vars
  BY <1>2, <1>4, OutsideStays DEF CopyFiles
<1> QED
  BY <1>1, <1>3, <1>4 DEF Next

LEMMA PublishedStep ==
  ASSUME QInv, FilesWritten, PublishedFilesMatch, [Next]_vars
  PROVE  PublishedFilesMatch'
<1> USE DEF PublishedFilesMatch
<1>1. CASE UNCHANGED reportVars
  BY <1>1 DEF reportVars
<1>2. ASSUME NEW w \in Workers, Publish(w) \/ PublishRaises(w) PROVE PublishedFilesMatch'
  <2>1. pc[w] = "publish" /\ onDisk' = onDisk
    BY <1>2 DEF Publish, PublishRaises
  <2>2. onDisk = cur[w].token /\ cur[w].token # 0
    BY <2>1 DEF FilesWritten, QInv, HasAttempt
  <2> QED
    BY <1>2, <2>1, <2>2 DEF Publish, PublishRaises
<1>3. ASSUME NEW w \in Workers, CopyFiles(w) \/ Mark(w) \/ ReapCommit(w) PROVE PublishedFilesMatch'
  BY <1>3 DEF CopyFiles, Mark, ReapCommit
<1>4. ASSUME NEW j \in Jobs, Issue(j) \/ Rerender(j) PROVE PublishedFilesMatch'
  BY <1>4 DEF Issue, Rerender
<1> QED
  BY <1>1, <1>2, <1>3, <1>4, ReportWriters

\* A report that says its files are rendered has the files on disk whose hashes
\* it recorded, whichever attempts crashed, were reaped or came back late.
THEOREM FilesMatch == Spec => []PublishedFilesMatch
<1>1. Init => FilesWritten /\ PublishedFilesMatch
  BY DEF Init, FilesWritten, PublishedFilesMatch
<1>2. QInv /\ FilesWritten /\ PublishedFilesMatch /\ [Next]_vars => FilesWritten' /\ PublishedFilesMatch'
  BY FilesWrittenStep, PublishedStep
<1> QED
  BY <1>1, <1>2, QueueInvariant, PTL DEF Spec

---------------------------------------------------------------------------
(* A pending report has a render on its way.                               *)

\* What the render's handler asks with is the token of its own claim, as long
\* as the row has that.
ClaimRead ==
  \A w \in Workers : pc[w] \in InAttempt \ {"claimed"} /\ Mine(w) => cur[w].claim = cur[w].token

\* Having asked, it marks the report as failed or has seen it published.
MarkJudged == \A w \in Workers : pc[w] = "mark" /\ Mine(w) => mayFail[w] \/ render = "done"

\* A live job that nobody is about to end without marking the report.
Secure(j) ==
  /\ status[j] \in {"queued", "processing"}
  /\ \A w \in Workers :
       /\ pc[w] \in {"failing", "close"} /\ Job(w) = j => ~Mine(w)
       /\ j \in held[w] /\ reaps[j] + 1 > MaxReaps => mayFail[w]

Backed == render = "pending" => \E j \in Issues : Secure(j)

\* A row that is processing under a token handed out before has not moved.
LEMMA OwnedBefore ==
  ASSUME TypeOK, HasAttempt, [Next]_vars, NEW j \in Jobs, status'[j] = "processing", started'[j] \in Tokens
  PROVE  Unmoved(j)
<1>0. /\ started \in [Jobs -> Tokens] /\ clock \in Nat /\ status \in [Jobs -> Statuses]
  BY DEF TypeOK, RowsTypeOK
<1>1. ASSUME NEW w \in Workers, Claim(w, j) PROVE FALSE
  BY <1>0, <1>1 DEF Claim, ClaimRows, Tokens
<1>2. ~Reaped(j)
  BY DEF Reaped, GivenBack, Stopped
<1> QED
  BY <1>0, <1>1, <1>2, RowStep DEF RowMoves, Submitted, Issue, Rerender, Ask, InsertRow, Retry, RetryRow,
     BackToQueue, Cancel, CancelRow, Outdated, Released, Failed, Published, Closed, GivenBack, Stopped, Completed

\* An attempt never comes to own its row again.
LEMMA StillMine ==
  ASSUME TypeOK, HasAttempt, [Next]_vars, NEW w \in Workers,
         Job(w)' = Job(w), cur'[w].token = cur[w].token, Mine(w)'
  PROVE  Mine(w) /\ Unmoved(Job(w))
<1>1. Job(w) \in Jobs /\ status'[Job(w)] = "processing" /\ started'[Job(w)] = cur[w].token
  BY DEF Mine, Owns
<1>2. cur[w].token \in Tokens
  BY TypeParts DEF WorkersOK, Attempts
<1>3. Unmoved(Job(w))
  BY <1>1, <1>2, OwnedBefore
<1> QED
  BY <1>1, <1>3 DEF Mine, Owns, Unmoved

\* After it was loaded, an attempt keeps the token it read.
LEMMA ClaimKept ==
  ASSUME TypeOK, NEW w \in Workers, WorkerNext(w), pc'[w] \in InAttempt \ {"claimed"}
  PROVE  \/ Load(w) /\ cur'[w].claim = started[Job(w)]
         \/ pc[w] \in InAttempt \ {"claimed"} /\ cur'[w].claim = cur[w].claim
<1>0. /\ pc \in [Workers -> Steps] /\ cur \in [Workers -> Attempts]
  BY TypeParts DEF WorkersOK
<1>1. CASE Load(w) \/ Write(w)
  BY <1>0, <1>1 DEF Load, Write, EndAttempt, Goto, Attempts
<1>2. CASE UNCHANGED cur /\ pc[w] \in InAttempt \ {"claimed"}
  BY <1>2
<1>3. CASE \E p \in (Steps \ InAttempt) \cup {"claimed"} : EndAttempt(w, p) \/ Goto(w, p)
  BY <1>0, <1>3 DEF EndAttempt, Goto
<1>4. CASE Renew(w)
  BY <1>4 DEF Renew
<1> QED
  BY <1>1, <1>2, <1>3, <1>4 DEF WorkerNext, Advance, Finish, FinishRaises, DropArtifact, CopyFiles,
     Publish, PublishRaises, Judge, Mark, MarkRaises, Close, CloseRaises, FailJob, FailRaises, Discard,
     Shutdown, Crash, Boot, Claim, ReapLock, ReapCommit, RenderFails, Expire, DeleteExpired, SpareNamed,
     SpareProcessing, RemoveOrphans

\* An attempt past its claim was there before, and owned its row if it does.
LEMMA MineBefore ==
  ASSUME TypeOK, HasAttempt, [Next]_vars, NEW w \in Workers,
         pc'[w] \in InAttempt \ {"claimed"}, Mine(w)'
  PROVE  Job(w)' = Job(w) /\ cur'[w].token = cur[w].token /\ Mine(w) /\ Unmoved(Job(w))
<1>0. pc \in [Workers -> Steps]
  BY DEF TypeOK
<1>1. Job(w)' = Job(w) /\ cur'[w].token = cur[w].token
  <2>1. CASE WorkerNext(w)
    BY <1>0, <2>1, SameAttempt DEF Claim, Goto
  <2>2. ASSUME NEW v \in Workers, v # w, WorkerNext(v) PROVE Job(w)' = Job(w) /\ cur'[w].token = cur[w].token
    BY <2>2, OthersStay DEF Job
  <2>3. CASE OutsideNext \/ UNCHANGED vars
    BY <2>3, OutsideStays DEF Job
  <2> QED
    BY <2>1, <2>2, <2>3 DEF Next
<1> QED
  BY <1>1, StillMine

LEMMA ClaimReadStep ==
  ASSUME QInv, ClaimRead, [Next]_vars
  PROVE  ClaimRead'
<1> SUFFICES ASSUME NEW w \in Workers, pc'[w] \in InAttempt \ {"claimed"}, Mine(w)'
             PROVE  cur'[w].claim = cur'[w].token
  BY DEF ClaimRead
<1> USE DEF QInv
<1>1. cur'[w].token = cur[w].token /\ Mine(w)
  BY MineBefore
<1>2. CASE WorkerNext(w)
  BY <1>1, <1>2, ClaimKept DEF ClaimRead, Mine, Owns
<1>3. ASSUME NEW v \in Workers, v # w, WorkerNext(v) PROVE cur'[w].claim = cur'[w].token
  BY <1>1, <1>3, OthersStay DEF ClaimRead
<1>4. CASE OutsideNext \/ UNCHANGED vars
  BY <1>1, <1>4, OutsideStays DEF ClaimRead
<1> QED
  BY <1>2, <1>3, <1>4 DEF Next

\* While a worker decides how to mark the report, nobody else takes it back.
LEMMA DoneMeanwhile ==
  ASSUME QInv, [Next]_vars, NEW w \in Workers, pc[w] = "mark", ~Mark(w), render = "done"
  PROVE  render' = "done"
<1>1. ReportLocked
  BY DEF ReportLocked
<1>2. ASSUME NEW v \in Workers PROVE ~Mark(v)
  BY <1>2 DEF QInv, OneLock, Mark
<1> QED
  BY <1>1, <1>2, ReportWriters DEF CopyFiles, Publish, PublishRaises, ReapCommit, Issue, Rerender, reportVars

LEMMA MarkJudgedStep ==
  ASSUME QInv, ClaimRead, MarkJudged, [Next]_vars
  PROVE  MarkJudged'
<1> SUFFICES ASSUME NEW w \in Workers, pc'[w] = "mark", Mine(w)' PROVE mayFail'[w] \/ render' = "done"
  BY DEF MarkJudged
<1>0. TypeOK /\ HasAttempt /\ mayFail \in [Workers -> BOOLEAN]
  BY DEF QInv, TypeOK
<1>1. Mine(w)
  BY <1>0, MineBefore
<1>2. ASSUME pc[w] = "mark", mayFail'[w] = mayFail[w], ~Mark(w) PROVE mayFail'[w] \/ render' = "done"
  BY <1>1, <1>2, DoneMeanwhile DEF MarkJudged
<1>3. CASE WorkerNext(w)
  <2>1. CASE Judge(w)
    <3>1. StillClaimed(w)
      BY <1>1, <2>1 DEF Judge, ClaimRead, StillClaimed, Mine
    <3> QED
      BY <1>0, <2>1, <3>1 DEF Judge, reportVars
  <2>2. CASE Renew(w) /\ pc[w] = "mark"
    BY <1>1, <2>2 DEF Renew, MarkJudged, reportVars
  <2> QED
    BY <1>0, <1>3, <2>1, <2>2, ComesFrom
<1>4. ASSUME NEW v \in Workers, v # w, WorkerNext(v) PROVE mayFail'[w] \/ render' = "done"
  <2>1. pc[w] = "mark" /\ mayFail'[w] = mayFail[w] /\ pc'[w] = pc[w]
    BY <1>0, <1>4, OthersStay
  <2>2. ~Mark(w)
    BY <1>0, <2>1 DEF Mark, Goto, TypeOK
  <2> QED
    BY <1>2, <2>1, <2>2
<1>5. CASE OutsideNext \/ UNCHANGED vars
  <2>1. pc' = pc /\ mayFail' = mayFail
    BY <1>5, OutsideStays
  <2>2. ~Mark(w)
    BY <1>0, <2>1 DEF Mark, Goto, TypeOK
  <2> QED
    BY <1>2, <2>1, <2>2
<1> QED
  BY <1>3, <1>4, <1>5 DEF Next

\* Without dropped statements an attempt that gives its issue's job up has marked
\* the report, or is not its job's any more.
LEMMA GivesUpMarked ==
  ASSUME QInv, MarkJudged, [Next]_vars, MaxDrops = 0, render = "pending", render' = "pending",
         NEW w \in Workers, Job(w) \in Issues, pc[w] \notin {"failing", "close"},
         WorkerNext(w), pc'[w] \in {"failing", "close"}
  PROVE  ~Mine(w)
<1>0. TypeOK /\ ~Drop /\ pc \in [Workers -> Steps]
  BY DEF QInv, TypeOK, Drop
<1>1. CASE Mark(w)
  BY <1>1 DEF Mark, MarkJudged
<1>2. ~MarkRaises(w) /\ ~FinishRaises(w) /\ ~CloseRaises(w)
  BY <1>0 DEF MarkRaises, FinishRaises, CloseRaises
<1>3. ~Publish(w)
  BY DEF Publish
<1> QED
  BY <1>0, <1>1, <1>2, <1>3, ComesFrom

\* What made a job secure still does after a step that leaves it live and the
\* report pending.
LEMMA StaysSecure ==
  ASSUME QInv, MarkJudged, [Next]_vars, MaxDrops = 0, render = "pending", render' = "pending",
         NEW j \in Issues, Secure(j), status'[j] \in {"queued", "processing"}
  PROVE  Secure(j)'
<1>0. TypeOK /\ HasAttempt /\ HeldOK /\ j \in Jobs /\ j \notin Downloads /\ j \notin Previews
  BY KindsAssumption DEF QInv, Downloads
<1>1. ASSUME NEW w \in Workers, pc'[w] \in {"failing", "close"}, Job(w)' = j PROVE ~Mine(w)'
  <2> SUFFICES ASSUME Mine(w)' PROVE FALSE
    OBVIOUS
  <2>1. Job(w) = j /\ Mine(w)
    BY <1>0, <1>1, MineBefore
  <2>2. pc[w] \notin {"failing", "close"}
    BY <2>1 DEF Secure
  <2>3. ~WorkerNext(w)
    BY <1>1, <2>1, <2>2, GivesUpMarked
  <2>4. ASSUME NEW v \in Workers, v # w, WorkerNext(v) PROVE FALSE
    BY <1>0, <1>1, <2>2, <2>4, OthersStay
  <2> QED
    BY <1>1, <2>2, <2>3, <2>4, OutsideStays DEF Next
<1>2. ASSUME NEW w \in Workers, j \in held'[w], reaps'[j] + 1 > MaxReaps PROVE mayFail'[w]
  <2>1. CASE ReapLock(w)
    <3> DEFINE mine == {k \in Jobs : Stale(k) /\ Free(k)}
    <3>1. reaps' = reaps /\ j \in mine /\ reaps[j] \in Nat
      BY <1>0, <1>2, <2>1 DEF ReapLock, jobVars, rowVars, TypeOK, RowsTypeOK
    <3>2. j \in (mine \ Requeued(mine)) \cap Issues
      BY <1>2, <3>1, ReapsAssumption DEF Requeued
    <3>3. mayFail'[w] = (render = "pending" /\ (mine \ Requeued(mine)) \cap Issues # {})
      BY <1>0, <2>1 DEF ReapLock, TypeOK
    <3> QED
      BY <3>2, <3>3
  <2>2. CASE WorkerNext(w) /\ ~ReapLock(w)
    <3>1. held'[w] = held[w] /\ pc'[w] = pc[w]
      BY <1>0, <1>2, <2>2, HoldsWhileReaping
    <3>2. pc[w] = "reap" /\ pc'[w] = "reap"
      BY <1>2, <3>1, <1>0 DEF HeldOK
    <3>3. FALSE
      BY <1>0, <2>2, <3>2 DEF WorkerNext, Advance, Load, Write, Finish, FinishRaises, DropArtifact, CopyFiles,
         Publish, PublishRaises, Judge, Mark, MarkRaises, Close, CloseRaises, FailJob, FailRaises, Discard,
         Shutdown, Boot, Claim, Renew, RenderFails, Expire, DeleteExpired, SpareNamed, SpareProcessing,
         RemoveOrphans, Crash, ReapCommit, EndAttempt, Goto, TypeOK
    <3> QED
      BY <3>3
  <2>3. ASSUME held'[w] = held[w], mayFail'[w] = mayFail[w] PROVE mayFail'[w]
    <3>1. Unmoved(j)
      BY <1>0, <1>2, <2>3, HeldStays
    <3> QED
      BY <1>2, <2>3, <3>1 DEF Secure, Unmoved
  <2>4. ASSUME NEW v \in Workers, v # w, WorkerNext(v) PROVE mayFail'[w]
    BY <1>0, <2>3, <2>4, OthersStay
  <2> QED
    BY <2>1, <2>2, <2>3, <2>4, OutsideStays DEF Next
<1> QED
  BY <1>1, <1>2 DEF Secure

LEMMA StaysLive ==
  ASSUME QInv, [Next]_vars, render = "pending", render' = "pending", NEW j \in Issues, Secure(j)
  PROVE  status'[j] \in {"queued", "processing"}
<1>0. TypeOK /\ HasAttempt /\ j \in Jobs /\ j \notin Downloads /\ j \notin Previews
      /\ status \in [Jobs -> Statuses]
  BY KindsAssumption DEF QInv, Downloads, TypeOK, RowsTypeOK
<1>1. CASE Reaped(j)
  <2>1. PICK w \in Workers : /\ ReapCommit(w) /\ j \in held[w]
                             /\ IF reaps[j] + 1 <= MaxReaps THEN GivenBack(j) ELSE Stopped(j)
    BY <1>1 DEF Reaped
  <2>2. ~mayFail[w]
    BY <2>1 DEF ReapCommit
  <2>3. reaps[j] \in Nat
    BY <1>0 DEF TypeOK, RowsTypeOK
  <2> QED
    BY <2>1, <2>2, <2>3, ReapsAssumption DEF Secure, GivenBack
<1>2. ~Published(j) /\ ~Closed(j) /\ ~Failed(j)
  BY DEF Published, Closed, Failed, Writes, Secure, QInv, OfKind
<1> QED
  BY <1>0, <1>1, <1>2, RowStep DEF RowMoves, Unmoved, Secure, Submitted, Issue, Rerender, Ask, InsertRow,
     Retry, Cancel, Claim, ClaimRows, Outdated, Superseded, Released, GivenBack

\* A request that makes the report pending brings a job nobody has touched.
LEMMA NewIsSecure ==
  ASSUME QInv, [Next]_vars, NEW j \in Jobs, Issue(j) \/ Rerender(j)
  PROVE  j \in Issues /\ Secure(j)'
<1>0. TypeOK /\ HeldOK /\ status \in [Jobs -> Statuses]
  BY DEF QInv, TypeOK, RowsTypeOK
<1>1. /\ j \in Issues /\ status[j] = "none" /\ status'[j] = "queued"
      /\ UNCHANGED <<pc, cur, held, mayFail>>
  BY <1>0 DEF Issue, Rerender, InsertRow
<1>2. \A w \in Workers : j \notin held[w]
  BY <1>0, <1>1 DEF HeldOK
<1> QED
  BY <1>1, <1>2 DEF Secure, Mine, Owns

LEMMA BackedStep ==
  ASSUME QInv, MarkJudged, Backed, MaxDrops = 0, [Next]_vars
  PROVE  Backed'
<1> SUFFICES ASSUME render' = "pending" PROVE \E j \in Issues : Secure(j)'
  BY DEF Backed
<1>1. CASE render = "pending"
  <2>1. PICK j \in Issues : Secure(j)
    BY <1>1 DEF Backed
  <2> QED
    BY <1>1, <2>1, StaysLive, StaysSecure
<1>2. CASE render # "pending"
  <2>1. \E j \in Jobs : Issue(j) \/ Rerender(j)
    BY <1>2, ReportWriters DEF reportVars, CopyFiles, Publish, PublishRaises, Mark, ReapCommit
  <2> QED
    BY <2>1, NewIsSecure
<1> QED
  BY <1>1, <1>2

\* As long as no statement is dropped, a pending report has a render on its way,
\* through crashes, restarts, stale attempts and reaps.
THEOREM PendingCovered == ASSUME MaxDrops = 0 PROVE Spec => []PendingHasJob
<1>1. Init => ClaimRead /\ MarkJudged /\ Backed
  BY DEF Init, ClaimRead, MarkJudged, Backed
<1>2. QInv /\ ClaimRead /\ MarkJudged /\ Backed /\ [Next]_vars => ClaimRead' /\ MarkJudged' /\ Backed'
  BY ClaimReadStep, MarkJudgedStep, BackedStep
<1>3. Backed => PendingHasJob
  BY DEF Backed, Secure, PendingHasJob, LiveIssueJob
<1> QED
  BY <1>1, <1>2, <1>3, QueueInvariant, PTL DEF Spec

---------------------------------------------------------------------------
(* The newest preview runs.                                                *)

\* There are rows up to some id only, so that the queued previews have a newest.
RowsEnd == \E n \in Nat : \A j \in Jobs : status[j] # "none" => j <= n

LEMMA NewestOf ==
  ASSUME NEW T \in SUBSET Nat, T # {}, NEW n \in Nat, \A x \in T : x <= n
  PROVE  \E x \in T : \A y \in T : y <= x
<1> DEFINE Below == {m \in Nat : \E x \in T : m = n - x}
<1>1. Below \subseteq Nat /\ Below # {}
  <2>1. PICK x \in T : TRUE
    OBVIOUS
  <2>2. n - x \in Below
    BY <2>1
  <2> QED
    BY <2>2
<1>2. PICK m \in Below : \A l \in Below : ~(<<l, m>> \in OpToRel(<, Nat))
  BY <1>1, NatLessThanWellFounded, WFMin
<1>3. PICK x \in T : m = n - x
  OBVIOUS
<1>4. ASSUME NEW y \in T PROVE y <= x
  <2>1. n - y \in Below
    OBVIOUS
  <2>2. ~(n - y < m)
    BY <1>1, <1>2, <2>1 DEF OpToRel
  <2> QED
    BY <1>3, <2>2
<1> QED
  BY <1>4

LEMMA RowsEndStep ==
  ASSUME QInv, RowsEnd, [Next]_vars
  PROVE  RowsEnd'
<1>0. TypeOK /\ HasAttempt /\ status \in [Jobs -> Statuses] /\ Jobs \subseteq Nat
  BY JobsAssumption DEF QInv, TypeOK, RowsTypeOK
<1>1. PICK n \in Nat : \A j \in Jobs : status[j] # "none" => j <= n
  BY DEF RowsEnd
<1>2. ASSUME NEW j \in Jobs, status[j] = "none", status'[j] # "none" PROVE Submitted(j)
  BY <1>0, <1>2, RowStep DEF RowMoves, Unmoved, Retry, RetryRow, Cancel, CancelRow, Claim, ClaimRows,
     Outdated, Superseded, Released, Failed, Published, Closed, Writes, Mine, Owns, Reaped, QInv, HeldOK
<1>3. CASE \A j \in Jobs : ~Submitted(j)
  BY <1>1, <1>2, <1>3 DEF RowsEnd
<1>4. ASSUME NEW k \in Jobs, Submitted(k) PROVE RowsEnd'
  <2>1. \A j \in Jobs \ {k} : status'[j] = status[j]
    BY <1>0, <1>4 DEF Submitted, Issue, Rerender, Ask, InsertRow
  <2>2. PICK m \in Nat : n <= m /\ k <= m
    BY <1>0
  <2>3. \A j \in Jobs : status'[j] # "none" => j <= m
    BY <1>0, <1>1, <2>1, <2>2
  <2> QED
    BY <2>3 DEF RowsEnd
<1> QED
  BY <1>3, <1>4

\* Of the queued previews one is not superseded by the others.
LEMMA NewestIsKept ==
  ASSUME QInv, RowsEnd, NEW j \in Previews, status[j] = "queued"
  PROVE  \E k \in Previews : k >= j /\ status[k] = "queued" /\ k \notin Superseded
<1> DEFINE T == {k \in Previews : status[k] = "queued"}
<1>1. T \in SUBSET Nat /\ j \in T /\ T \subseteq Jobs
  BY JobsAssumption, KindsAssumption
<1>2. PICK n \in Nat : \A k \in T : k <= n
  BY <1>1 DEF RowsEnd
<1>3. PICK k \in T : \A l \in T : l <= k
  BY <1>1, <1>2, NewestOf
<1>4. ASSUME NEW l \in Previews, l > k, status[l] = "queued" PROVE FALSE
  BY <1>1, <1>3, <1>4
<1> QED
  BY <1>1, <1>3, <1>4 DEF Superseded

LEMMA NewestStep ==
  ASSUME QInv, RowsEnd, NewestPreviewRuns, [Next]_vars
  PROVE  NewestPreviewRuns'
<1> SUFFICES ASSUME NEW j \in Previews, status'[j] = "cancelled"
             PROVE  \E k \in Previews : k > j /\ status'[k] \notin {"none", "cancelled"}
  BY DEF NewestPreviewRuns
<1>0. /\ TypeOK /\ HasAttempt /\ status \in [Jobs -> Statuses] /\ Previews \subseteq Jobs /\ Previews \subseteq Nat
      /\ \A k \in Previews : k \notin Downloads /\ k \notin Issues
  BY JobsAssumption, KindsAssumption DEF QInv, TypeOK, RowsTypeOK, Downloads
<1>1. ASSUME NEW k \in Previews, status[k] \notin {"none", "cancelled"}, k \notin Superseded
      PROVE  status'[k] \notin {"none", "cancelled"}
  BY <1>0, <1>1, RowStep DEF RowMoves, Unmoved, Submitted, Issue, Rerender, Ask, InsertRow, Retry, Cancel,
     Claim, ClaimRows, Outdated, Released, Failed, Published, Closed, Reaped, GivenBack, Stopped, Completed
<1>2. \E k \in Previews : k > j /\ status[k] \notin {"none", "cancelled"}
  <2>1. CASE status[j] = "cancelled"
    BY <2>1 DEF NewestPreviewRuns
  <2>2. CASE status[j] # "cancelled"
    <3>1. j \in Superseded
      BY <1>0, <2>2, RowStep DEF RowMoves, Unmoved, Submitted, Issue, Rerender, Ask, InsertRow, Retry, Cancel,
         Claim, ClaimRows, Outdated, Released, Failed, Published, Closed, Reaped, GivenBack, Stopped, Completed
    <3> QED
      BY <3>1 DEF Superseded
  <2> QED
    BY <2>1, <2>2
<1>3. PICK k \in Previews : k > j /\ status[k] \notin {"none", "cancelled"}
  BY <1>2
<1>4. CASE k \notin Superseded
  BY <1>1, <1>3, <1>4
<1>5. CASE k \in Superseded
  <2>1. PICK l \in Previews : l >= k /\ status[l] = "queued" /\ l \notin Superseded
    BY <1>5, NewestIsKept DEF Superseded
  <2>2. l > j
    BY <1>0, <1>3, <2>1
  <2> QED
    BY <1>1, <2>1, <2>2
<1> QED
  BY <1>4, <1>5

\* A preview is only cancelled for a newer one, which is on its way or was served,
\* however many were asked for before a worker came to them.
THEOREM NewestRuns == Spec => []NewestPreviewRuns
<1>1. Init => RowsEnd /\ NewestPreviewRuns
  <2>1. 0 \in Nat
    OBVIOUS
  <2> QED
    BY <2>1, KindsAssumption DEF Init, RowsInit, RowsEnd, NewestPreviewRuns
<1>2. QInv /\ RowsEnd /\ NewestPreviewRuns /\ [Next]_vars => RowsEnd' /\ NewestPreviewRuns'
  BY RowsEndStep, NewestStep
<1> QED
  BY <1>1, <1>2, QueueInvariant, PTL DEF Spec

---------------------------------------------------------------------------
(* The queue implements QueueContract.                                     *)

\* An attempt publishes the directory it made.
WrittenByAttempt ==
  \A w \in Workers : pc[w] = "written" =>
    cur[w].dir \in 1..lastDir /\ madeBy[cur[w].dir].token = cur[w].token

\* What a completed download names was made.
CompletedShows == \A j \in Jobs \ Issues : status[j] = "completed" => result[j] \in 1..lastDir

\* A directory made stays whose it is.
LEMMA MadeStays ==
  ASSUME TypeOK, HasAttempt, [Next]_vars, NEW d \in 1..lastDir
  PROVE  madeBy'[d] = madeBy[d] /\ d \in 1..lastDir'
<1>0. lastDir \in Nat /\ d # lastDir + 1 /\ d \in Dirs
      /\ madeBy \in [Dirs -> [job : Jobs \cup {0}, token : Tokens]]
  BY BoundsAssumption DEF TypeOK, Dirs
<1>1. ASSUME NEW w \in Workers, WorkerNext(w) PROVE madeBy'[d] = madeBy[d]
  <2>1. CASE Write(w)
    BY <1>0, <2>1 DEF Write
  <2> QED
    BY <1>1, <2>1 DEF WorkerNext, Advance, Load, Finish, FinishRaises, DropArtifact, CopyFiles, Publish,
       PublishRaises, Judge, Mark, MarkRaises, Close, CloseRaises, FailJob, FailRaises, Discard, Shutdown,
       Crash, Boot, Claim, ReapLock, ReapCommit, Renew, RenderFails, Expire, DeleteExpired, SpareNamed,
       SpareProcessing, RemoveOrphans, Remove, diskVars
<1>2. OutsideNext \/ UNCHANGED vars => madeBy' = madeBy
  BY DEF OutsideNext, Issue, Rerender, Ask, Retry, Cancel, LeaseExpires, ArtifactExpires, DirAges, vars, diskVars
<1>3. d \in 1..lastDir'
  BY <1>0, FilesStep
<1> QED
  BY <1>1, <1>2, <1>3 DEF Next

LEMMA WrittenStep ==
  ASSUME QInv, WrittenByAttempt, [Next]_vars
  PROVE  WrittenByAttempt'
<1> SUFFICES ASSUME NEW w \in Workers, pc'[w] = "written"
             PROVE  cur'[w].dir \in 1..lastDir' /\ madeBy'[cur'[w].dir].token = cur'[w].token
  BY DEF WrittenByAttempt
<1>0. /\ TypeOK /\ HasAttempt /\ cur \in [Workers -> Attempts] /\ lastDir \in Nat
      /\ madeBy \in [Dirs -> [job : Jobs \cup {0}, token : Tokens]]
  BY TypeParts, BoundsAssumption DEF QInv, TypeOK, WorkersOK
<1>1. ASSUME pc[w] = "written", cur'[w] = cur[w]
      PROVE  cur'[w].dir \in 1..lastDir' /\ madeBy'[cur'[w].dir].token = cur'[w].token
  BY <1>0, <1>1, MadeStays DEF WrittenByAttempt
<1>2. CASE Write(w)
  <2>1. cur'[w].dir = lastDir + 1 /\ cur'[w].token = cur[w].token /\ lastDir' = lastDir + 1 /\ lastDir + 1 \in Dirs
    BY <1>0, <1>2, BoundsAssumption DEF Write, Attempts, Dirs
  <2>2. madeBy'[lastDir + 1].token = cur[w].token
    BY <1>0, <1>2, <2>1 DEF Write
  <2> QED
    BY <1>0, <2>1, <2>2
<1>3. CASE Renew(w) /\ pc[w] = "written"
  BY <1>1, <1>3 DEF Renew
<1>4. ASSUME NEW v \in Workers, v # w, WorkerNext(v) PROVE pc[w] = "written" /\ cur'[w] = cur[w]
  BY <1>0, <1>4, OthersStay
<1>5. CASE OutsideNext \/ UNCHANGED vars
  BY <1>1, <1>5, OutsideStays
<1> QED
  BY <1>0, <1>1, <1>2, <1>3, <1>4, <1>5, ComesFrom DEF Next

LEMMA CompletedStep ==
  ASSUME QInv, WrittenByAttempt, CompletedShows, [Next]_vars
  PROVE  CompletedShows'
<1> SUFFICES ASSUME NEW j \in Jobs \ Issues, status'[j] = "completed" PROVE result'[j] \in 1..lastDir'
  BY DEF CompletedShows
<1>0. TypeOK /\ HasAttempt /\ status \in [Jobs -> Statuses] /\ lastDir \in Nat
  BY BoundsAssumption DEF QInv, TypeOK, RowsTypeOK
<1>1. ~Closed(j)
  BY DEF Closed, Writes, QInv, OfKind
<1>2. Unmoved(j) \/ Published(j)
  BY <1>0, <1>1, RowStep DEF RowMoves, Submitted, Issue, Rerender, Ask, InsertRow, Retry, RetryRow,
     BackToQueue, Cancel, CancelRow, Claim, ClaimRows, Outdated, Released, Failed, GivenBack, Stopped, Reaped
<1>3. result'[j] \in 1..lastDir
  BY <1>2 DEF Unmoved, CompletedShows, Published, Writes, WrittenByAttempt
<1> QED
  BY <1>0, <1>3, FilesStep

CInv == QInv /\ WrittenByAttempt /\ CompletedShows

\* What a job shows stays the same unless it is completed.
LEMMA ShowsStay ==
  ASSUME CInv, [Next]_vars, NEW j \in Jobs
  PROVE  /\ status'[j] # "completed" => Shown(j)' = 0
         /\ Unmoved(j) => Shown(j)' = Shown(j)
         /\ Published(j) \/ Closed(j) => Shown(j)' = started[j]
<1>0. TypeOK /\ HasAttempt /\ QInv
  BY DEF CInv, QInv
<1>1. status'[j] # "completed" => Shown(j)' = 0
  BY DEF Shown
<1>2. ASSUME Unmoved(j) PROVE Shown(j)' = Shown(j)
  <2>1. CASE status[j] = "completed" /\ j \notin Issues
    BY <1>0, <1>2, <2>1, MadeStays DEF Unmoved, Shown, CInv, CompletedShows
  <2> QED
    BY <1>2, <2>1 DEF Unmoved, Shown
<1>3. ASSUME Published(j) PROVE Shown(j)' = started[j]
  <2>1. PICK w \in Workers : Writes(w, j) /\ pc[w] = "written" /\ result'[j] = cur[w].dir
    BY <1>3 DEF Published
  <2>2. j \notin Issues /\ started[j] = cur[w].token
    BY <1>0, <2>1 DEF QInv, OfKind, Writes, Mine, Owns
  <2>3. madeBy'[cur[w].dir].token = cur[w].token
    BY <1>0, <2>1, MadeStays DEF CInv, WrittenByAttempt
  <2> QED
    BY <1>3, <2>1, <2>2, <2>3 DEF Published, Completed, Shown
<1>4. ASSUME Closed(j) PROVE Shown(j)' = started[j]
  <2>1. j \in Issues
    BY <1>0, <1>4 DEF Closed, Writes, QInv, OfKind
  <2> QED
    BY <1>4, <2>1 DEF Closed, Completed, Shown
<1> QED
  BY <1>1, <1>2, <1>3, <1>4

Stays(j) == \/ Contract!Same(j) \/ Contract!Submit(j) \/ Contract!Start(j) \/ Contract!Publish(j)
            \/ Contract!HandBack(j) \/ Contract!Stop(j) \/ Contract!Keep(j) \/ Contract!Withdraw(j)

\* But for a claim, what happens to one row is one of the contract's moves.
LEMMA MoveOfOne ==
  ASSUME CInv, [Next]_vars, ~Claims, NEW j \in Jobs
  PROVE  Stays(j)
<1>0. /\ TypeOK /\ HasAttempt /\ QInv /\ status \in [Jobs -> Statuses] /\ started \in [Jobs -> Tokens]
  BY DEF CInv, QInv, TypeOK, RowsTypeOK
<1> USE DEF Stays, Phase, Contract!Move, Contract!Holds, Contract!Shows
<1>1. CASE Unmoved(j)
  BY <1>1, ShowsStay DEF Unmoved, Contract!Same
<1>2. CASE Submitted(j)
  <2>1. status[j] = "none" /\ status'[j] = "queued" /\ started'[j] = started[j] /\ started[j] = 0
    BY <1>0, <1>2 DEF Submitted, Issue, Rerender, Ask, InsertRow, QInv, NothingBefore
  <2> QED
    BY <2>1, ShowsStay DEF Contract!Submit
<1>3. CASE Retry(j)
  <2>1. status[j] = "failed" /\ status'[j] = "queued" /\ started'[j] = 0
    BY <1>0, <1>3 DEF Retry, RetryRow, BackToQueue
  <2>2. Shown(j) = 0
    BY <2>1 DEF Shown
  <2> QED
    BY <2>1, <2>2, ShowsStay DEF Contract!Start
<1>4. CASE Cancel(j)
  <2>1. status[j] = "queued" /\ status'[j] = "cancelled" /\ started'[j] = started[j]
    BY <1>0, <1>4 DEF Cancel, CancelRow
  <2>2. Shown(j) = 0
    BY <2>1 DEF Shown
  <2> QED
    BY <2>1, <2>2, ShowsStay DEF Contract!Stop
<1>5. status[j] = "processing" => Shown(j) = 0
  BY DEF Shown
<1>6. Released(j) \/ Failed(j) \/ Published(j) \/ Closed(j) \/ Reaped(j) => status[j] = "processing"
  BY <1>0 DEF Released, Failed, Published, Closed, Writes, Mine, Owns, Reaped, QInv, HeldOK
<1>7. CASE status[j] = "processing" /\ GivenBack(j)
  BY <1>5, <1>7, ShowsStay DEF GivenBack, Contract!HandBack
<1>8. CASE status[j] = "processing" /\ Stopped(j)
  BY <1>5, <1>8, ShowsStay DEF Stopped, Contract!Stop
<1>9. CASE status[j] = "processing" /\ (Published(j) \/ Closed(j))
  BY <1>9, ShowsStay DEF Published, Closed, Completed, Contract!Publish
<1>10. ~Outdated(j) /\ ~\E w \in Workers : Claim(w, j)
  BY DEF Outdated, Claims
<1>11. RowMoves(j)
  BY <1>0, RowStep
<1> QED
  BY <1>1, <1>2, <1>3, <1>4, <1>6, <1>7, <1>8, <1>9, <1>10, <1>11 DEF RowMoves, Released, Failed, Reaped

\* A claim is the contract's Take, and stops the previews it makes needless.
LEMMA ClaimTakes ==
  ASSUME CInv, [Next]_vars, NEW w \in Workers, NEW k \in Jobs, Claim(w, k)
  PROVE  Contract!Take(k) /\ \A j \in Jobs \ {k} : Contract!Same(j) \/ Contract!Stop(j)
<1>0. /\ status \in [Jobs -> Statuses] /\ started \in [Jobs -> Tokens] /\ clock \in Nat
      /\ result \in [Jobs -> 0..lastDir]
  BY DEF CInv, QInv, TypeOK, RowsTypeOK
<1>1. /\ status[k] = "queued" /\ status'[k] = "processing" /\ started'[k] = clock + 1 /\ clock' = clock + 1
      /\ \A j \in Jobs \ {k} :
           /\ status'[j] = (IF j \in Superseded THEN "cancelled" ELSE status[j])
           /\ UNCHANGED <<started[j], result[j], reaps[j]>>
  BY <1>0 DEF Claim, ClaimRows
<1> USE DEF Phase, Contract!Move, Contract!Holds, Contract!Shows
<1>2. Contract!Take(k)
  <2>1. Shown(k) = 0 /\ Shown(k)' = 0
    BY <1>1, ShowsStay DEF Shown
  <2> QED
    BY <1>0, <1>1, <2>1 DEF Contract!Take
<1>3. ASSUME NEW j \in Jobs \ {k} PROVE Contract!Same(j) \/ Contract!Stop(j)
  <2>1. CASE j \in Superseded
    <3>1. status[j] = "queued" /\ Shown(j) = 0
      BY <2>1 DEF Superseded, Shown
    <3> QED
      BY <1>1, <2>1, <3>1, ShowsStay DEF Contract!Stop
  <2>2. CASE j \notin Superseded
    BY <1>1, <2>2, ShowsStay DEF Unmoved, Contract!Same
  <2> QED
    BY <2>1, <2>2
<1> QED
  BY <1>2, <1>3

\* Only a claim uses a token up.
LEMMA ClockStill ==
  ASSUME [Next]_vars, ~Claims
  PROVE  clock' = clock
<1>1. ASSUME NEW w \in Workers, WorkerNext(w) PROVE clock' = clock
  BY <1>1 DEF Claims, WorkerNext, Advance, Load, Write, Finish, FinishRaises, PublishArtifact, DropArtifact,
     CopyFiles, Publish, PublishRaises, Judge, Mark, MarkRaises, Close, CloseRaises, FailJob, FailRaises,
     Discard, Shutdown, Crash, Boot, ReapLock, ReapCommit, Renew, RenderFails, Expire, DeleteExpired,
     SpareNamed, SpareProcessing, RemoveOrphans, CompleteRow, FailRow, ReleaseRow, BackToQueue, HeartbeatRow,
     ReapRows, jobVars, rowVars
<1>2. OutsideNext \/ UNCHANGED vars => clock' = clock
  BY DEF OutsideNext, Issue, Rerender, Ask, Retry, Cancel, LeaseExpires, ArtifactExpires, DirAges, InsertRow,
     RetryRow, BackToQueue, CancelRow, LeaseAges, vars, jobVars, rowVars
<1> QED
  BY <1>1, <1>2 DEF Next

LEMMA ContractStep == CInv /\ [Next]_vars => Contract!Next
<1> SUFFICES ASSUME CInv, [Next]_vars PROVE Contract!Next
  OBVIOUS
<1>1. CASE Claims
  <2>1. PICK w \in Workers, k \in Jobs : Claim(w, k)
    BY <1>1 DEF Claims
  <2> QED
    BY <2>1, ClaimTakes DEF Contract!Next
<1>2. CASE ~Claims
  BY <1>2, ClockStill, MoveOfOne DEF Contract!Next, Stays
<1> QED
  BY <1>1, <1>2

\* The report queue implements QueueContract: fresh tokens, results of the holder
\* only, finished jobs final, stopped jobs never done.
THEOREM KeepsPromises == Spec => KeepsContract
<1>1. Init => CInv /\ Contract!Init
  <2>1. Init => QInv /\ WrittenByAttempt /\ CompletedShows
    BY InitQInv DEF Init, RowsInit, WrittenByAttempt, CompletedShows
  <2>2. Init => Contract!Init
    BY DEF Init, RowsInit, Phase, Shown, Contract!Init
  <2> QED
    BY <2>1, <2>2 DEF CInv
<1>2. CInv /\ [Next]_vars => CInv'
  BY StepQInv, WrittenStep, CompletedStep DEF CInv
<1>3. CInv /\ [Next]_vars => [Contract!Next]_(Contract!vars)
  BY ContractStep
<1> QED
  BY <1>1, <1>2, <1>3, PTL DEF Spec, KeepsContract, Contract!Spec

---------------------------------------------------------------------------
(* One worker, as deployed: what was published is never touched again.  A  *)
(* second one may fail a report or sweep a directory in between.           *)

OneWorker == \A v, w \in Workers : v = w

\* A published report is done for good: nobody is about to write its files, and
\* who means to mark it failed is not looking at a report that is done.
DoneIsFinal ==
  /\ recorded # 0 => render = "done"
  /\ \A w \in Workers : /\ pc[w] = "publish" => recorded = 0
                        /\ mayFail[w] => pc[w] \in {"mark", "reap"} /\ render # "done"

\* What a worker has made up its mind to, it learnt in its last step.
LEMMA MindMade ==
  ASSUME TypeOK, NEW w \in Workers, WorkerNext(w), mayFail'[w]
  PROVE  \/ Judge(w) /\ render # "done" /\ pc'[w] = "mark"
         \/ ReapLock(w) /\ render = "pending" /\ pc'[w] = "reap"
         \/ mayFail[w] /\ (pc'[w] = pc[w] \/ pc[w] \notin {"mark", "reap"})
<1>0. /\ pc \in [Workers -> Steps] /\ mayFail \in [Workers -> BOOLEAN]
  BY DEF TypeOK
<1>1. CASE \E p \in Steps : EndAttempt(w, p)
  BY <1>0, <1>1 DEF EndAttempt
<1>2. CASE Judge(w)
  BY <1>0, <1>2 DEF Judge, Goto
<1>3. CASE ReapLock(w)
  BY <1>0, <1>3 DEF ReapLock, Goto
<1>4. CASE Mark(w) \/ MarkRaises(w)
  BY <1>0, <1>4 DEF Mark, MarkRaises
<1>5. CASE UNCHANGED mayFail /\ (UNCHANGED pc \/ pc[w] \notin {"mark", "reap"})
  BY <1>5
<1> QED
  BY <1>1, <1>2, <1>3, <1>4, <1>5 DEF WorkerNext, Advance, Load, Write, Finish, FinishRaises, DropArtifact,
     CopyFiles, Publish, PublishRaises, Close, CloseRaises, FailJob, FailRaises, Discard, Shutdown, Crash,
     Boot, Claim, ReapCommit, Renew, RenderFails, Expire, DeleteExpired, SpareNamed, SpareProcessing,
     RemoveOrphans

LEMMA DoneIsFinalStep ==
  ASSUME OneWorker, QInv, DoneIsFinal, [Next]_vars
  PROVE  DoneIsFinal' /\ (recorded # 0 => onDisk' = onDisk /\ recorded' = recorded)
<1>0. TypeOK
  BY DEF QInv
<1>1. ASSUME NEW w \in Workers, WorkerNext(w)
      PROVE DoneIsFinal' /\ (recorded # 0 => onDisk' = onDisk /\ recorded' = recorded)
  <2>1. \A v \in Workers : v = w
    BY DEF OneWorker
  <2>2. \/ UNCHANGED reportVars
        \/ CopyFiles(w) \/ Publish(w) \/ PublishRaises(w) \/ Mark(w) \/ ReapCommit(w)
    BY <1>1 DEF WorkerNext, Advance, Load, Write, Finish, FinishRaises, DropArtifact, Judge, MarkRaises,
       Close, CloseRaises, FailJob, FailRaises, Discard, Shutdown, Crash, Boot, Claim, ReapLock, Renew,
       RenderFails, Expire, DeleteExpired, SpareNamed, SpareProcessing, RemoveOrphans
  <2>3. recorded' # 0 => render' = "done"
    BY <2>2 DEF DoneIsFinal, reportVars, CopyFiles, Publish, PublishRaises, Mark, ReapCommit
  <2>4. recorded # 0 => onDisk' = onDisk /\ recorded' = recorded
    BY <2>2 DEF DoneIsFinal, reportVars, CopyFiles, Publish, PublishRaises, Mark, ReapCommit
  <2>5. pc'[w] = "publish" => recorded' = 0
    BY <1>0, <1>1, ComesFrom DEF DoneIsFinal, CopyFiles, Renew, reportVars
  <2>6. mayFail'[w] => pc'[w] \in {"mark", "reap"} /\ render' # "done"
    <3> SUFFICES ASSUME mayFail'[w] PROVE pc'[w] \in {"mark", "reap"} /\ render' # "done"
      OBVIOUS
    <3>1. CASE Judge(w) /\ render # "done" /\ pc'[w] = "mark"
      BY <3>1 DEF Judge, reportVars
    <3>2. CASE ReapLock(w) /\ render = "pending" /\ pc'[w] = "reap"
      BY <3>2 DEF ReapLock, reportVars
    <3>3. CASE mayFail[w] /\ pc'[w] = pc[w]
      BY <2>2, <3>3 DEF DoneIsFinal, reportVars, CopyFiles, Publish, PublishRaises, Mark, ReapCommit
    <3> QED
      BY <1>0, <1>1, <3>1, <3>2, <3>3, MindMade DEF DoneIsFinal
  <2> QED
    BY <2>1, <2>3, <2>4, <2>5, <2>6 DEF DoneIsFinal
<1>2. CASE OutsideNext \/ UNCHANGED vars
  <2>1. /\ UNCHANGED <<pc, mayFail, recorded, onDisk>>
        /\ render' = render \/ (render \in {"draft", "failed", "pending"} /\ render' = "pending")
    BY <1>2 DEF OutsideNext, Issue, Rerender, Ask, Retry, Cancel, LeaseExpires, ArtifactExpires, DirAges, vars,
       reportVars
  <2> QED
    BY <2>1 DEF DoneIsFinal
<1> QED
  BY <1>1, <1>2 DEF Next

\* With one worker, an issued report's files, once published, are never written
\* again: not by a retry, a reap, a raised commit or an attempt that came late.
THEOREM PublishedOnce == ASSUME OneWorker PROVE Spec => NeverReplaced
<1>1. Init => DoneIsFinal
  BY DEF Init, DoneIsFinal
<1>2. QInv /\ DoneIsFinal /\ [Next]_vars
        => DoneIsFinal' /\ [recorded # 0 => onDisk' = onDisk /\ recorded' = recorded]_vars
  BY DoneIsFinalStep
<1> QED
  BY <1>1, <1>2, QueueInvariant, PTL DEF Spec, NeverReplaced

\* A directory is its job's own, in the rows and in the attempts.
OwnDirs ==
  /\ \A j \in Jobs : result[j] # 0 => madeBy[result[j]].job = j
  /\ \A w \in Workers : pc[w] \in InAttempt /\ cur[w].dir # 0 => madeBy[cur[w].dir].job = Job(w)

\* The directory of an attempt that has not published is there and named by no row.
FreshDir ==
  \A w \in Workers : /\ pc[w] \in {"written", "lost"} => \A j \in Jobs : result[j] # cur[w].dir
                     /\ pc[w] = "written" => cur[w].dir \in dirs

PastDone == \A j \in past : status[j] = "completed"

\* The sweep has spared what the rows name.
NamedSpared ==
  \A w \in Workers : pc[w] \in {"spare", "remove"} => \A j \in Jobs \ gone : result[j] \notin orphans[w]

AInv == CInv /\ OwnDirs /\ FreshDir /\ PastDone /\ NamedSpared /\ ArtifactStays

\* A row's artifact is written when an attempt publishes it, and at no other time.
LEMMA ResultKept ==
  ASSUME TypeOK, HasAttempt, [Next]_vars, NEW j \in Jobs
  PROVE  /\ result'[j] = result[j] \/ Published(j)
         /\ status[j] = "completed" /\ HeldOK => Unmoved(j)
<1>0. RowMoves(j) /\ status \in [Jobs -> Statuses]
  BY RowStep DEF TypeOK, RowsTypeOK
<1>1. result'[j] = result[j] \/ Published(j)
  BY <1>0 DEF RowMoves, Unmoved, Submitted, Issue, Rerender, Ask, Retry, Cancel, Claim, Outdated, Released,
     Failed, Closed, Reaped, GivenBack, Stopped
<1>2. ASSUME status[j] = "completed", HeldOK PROVE Unmoved(j)
  BY <1>0, <1>2 DEF HeldOK, RowMoves, Submitted, Issue, Rerender, Ask, InsertRow, Retry, RetryRow, Cancel, CancelRow,
     Claim, ClaimRows, Outdated, Superseded, Released, Failed, Published, Closed, Writes, Mine, Owns, Reaped
<1> QED
  BY <1>1, <1>2

\* An attempt's directory is the one it wrote.
LEMMA DirKept ==
  ASSUME TypeOK, NEW w \in Workers, WorkerNext(w), pc'[w] \in InAttempt
  PROVE  \/ cur'[w].dir = 0
         \/ Write(w)
         \/ pc[w] \in InAttempt /\ Job(w)' = Job(w) /\ cur'[w].dir = cur[w].dir
<1>0. /\ pc \in [Workers -> Steps] /\ cur \in [Workers -> Attempts]
  BY TypeParts DEF WorkersOK
<1>1. CASE Load(w)
  BY <1>0, <1>1 DEF Load, EndAttempt, Goto, Job, Attempts
<1>2. ASSUME NEW j \in Jobs, Claim(w, j) PROVE cur'[w].dir = 0
  BY <1>0, <1>2 DEF Claim, NoAttempt
<1>3. CASE UNCHANGED cur
  BY <1>0, <1>2, <1>3, SameAttempt DEF Job
<1>4. CASE \E p \in Steps \ InAttempt : EndAttempt(w, p)
  BY <1>0, <1>4 DEF EndAttempt, Goto
<1> QED
  BY <1>1, <1>2, <1>3, <1>4 DEF WorkerNext, Advance, Finish, FinishRaises, DropArtifact, CopyFiles,
     Publish, PublishRaises, Judge, Mark, MarkRaises, Close, CloseRaises, FailJob, FailRaises, Discard,
     Shutdown, Crash, Boot, ReapLock, ReapCommit, Renew, RenderFails, Expire, DeleteExpired, SpareNamed,
     SpareProcessing, RemoveOrphans

LEMMA OwnDirsStep ==
  ASSUME CInv, OwnDirs, [Next]_vars
  PROVE  OwnDirs'
<1>0. /\ TypeOK /\ HasAttempt /\ result \in [Jobs -> 0..lastDir] /\ lastDir \in Nat
      /\ \A w \in Workers : cur[w].dir \in 0..lastDir
      /\ cur \in [Workers -> Attempts] /\ madeBy \in [Dirs -> [job : Jobs \cup {0}, token : Tokens]]
  BY TypeParts, BoundsAssumption DEF CInv, QInv, TypeOK, WorkersOK, Attempts
<1>1. ASSUME NEW j \in Jobs, result'[j] # 0 PROVE madeBy'[result'[j]].job = j
  <2>1. CASE result'[j] = result[j]
    BY <1>0, <1>1, <2>1, MadeStays DEF OwnDirs
  <2>2. CASE Published(j)
    <3>1. PICK w \in Workers : Writes(w, j) /\ pc[w] = "written" /\ result'[j] = cur[w].dir
      BY <2>2 DEF Published
    <3>2. Job(w) = j /\ cur[w].dir \in 1..lastDir
      BY <3>1 DEF Writes, CInv, WrittenByAttempt
    <3> QED
      BY <1>0, <1>1, <3>1, <3>2, MadeStays DEF OwnDirs
  <2> QED
    BY <1>0, <2>1, <2>2, ResultKept
<1>2. ASSUME NEW w \in Workers, pc'[w] \in InAttempt, cur'[w].dir # 0 PROVE madeBy'[cur'[w].dir].job = Job(w)'
  <2>1. ASSUME pc[w] \in InAttempt, Job(w)' = Job(w), cur'[w].dir = cur[w].dir
        PROVE  madeBy'[cur'[w].dir].job = Job(w)'
    BY <1>0, <1>2, <2>1, MadeStays DEF OwnDirs
  <2>2. CASE Write(w)
    <3>1. cur'[w].dir = lastDir + 1 /\ Job(w)' = Job(w) /\ lastDir + 1 \in Dirs
      BY <1>0, <2>2, BoundsAssumption DEF Write, Attempts, Dirs, Job
    <3> QED
      BY <1>0, <2>2, <3>1 DEF Write
  <2>3. ASSUME NEW v \in Workers, v # w, WorkerNext(v) PROVE madeBy'[cur'[w].dir].job = Job(w)'
    BY <1>0, <1>2, <2>1, <2>3, OthersStay DEF Job
  <2>4. CASE OutsideNext \/ UNCHANGED vars
    BY <1>2, <2>1, <2>4, OutsideStays DEF Job
  <2> QED
    BY <1>0, <1>2, <2>1, <2>2, <2>3, <2>4, DirKept DEF Next
<1> QED
  BY <1>1, <1>2 DEF OwnDirs

\* Directories go in four ways, each of which leaves the rows alone.
LEMMA DirsGo ==
  ASSUME [Next]_vars
  PROVE  \/ dirs \subseteq dirs'
         \/ \E w \in Workers : /\ DropArtifact(w) \/ Discard(w) \/ Expire(w) \/ RemoveOrphans(w)
                               /\ UNCHANGED <<status, result>>
<1>1. ASSUME NEW w \in Workers, WorkerNext(w)
      PROVE  \/ dirs \subseteq dirs'
             \/ /\ DropArtifact(w) \/ Discard(w) \/ Expire(w) \/ RemoveOrphans(w)
                /\ UNCHANGED <<status, result>>
  BY <1>1 DEF WorkerNext, Advance, Load, Write, Finish, FinishRaises, DropArtifact, CopyFiles, Publish,
     PublishRaises, Judge, Mark, MarkRaises, Close, CloseRaises, FailJob, FailRaises, Discard, Shutdown,
     Crash, Boot, Claim, ReapLock, ReapCommit, Renew, RenderFails, Expire, DeleteExpired, SpareNamed,
     SpareProcessing, RemoveOrphans, diskVars, jobVars, rowVars
<1>2. OutsideNext \/ UNCHANGED vars => dirs' = dirs
  BY DEF OutsideNext, Issue, Rerender, Ask, Retry, Cancel, LeaseExpires, ArtifactExpires, DirAges, vars, diskVars
<1> QED
  BY <1>1, <1>2 DEF Next

LEMMA FreshStep ==
  ASSUME OneWorker, CInv, FreshDir, [Next]_vars
  PROVE  FreshDir'
<1>0. /\ TypeOK /\ HasAttempt /\ result \in [Jobs -> 0..lastDir] /\ lastDir \in Nat
      /\ cur \in [Workers -> Attempts] /\ pc \in [Workers -> Steps]
  BY TypeParts, BoundsAssumption DEF CInv, QInv, TypeOK, WorkersOK
<1> SUFFICES ASSUME NEW w \in Workers, pc'[w] \in {"written", "lost"}
             PROVE  /\ \A j \in Jobs : result'[j] # cur'[w].dir
                    /\ pc'[w] = "written" => cur'[w].dir \in dirs'
  BY DEF FreshDir
<1>1. CASE Write(w)
  BY <1>0, <1>1 DEF Write, Attempts, jobVars
<1>2. CASE Finish(w)
  BY <1>0, <1>2 DEF Finish, EndAttempt, Goto, FreshDir
<1>3. CASE (Renew(w) /\ pc[w] = "written") \/ OutsideNext \/ UNCHANGED vars
  <2>1. UNCHANGED <<pc, cur, result, dirs>>
    BY <1>3 DEF Renew, OutsideNext, Issue, Rerender, Ask, Retry, Cancel, LeaseExpires, ArtifactExpires, DirAges,
       vars, diskVars, jobVars
  <2> QED
    BY <2>1 DEF FreshDir
<1> QED
  BY <1>0, <1>1, <1>2, <1>3, ComesFrom DEF Next, OneWorker

LEMMA PastStep ==
  ASSUME CInv, PastDone, [Next]_vars
  PROVE  PastDone' /\ past \subseteq past'
<1>0. TypeOK /\ HasAttempt /\ HeldOK /\ past \subseteq Jobs
  BY DEF CInv, QInv, TypeOK
<1>1. past' = past \/ \E j \in Jobs : ArtifactExpires(j)
  BY DEF Next, WorkerNext, Advance, Load, Write, Finish, FinishRaises, DropArtifact, CopyFiles, Publish,
     PublishRaises, Judge, Mark, MarkRaises, Close, CloseRaises, FailJob, FailRaises, Discard, Shutdown,
     Crash, Boot, Claim, ReapLock, ReapCommit, Renew, RenderFails, Expire, DeleteExpired, SpareNamed,
     SpareProcessing, RemoveOrphans, OutsideNext, Issue, Rerender, Ask, Retry, Cancel, LeaseExpires, DirAges,
     vars, jobVars
<1>2. past' \subseteq past \cup {j \in Jobs : status[j] = "completed"} /\ past \subseteq past'
  BY <1>1 DEF ArtifactExpires
<1>3. \A j \in past' : j \in Jobs /\ status[j] = "completed"
  BY <1>0, <1>2 DEF PastDone
<1> QED
  BY <1>0, <1>2, <1>3, ResultKept DEF PastDone, Unmoved

LEMMA SparedStep ==
  ASSUME OneWorker, CInv, NamedSpared, [Next]_vars
  PROVE  NamedSpared'
<1>0. TypeOK /\ pc \in [Workers -> Steps] /\ orphans \in [Workers -> SUBSET (1..lastDir)]
  BY DEF CInv, QInv, TypeOK
<1> SUFFICES ASSUME NEW w \in Workers, pc'[w] \in {"spare", "remove"}
             PROVE  \A j \in Jobs \ gone' : result'[j] \notin orphans'[w]
  BY DEF NamedSpared
<1>1. CASE SpareNamed(w)
  BY <1>0, <1>1 DEF SpareNamed, jobVars
<1>2. CASE SpareProcessing(w)
  BY <1>0, <1>2 DEF SpareProcessing, NamedSpared, jobVars
<1>3. CASE OutsideNext \/ UNCHANGED vars
  <2>1. UNCHANGED <<pc, result, gone, orphans>>
    BY <1>3 DEF OutsideNext, Issue, Rerender, Ask, Retry, Cancel, LeaseExpires, ArtifactExpires, DirAges,
       vars, jobVars, sweepVars
  <2> QED
    BY <2>1 DEF NamedSpared
<1>4. ASSUME WorkerNext(w) PROVE SpareNamed(w) \/ SpareProcessing(w)
  <2>1. CASE \E p \in Steps \ {"spare", "remove"} : EndAttempt(w, p) \/ Goto(w, p)
    BY <1>0, <2>1 DEF EndAttempt, Goto
  <2>2. CASE Load(w) \/ CopyFiles(w) \/ RenderFails(w) \/ Renew(w)
    BY <1>0, <2>2 DEF Load, CopyFiles, RenderFails, Renew, EndAttempt, Goto
  <2> QED
    BY <1>4, <2>1, <2>2 DEF WorkerNext, Advance, Write, Finish, FinishRaises, DropArtifact, Publish,
       PublishRaises, Judge, Mark, MarkRaises, Close, CloseRaises, FailJob, FailRaises, Discard, Shutdown,
       Crash, Boot, Claim, ReapLock, ReapCommit, Expire, DeleteExpired, RemoveOrphans
<1> QED
  BY <1>1, <1>2, <1>3, <1>4 DEF Next, OneWorker

LEMMA ArtifactStep ==
  ASSUME AInv, [Next]_vars
  PROVE  ArtifactStays'
<1>0. /\ TypeOK /\ HasAttempt /\ HeldOK /\ QInv /\ dirs \subseteq 1..lastDir /\ lastDir \in Nat /\ gone \subseteq past
      /\ result \in [Jobs -> 0..lastDir]
  BY BoundsAssumption DEF AInv, CInv, QInv, TypeOK
<1> SUFFICES ASSUME NEW j \in Jobs \ Issues, status'[j] = "completed", j \notin past' PROVE result'[j] \in dirs'
  BY DEF ArtifactStays
<1>1. j \notin past
  BY PastStep DEF AInv
<1>2. CASE status[j] = "completed"
  <2>1. result'[j] = result[j] /\ result[j] \in dirs /\ result[j] # 0
    BY <1>0, <1>1, <1>2, ResultKept DEF AInv, ArtifactStays, Unmoved
  <2>2. ASSUME NEW w \in Workers, DropArtifact(w) PROVE result[j] \in dirs'
    BY <2>1, <2>2 DEF DropArtifact, Remove, AInv, FreshDir
  <2>3. ASSUME NEW w \in Workers, Discard(w) PROVE result[j] \in dirs'
    <3>1. CASE result[j] # cur[w].dir
      BY <2>1, <2>3, <3>1 DEF Discard, Remove, diskVars
    <3>2. CASE result[j] = cur[w].dir
      <4>1. Job(w) = j
        BY <2>1, <2>3, <3>2 DEF Discard, AInv, OwnDirs
      <4> QED
        BY <1>0, <1>1, <2>1, <2>3, <3>2, <4>1 DEF Discard, diskVars
    <3> QED
      BY <3>1, <3>2
  <2>4. ASSUME NEW w \in Workers, Expire(w) PROVE result[j] \in dirs'
    <3>1. \A k \in past \ gone : result[k] # result[j]
      BY <1>0, <1>1, <2>1 DEF AInv, OwnDirs, TypeOK
    <3> QED
      BY <2>1, <2>4, <3>1 DEF Expire, Remove
  <2>5. ASSUME NEW w \in Workers, RemoveOrphans(w) PROVE result[j] \in dirs'
    BY <1>0, <1>1, <2>1, <2>5 DEF RemoveOrphans, Remove, AInv, NamedSpared
  <2> QED
    BY <2>1, <2>2, <2>3, <2>4, <2>5, DirsGo
<1>3. CASE status[j] # "completed"
  <2>1. Published(j)
    <3>1. ~Closed(j)
      BY <1>0 DEF Closed, Writes, QInv, OfKind
    <3> QED
      BY <1>0, <1>3, <3>1, RowStep DEF RowMoves, Unmoved, Submitted, Issue, Rerender, Ask, InsertRow, Retry,
         RetryRow, BackToQueue, Cancel, CancelRow, Claim, ClaimRows, Outdated, Released, Failed, Reaped,
         GivenBack, Stopped, TypeOK, RowsTypeOK
  <2>2. result'[j] \in dirs
    BY <2>1 DEF Published, AInv, FreshDir
  <2> QED
    BY <1>3, <2>2, DirsGo
<1> QED
  BY <1>2, <1>3

\* With one worker, a download that is offered is on disk until it expires,
\* whatever was raised, retried, reaped or swept meanwhile.
THEOREM OfferedStays == ASSUME OneWorker PROVE Spec => []ArtifactStays
<1>1. Init => AInv
  <2>1. Init => QInv /\ WrittenByAttempt /\ CompletedShows
    BY InitQInv DEF Init, RowsInit, WrittenByAttempt, CompletedShows
  <2> QED
    BY <2>1 DEF CInv, AInv, Init, RowsInit, OwnDirs, FreshDir, PastDone, NamedSpared, ArtifactStays
<1>2. AInv /\ [Next]_vars => AInv'
  <2>1. AInv /\ [Next]_vars => CInv'
    BY StepQInv, WrittenStep, CompletedStep DEF AInv, CInv
  <2> QED
    BY <2>1, OwnDirsStep, FreshStep, PastStep, SparedStep, ArtifactStep DEF AInv
<1>3. AInv => ArtifactStays
  BY DEF AInv
<1> QED
  BY <1>1, <1>2, <1>3, PTL DEF Spec

===========================================================================
