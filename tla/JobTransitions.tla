-------------------------- MODULE JobTransitions --------------------------
(***************************************************************************)
(* The rows of a job queue and the one set of writes that move them        *)
(* (services/job_transitions.py).  The ingestion queue and the report      *)
(* queue both go through it: a queue module EXTENDS this one and adds what *)
(* its workers do around the writes.                                       *)
(*                                                                         *)
(* Every operator below is one committed transaction on the rows.  A       *)
(* claim stamps started_at, and that stamp is the attempt's fencing token: *)
(* the writes of a running attempt match the row only while it is          *)
(* processing under the attempt's own token.                               *)
(***************************************************************************)
EXTENDS Naturals, FiniteSets

CONSTANTS
  Jobs,       \* job ids; a smaller id was created earlier
  MaxClaims,  \* bound: claims in a behaviour, so that tokens are finite
  MaxReaps    \* re-queues the reaper grants one job (INGESTION_MAX_RETRIES)

ASSUME JobsAssumption == Jobs \subseteq Nat \ {0}
ASSUME ClaimsAssumption == MaxClaims \in Nat
ASSUME ReapsAssumption == MaxReaps \in Nat

VARIABLES
  status,   \* status[j]: the row's status column, "none" before the row exists
  started,  \* started[j]: started_at, the token of the last claim, 0 for NULL
  lease,    \* lease[j]: last_heartbeat: "none" (NULL), "fresh", or "old" (past the cutoff)
  reaps,    \* reaps[j]: the reaper's own counter (reap_count, or retry_count for reports)
  clock     \* the last token handed out; claims read a clock that never repeats an instant

rowVars == <<status, started, lease, reaps, clock>>

Tokens == 0..clock

Statuses ==
  {"none", "staged", "queued", "processing", "completed", "failed", "cancelled"}

RowsTypeOK ==
  /\ status \in [Jobs -> Statuses]
  /\ started \in [Jobs -> Tokens]
  /\ lease \in [Jobs -> {"none", "fresh", "old"}]
  /\ reaps \in [Jobs -> Nat]
  /\ clock \in Nat

RowsInit ==
  /\ status = [j \in Jobs |-> "none"]
  /\ started = [j \in Jobs |-> 0]
  /\ lease = [j \in Jobs |-> "none"]
  /\ reaps = [j \in Jobs |-> 0]
  /\ clock = 0

---------------------------------------------------------------------------
(* What a fenced write matches, and what the reaper lists.                 *)

Owns(j, t) == status[j] = "processing" /\ started[j] = t

\* Faulty: any failure of the job, not this attempt's.
FailedAtAll(j, t) == status[j] = "failed"

FailedAttempt(j, t) == status[j] = "failed" /\ started[j] = t

OldestQueued(j) ==
  /\ status[j] = "queued"
  /\ \A k \in Jobs : status[k] = "queued" => j <= k

Stale(j) == status[j] = "processing" /\ lease[j] = "old"

---------------------------------------------------------------------------
(* The writes.                                                             *)

InsertRow(j, st) ==
  /\ status[j] = "none"
  /\ status' = [status EXCEPT ![j] = st]
  /\ UNCHANGED <<started, lease, reaps, clock>>

ClaimRow(j) ==
  /\ status[j] = "queued"
  /\ clock < MaxClaims
  /\ clock' = clock + 1
  /\ status' = [status EXCEPT ![j] = "processing"]
  /\ started' = [started EXCEPT ![j] = clock + 1]
  /\ lease' = [lease EXCEPT ![j] = "fresh"]
  /\ UNCHANGED reaps

HeartbeatRow(j, t) ==
  /\ Owns(j, t)
  /\ lease' = [lease EXCEPT ![j] = "fresh"]
  /\ UNCHANGED <<status, started, reaps, clock>>

\* Faulty: a completion that is not fenced by the token.
CompleteAnyAttempt(j, t) ==
  /\ status[j] = "processing"
  /\ status' = [status EXCEPT ![j] = "completed"]
  /\ UNCHANGED <<started, lease, reaps, clock>>

CompleteRow(j, t) ==
  /\ Owns(j, t)
  /\ status' = [status EXCEPT ![j] = "completed"]
  /\ UNCHANGED <<started, lease, reaps, clock>>

FailRow(j, t) ==
  /\ Owns(j, t)
  /\ status' = [status EXCEPT ![j] = "failed"]
  /\ UNCHANGED <<started, lease, reaps, clock>>

BackToQueue(j) ==
  /\ status' = [status EXCEPT ![j] = "queued"]
  /\ started' = [started EXCEPT ![j] = 0]
  /\ lease' = [lease EXCEPT ![j] = "none"]

ReleaseRow(j, t) ==
  /\ Owns(j, t)
  /\ BackToQueue(j)
  /\ UNCHANGED <<reaps, clock>>

\* Faulty: the status read before the row lock is not asked again.
CancelUnchecked(j, from, to) ==
  /\ status[j] # "none"
  /\ status' = [status EXCEPT ![j] = to]
  /\ UNCHANGED <<started, lease, reaps, clock>>

CancelRow(j, from, to) ==
  /\ status[j] \in from
  /\ status' = [status EXCEPT ![j] = to]
  /\ UNCHANGED <<started, lease, reaps, clock>>

\* `count` is the reap counter the caller leaves on the row: queue_job
\* starts the ingestion reaper's budget over, the report queue does not.
RetryRow(j, from, count) ==
  /\ status[j] \in from
  /\ BackToQueue(j)
  /\ reaps' = [reaps EXCEPT ![j] = count]
  /\ UNCHANGED clock

\* One reaper pass: every row of both sets had its predicate re-applied
\* under its row lock, and one commit writes them all.
ReapRows(requeued, failed) ==
  /\ status' = [j \in Jobs |-> IF j \in requeued THEN "queued"
                               ELSE IF j \in failed THEN "failed" ELSE status[j]]
  /\ started' = [j \in Jobs |-> IF j \in requeued THEN 0 ELSE started[j]]
  /\ lease' = [j \in Jobs |-> IF j \in requeued THEN "none" ELSE lease[j]]
  /\ reaps' = [j \in Jobs |-> IF j \in requeued \cup failed THEN reaps[j] + 1 ELSE reaps[j]]
  /\ UNCHANGED clock

\* Time passes without a heartbeat: the lease falls behind the cutoff.
LeaseAges(j) ==
  /\ status[j] \in {"processing", "failed"}
  /\ lease[j] = "fresh"
  /\ lease' = [lease EXCEPT ![j] = "old"]
  /\ UNCHANGED <<status, started, reaps, clock>>

===========================================================================
