--------------------------- MODULE WebhookOutbox ---------------------------
(***************************************************************************)
(* The webhook outbox: a change stages a delivery row in its own           *)
(* transaction; after the commit the row is handed to the API process's    *)
(* sender threads (the fast path), and whatever they do not settle is      *)
(* retried by the sweep of the ingestion worker.  Both send a row only     *)
(* after claiming it for a lease.                                          *)
(*                                                                         *)
(* Each action is one database transaction, one POST or one change of the  *)
(* in-process queue.  The two read-then-write updates of the code - the    *)
(* outcome of an attempt and the operator's retry, neither of which locks  *)
(* the row it read - are two actions each.                                 *)
(***************************************************************************)
EXTENDS Naturals, Sequences, FiniteSets

CONSTANTS
  Deliveries,   \* deliveries of one webhook, each staged by a change of its own
  Threads,      \* the API process's sender threads
  Sweeper,      \* the ingestion worker's sweep
  None,         \* NULL
  QueueMax,     \* _QUEUE_MAX
  SweepBatch,   \* _SWEEP_BATCH
  MaxAttempts,  \* max_attempts of a row
  MaxFaults,    \* bound: crashes, failed statements, leases outrun by a live sender
  MaxRequeues   \* bound: retries by an admin

ASSUME SendersAssumption == Sweeper \notin Threads /\ None \notin Threads \cup {Sweeper}
ASSUME RowsAssumption == None \notin Deliveries
ASSUME LimitsAssumption ==
  /\ QueueMax \in Nat /\ SweepBatch \in Nat \ {0} /\ MaxAttempts \in Nat \ {0}
  /\ MaxFaults \in Nat /\ MaxRequeues \in Nat

Senders == Threads \cup {Sweeper}

VARIABLES
  change,    \* change[d]: the transaction of the change d announces
  armed,     \* deliveries remembered in a session's info until its commit
  status,    \* the row: "absent" or its status
  token,     \* the row's claim_token: the sender it was made out to, or None
  due,       \* rows whose next_attempt_at is not NULL and has passed
  attempts,  \* the row's attempts
  config,    \* the webhook: "active", "disabled" or "gone"
  queue,     \* the fast path's bounded queue
  pc,        \* pc[s]: where sender s is
  hand,      \* hand[s]: the delivery s works on, or None
  answer,    \* answer[s]: its POST was answered with success
  seen,      \* seen[s]: the status and attempts s's session read
  batch,     \* the candidates the sweep has not reached
  ask,       \* the admin's retry in progress: the row and what was read of it
  requeues,  \* retries so far
  faults,    \* faults so far
  received,  \* history: how often the receiver took d (2 for more)
  excused    \* history: deliveries whose lease ran out or whose answer was lost

rowVars == <<status, token, due, attempts>>
callerVars == <<change, armed, config>>
senderVars == <<pc, hand, answer, seen>>
askVars == <<ask, requeues>>
historyVars == <<received, excused>>
vars == <<rowVars, callerVars, queue, senderVars, batch, askVars, faults, historyVars>>

Unsettled == {"pending", "sending"}
RowStatuses == Unsettled \cup {"absent", "delivered", "failed"}
Views == [status : RowStatuses, attempts : Nat]
NoView == [status |-> "absent", attempts |-> 0]
NoAsk == [row |-> None, attempts |-> 0]

TypeOK ==
  /\ change \in [Deliveries -> {"none", "open", "committed"}]
  /\ armed \subseteq Deliveries
  /\ status \in [Deliveries -> RowStatuses]
  /\ token \in [Deliveries -> Senders \cup {None}]
  /\ due \subseteq Deliveries
  /\ attempts \in [Deliveries -> Nat]
  /\ config \in {"active", "disabled", "gone"}
  /\ queue \in Seq(Deliveries)
  /\ pc \in [Senders -> {"idle", "first", "next", "post", "record", "write"}]
  /\ hand \in [Senders -> Deliveries \cup {None}]
  /\ answer \in [Senders -> BOOLEAN]
  /\ seen \in [Senders -> Views]
  /\ batch \subseteq Deliveries
  /\ ask \in [row : Deliveries \cup {None}, attempts : Nat]
  /\ requeues \in 0..MaxRequeues
  /\ faults \in 0..MaxFaults
  /\ received \in [Deliveries -> 0..2]
  /\ excused \subseteq Deliveries

Init ==
  /\ change = [d \in Deliveries |-> "none"]
  /\ armed = {}
  /\ status = [d \in Deliveries |-> "absent"]
  /\ token = [d \in Deliveries |-> None]
  /\ due = {}
  /\ attempts = [d \in Deliveries |-> 0]
  /\ config = "active"
  /\ queue = <<>>
  /\ pc = [s \in Senders |-> "idle"]
  /\ hand = [s \in Senders |-> None]
  /\ answer = [s \in Senders |-> FALSE]
  /\ seen = [s \in Senders |-> NoView]
  /\ batch = {}
  /\ ask = NoAsk
  /\ requeues = 0
  /\ faults = 0
  /\ received = [d \in Deliveries |-> 0]
  /\ excused = {}

---------------------------------------------------------------------------
(* Operators.                                                              *)

\* Sender s has d in hand.
Handles(s, d) == pc[s] \in {"post", "record", "write"} /\ hand[s] = d

\* The sender the row is made out to is alive and still working on it.
HolderAlive(d) == \E s \in Senders : Handles(s, d) /\ token[d] = s

\* Faulty: a running lease is no obstacle.
LeaseIgnored(d) == status[d] \in Unsettled

\* Faulty: only pending rows, so the row of a sender that died is never taken.
PendingOnly(d) == status[d] = "pending" /\ d \in due

\* What one UPDATE of _claim_for_send may take.
Claimable(d) == status[d] \in Unsettled /\ d \in due

\* Faulty: one attempt fewer, a row that is given up is shown as delivered, and
\* a status the readers do not know.
GivesUpEarly(ok, n) ==
  IF ok THEN "delivered" ELSE IF n + 1 >= MaxAttempts THEN "failed" ELSE "pending"
SettlesAnyhow(ok, n) == IF ok \/ n >= MaxAttempts THEN "delivered" ELSE "pending"
UnknownStatus(ok, n) ==
  IF ok THEN "delivered" ELSE IF n >= MaxAttempts THEN "gave_up" ELSE "pending"

\* The row's status once an attempt with this outcome is the n-th.
Outcome(ok, n) ==
  IF ok THEN "delivered" ELSE IF n >= MaxAttempts THEN "failed" ELSE "pending"

\* Rows are deleted.
Remove(rows) ==
  /\ status' = [d \in Deliveries |-> IF d \in rows THEN "absent" ELSE status[d]]
  /\ token' = [d \in Deliveries |-> IF d \in rows THEN None ELSE token[d]]
  /\ attempts' = [d \in Deliveries |-> IF d \in rows THEN 0 ELSE attempts[d]]
  /\ due' = due \ rows

Fault == faults < MaxFaults /\ faults' = faults + 1

\* s is done with its delivery: a thread waits for the queue, the sweep goes on.
Rest(s) == IF s = Sweeper THEN "next" ELSE "idle"
LetGo(s) ==
  /\ pc' = [pc EXCEPT ![s] = Rest(s)]
  /\ hand' = [hand EXCEPT ![s] = None]
  /\ answer' = [answer EXCEPT ![s] = FALSE]
  /\ seen' = [seen EXCEPT ![s] = NoView]

---------------------------------------------------------------------------
(* The caller: stage, commit, hand over.                                   *)

\* Faulty: the row is committed on its own, whatever becomes of the change.
StageCommits(d) ==
  /\ change[d] = "none"
  /\ config = "active"
  /\ change' = [change EXCEPT ![d] = "open"]
  /\ status' = [status EXCEPT ![d] = "pending"]
  /\ due' = due \cup {d}
  /\ armed' = armed \cup {d}
  /\ UNCHANGED <<token, attempts, config, queue, senderVars, batch, askVars, faults, historyVars>>

\* WebhookDispatcher.stage for an active webhook: the row joins the caller's
\* transaction, the send is remembered on its session.
Stage(d) ==
  /\ change[d] = "none"
  /\ config = "active"
  /\ change' = [change EXCEPT ![d] = "open"]
  /\ armed' = armed \cup {d}
  /\ UNCHANGED <<rowVars, config, queue, senderVars, batch, askVars, faults, historyVars>>

\* The caller's commit: its change and the row, due at once.
Commit(d) ==
  /\ change[d] = "open"
  /\ change' = [change EXCEPT ![d] = "committed"]
  /\ status' = [status EXCEPT ![d] = "pending"]
  /\ due' = due \cup {d}
  /\ UNCHANGED <<token, attempts, armed, config, queue, senderVars, batch, askVars, faults, historyVars>>

\* _drain_pending, after the commit: a full queue leaves the row to the sweep.
Drain(d) ==
  /\ d \in armed
  /\ change[d] = "committed"
  /\ armed' = armed \ {d}
  /\ queue' = IF Len(queue) < QueueMax THEN Append(queue, d) ELSE queue
  /\ UNCHANGED <<rowVars, change, config, senderVars, batch, askVars, faults, historyVars>>

\* The caller's transaction fails: _clear_pending forgets the send.  The change
\* may be tried again.
Rollback(d) ==
  /\ change[d] = "open"
  /\ change' = [change EXCEPT ![d] = "none"]
  /\ armed' = armed \ {d}
  /\ UNCHANGED <<rowVars, config, queue, senderVars, batch, askVars, faults, historyVars>>

---------------------------------------------------------------------------
(* Senders: claim, POST, record.                                           *)

\* A winning _claim_for_send by s.
Claim(s, d) ==
  /\ Claimable(d)
  /\ status' = [status EXCEPT ![d] = "sending"]
  /\ token' = [token EXCEPT ![d] = s]
  /\ due' = due \ {d}
  /\ UNCHANGED attempts
  /\ pc' = [pc EXCEPT ![s] = "post"]
  /\ hand' = [hand EXCEPT ![s] = d]
  /\ UNCHANGED <<answer, seen>>

\* A thread takes the next task and claims its row, or finds it owned,
\* settled or gone and drops the task.
Take(t) ==
  /\ t \in Threads /\ pc[t] = "idle"
  /\ queue # <<>>
  /\ queue' = Tail(queue)
  /\ \/ Claim(t, Head(queue))
     \/ ~Claimable(Head(queue)) /\ UNCHANGED <<rowVars, senderVars>>
  /\ UNCHANGED <<callerVars, batch, askVars, faults, historyVars>>

\* The claim's statement fails: the task is dropped, the row left as it is.
TakeFails(t) ==
  /\ t \in Threads /\ pc[t] = "idle"
  /\ queue # <<>>
  /\ Fault
  /\ queue' = Tail(queue)
  /\ UNCHANGED <<rowVars, callerVars, senderVars, batch, askVars, historyVars>>

\* The POST reaches the receiver or not; an answer of success, another answer,
\* or none although the receiver took it.
Post(s) ==
  /\ pc[s] = "post"
  /\ \E took, ok \in BOOLEAN :
       /\ ok => took
       /\ answer' = [answer EXCEPT ![s] = ok]
       /\ received' = [received EXCEPT ![hand[s]] =
                         IF took /\ @ < 2 THEN @ + 1 ELSE @]
       /\ excused' = IF took /\ ~ok THEN excused \cup {hand[s]} ELSE excused
  /\ pc' = [pc EXCEPT ![s] = "record"]
  /\ UNCHANGED <<rowVars, callerVars, queue, hand, seen, batch, askVars, faults>>

\* _record_attempt reads the row, without a lock: a row that is gone or made
\* out to another sender is not this sender's to write.
ReadRow(s) ==
  LET d == hand[s] IN
  /\ pc[s] = "record"
  /\ \/ /\ status[d] # "absent" /\ token[d] = s
        /\ pc' = [pc EXCEPT ![s] = "write"]
        /\ seen' = [seen EXCEPT ![s] = [status |-> status[d], attempts |-> attempts[d]]]
        /\ UNCHANGED <<hand, answer>>
     \/ (status[d] = "absent" \/ token[d] # s) /\ LetGo(s)
  /\ UNCHANGED <<rowVars, callerVars, queue, batch, askVars, faults, historyVars>>

\* ... and writes by id the columns that differ from what it read.
WriteOutcome(s) ==
  LET d == hand[s]
      n == seen[s].attempts + 1
      outcome == Outcome(answer[s], n) IN
  /\ pc[s] = "write"
  /\ IF status[d] = "absent" THEN UNCHANGED rowVars
     ELSE /\ status' = [status EXCEPT ![d] = IF outcome = seen[s].status THEN @ ELSE outcome]
          /\ token' = [token EXCEPT ![d] = None]
          /\ attempts' = [attempts EXCEPT ![d] = n]
          /\ due' = due \ {d}
  /\ LetGo(s)
  /\ UNCHANGED <<callerVars, queue, batch, askVars, faults, historyVars>>

\* Recording fails and is swallowed: the row keeps its lease.
RecordFails(s) ==
  /\ pc[s] \in {"record", "write"}
  /\ Fault
  /\ LetGo(s)
  /\ UNCHANGED <<rowVars, callerVars, queue, batch, askVars, historyVars>>

---------------------------------------------------------------------------
(* The sweep.                                                              *)

\* sweep_pending_deliveries up to its commit: a batch of due rows, settled at
\* once if the webhook is disabled (a deleted one has no rows).
SweepBegin ==
  /\ pc[Sweeper] = "idle"
  /\ \E rows \in SUBSET {d \in Deliveries : Claimable(d)} :
       /\ rows # {}
       /\ Cardinality(rows) <= SweepBatch
       /\ IF config = "active"
          THEN /\ batch' = rows
               /\ UNCHANGED rowVars
          ELSE /\ batch' = {}
               /\ status' = [d \in Deliveries |-> IF d \in rows THEN "failed" ELSE status[d]]
               /\ token' = [d \in Deliveries |-> IF d \in rows THEN None ELSE token[d]]
               /\ due' = due \ rows
               /\ UNCHANGED attempts
  /\ pc' = [pc EXCEPT ![Sweeper] = "first"]
  /\ UNCHANGED <<callerVars, queue, hand, answer, seen, askVars, faults, historyVars>>

\* The next candidate is claimed, or was taken by somebody else meanwhile.
SweepNext(d) ==
  /\ pc[Sweeper] \in {"first", "next"}
  /\ d \in batch
  /\ batch' = batch \ {d}
  /\ \/ Claim(Sweeper, d)
     \/ /\ ~Claimable(d)
        /\ pc' = [pc EXCEPT ![Sweeper] = "next"]
        /\ UNCHANGED <<rowVars, hand, answer, seen>>
  /\ UNCHANGED <<callerVars, queue, askVars, faults, historyVars>>

\* Faulty: the pass may stop before its first candidate.
SweepEndsAnytime ==
  /\ pc[Sweeper] \in {"first", "next"}
  /\ batch' = {}
  /\ pc' = [pc EXCEPT ![Sweeper] = "idle"]
  /\ UNCHANGED <<rowVars, callerVars, queue, hand, answer, seen, askVars, faults, historyVars>>

\* The pass ends: nothing left, or its time is spent, which the first
\* candidate never finds.
SweepEnd ==
  /\ pc[Sweeper] \in {"first", "next"}
  /\ batch = {} \/ pc[Sweeper] = "next"
  /\ batch' = {}
  /\ pc' = [pc EXCEPT ![Sweeper] = "idle"]
  /\ UNCHANGED <<rowVars, callerVars, queue, hand, answer, seen, askVars, faults, historyVars>>

\* prune_delivery_history: a settled row past its retention.
Prune(d) ==
  /\ pc[Sweeper] = "idle"
  /\ status[d] \in {"delivered", "failed"}
  /\ Remove({d})
  /\ UNCHANGED <<callerVars, queue, senderVars, batch, askVars, faults, historyVars>>

---------------------------------------------------------------------------
(* Project admins.                                                         *)

\* update_webhook: is_active is switched.
SwitchConfig ==
  /\ config # "gone"
  /\ config' = IF config = "active" THEN "disabled" ELSE "active"
  /\ UNCHANGED <<rowVars, change, armed, queue, senderVars, batch, askVars, faults, historyVars>>

\* delete_webhook waits for the transactions whose rows refer to it; the
\* committed rows go with it.
DeleteConfig ==
  /\ config # "gone"
  /\ \A d \in Deliveries : change[d] # "open"
  /\ config' = "gone"
  /\ Remove(Deliveries)
  /\ UNCHANGED <<change, armed, queue, senderVars, batch, askVars, faults, historyVars>>

\* retry_delivery reads the row and refuses one that is pending.
AskRetry(d) ==
  /\ ask = NoAsk
  /\ requeues < MaxRequeues
  /\ status[d] \notin {"absent", "pending"}
  /\ ask' = [row |-> d, attempts |-> attempts[d]]
  /\ requeues' = requeues + 1
  /\ UNCHANGED <<rowVars, callerVars, queue, senderVars, batch, faults, historyVars>>

\* ... and makes it pending, due now, its attempts 0 unless they read 0.  The
\* claim token stays; a row gone meanwhile is an error.
Requeue ==
  LET d == ask.row IN
  /\ d # None
  /\ IF status[d] = "absent" THEN UNCHANGED rowVars
     ELSE /\ status' = [status EXCEPT ![d] = "pending"]
          /\ due' = due \cup {d}
          /\ attempts' = [attempts EXCEPT ![d] = IF ask.attempts = 0 THEN @ ELSE 0]
          /\ UNCHANGED token
  /\ ask' = NoAsk
  /\ UNCHANGED <<callerVars, queue, senderVars, batch, requeues, faults, historyVars>>

---------------------------------------------------------------------------
(* Time and crashes.  A request is short: no back-off ends within one.     *)

\* A back-off ends, or the lease of a sender that died or gave up.
FallDue(d) ==
  /\ status[d] \in Unsettled /\ d \notin due
  /\ ~HolderAlive(d)
  /\ ask = NoAsk
  /\ due' = due \cup {d}
  /\ excused' = IF status[d] = "sending" THEN excused \cup {d} ELSE excused
  /\ UNCHANGED <<status, token, attempts, callerVars, queue, senderVars, batch, askVars, faults, received>>

\* A live sender takes longer than its lease.
Outrun(d) ==
  /\ status[d] \in Unsettled /\ d \notin due
  /\ HolderAlive(d)
  /\ ask = NoAsk
  /\ Fault
  /\ due' = due \cup {d}
  /\ excused' = excused \cup {d}
  /\ UNCHANGED <<status, token, attempts, callerVars, queue, senderVars, batch, askVars, received>>

\* The API process dies: its transactions, its queue, its threads, its requests.
ApiCrash ==
  /\ Fault
  /\ change' = [d \in Deliveries |-> IF change[d] = "open" THEN "none" ELSE change[d]]
  /\ armed' = {}
  /\ queue' = <<>>
  /\ pc' = [s \in Senders |-> IF s = Sweeper THEN pc[s] ELSE "idle"]
  /\ hand' = [s \in Senders |-> IF s = Sweeper THEN hand[s] ELSE None]
  /\ answer' = [s \in Senders |-> IF s = Sweeper THEN answer[s] ELSE FALSE]
  /\ seen' = [s \in Senders |-> IF s = Sweeper THEN seen[s] ELSE NoView]
  /\ ask' = NoAsk
  /\ UNCHANGED <<rowVars, config, batch, requeues, historyVars>>

\* The ingestion worker dies in its sweep and starts again.
SweeperCrash ==
  /\ pc[Sweeper] # "idle"
  /\ Fault
  /\ pc' = [pc EXCEPT ![Sweeper] = "idle"]
  /\ hand' = [hand EXCEPT ![Sweeper] = None]
  /\ answer' = [answer EXCEPT ![Sweeper] = FALSE]
  /\ seen' = [seen EXCEPT ![Sweeper] = NoView]
  /\ batch' = {}
  /\ UNCHANGED <<rowVars, callerVars, queue, askVars, historyVars>>

---------------------------------------------------------------------------

Attempt(s) == Post(s) \/ ReadRow(s) \/ WriteOutcome(s)
SweepStep == SweepEnd \/ \E d \in Deliveries : SweepNext(d)

Next ==
  \/ \E d \in Deliveries : Stage(d) \/ Commit(d) \/ Drain(d) \/ Rollback(d)
  \/ \E t \in Threads : Take(t) \/ TakeFails(t)
  \/ \E s \in Senders : Attempt(s) \/ RecordFails(s)
  \/ SweepBegin \/ SweepStep
  \/ \E d \in Deliveries : Prune(d) \/ AskRetry(d) \/ FallDue(d) \/ Outrun(d)
  \/ SwitchConfig \/ DeleteConfig \/ Requeue
  \/ ApiCrash \/ SweeperCrash

Spec == Init /\ [][Next]_vars

\* The ingestion worker keeps sweeping, a POST ends within its budget, time
\* passes, and a request that has read its row finishes.  The fast path need
\* not take anything from its queue.
Fairness ==
  /\ WF_vars(SweepBegin) /\ WF_vars(SweepStep)
  /\ \A s \in Senders : WF_vars(Attempt(s))
  /\ \A d \in Deliveries : WF_vars(FallDue(d))
  /\ WF_vars(Requeue)

FairSpec == Spec /\ Fairness

---------------------------------------------------------------------------
(* Safety.                                                                 *)

\* "Nothing leaves the process until the caller's work is durable": whatever
\* is rolled back, before or after a crash, is never sent.
NothingForUnmadeChange ==
  \A d \in Deliveries :
    /\ (\E s \in Senders : Handles(s, d)) => change[d] = "committed"
    /\ received[d] > 0 => change[d] = "committed"

\* While its lease runs, a delivery is "claimed by exactly one sender".
OneSenderPerLease ==
  \A d \in Deliveries \ excused : \A s, t \in Senders :
    pc[s] = "post" /\ pc[t] = "post" /\ hand[s] = d /\ hand[t] = d => s = t

\* Fast path and sweep never both deliver a row: the receiver takes a delivery
\* twice only after a lease that ran out, a lost answer or an admin's retry.
DuplicateHasExcuse ==
  \A d \in Deliveries : received[d] > 1 => d \in excused \/ requeues > 0

\* A delivery shown as delivered was taken by the receiver.
DeliveredWasReceived == \A d \in Deliveries : status[d] = "delivered" => received[d] > 0

\* A delivery is given up after max_attempts, or because its webhook was off.
GivesUpWithReason ==
  [][\A d \in Deliveries :
       status[d] # "failed" /\ status'[d] = "failed" =>
         attempts'[d] >= MaxAttempts \/ config = "disabled"]_vars

---------------------------------------------------------------------------
(* Liveness, under FairSpec.                                               *)

\* "This is what turns the outbox from a log into a guarantee": a committed
\* delivery is sent or given up, whatever crashed, overflowed or was lost.
Settles ==
  \A d \in Deliveries : change[d] = "committed" ~> status[d] \notin Unsettled

===========================================================================
