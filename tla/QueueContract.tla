--------------------------- MODULE QueueContract ---------------------------
(***************************************************************************)
(* What a job queue promises whoever submits a job, whatever its workers,  *)
(* its reaper and the API do around the row:                               *)
(*                                                                         *)
(*   - each claim is made under a token no claim had before;               *)
(*   - a result is published only by the attempt that holds the job, or    *)
(*     kept for the attempt that was the last to hold a stopped job;       *)
(*   - a published job is final: it is never run, failed or republished;   *)
(*   - a stopped job never becomes done: it must be queued and held again. *)
(*                                                                         *)
(* A worker's crash, a lease that ages, a heartbeat and a cleanup are no   *)
(* steps of this specification.                                            *)
(***************************************************************************)
EXTENDS Naturals

CONSTANT Jobs

VARIABLES
  phase,   \* phase[j]: absent, parked, waiting, held, done or stopped
  holder,  \* holder[j]: the token of the last claim, 0 once handed back
  result,  \* result[j]: the token of the attempt whose result the job shows, 0 for none
  spent    \* tokens up to this one have been used

vars == <<phase, holder, result, spent>>

Init ==
  /\ phase = [j \in Jobs |-> "absent"]
  /\ holder = [j \in Jobs |-> 0]
  /\ result = [j \in Jobs |-> 0]
  /\ spent = 0

Move(j, from, to) == phase[j] \in from /\ phase'[j] = to
Holds(j, t) == holder'[j] = t
Shows(j, t) == result'[j] = t

---------------------------------------------------------------------------
Same(j) == phase'[j] = phase[j] /\ Holds(j, holder[j]) /\ Shows(j, result[j])

Submit(j) ==
  /\ \/ Move(j, {"absent"}, "parked")
     \/ Move(j, {"absent"}, "waiting")
  /\ Holds(j, 0)
  /\ Shows(j, 0)

Start(j) == Move(j, {"parked", "stopped"}, "waiting") /\ Holds(j, 0) /\ Shows(j, result[j])

Take(j) ==
  /\ spent' > spent
  /\ Move(j, {"waiting"}, "held")
  /\ Holds(j, spent')
  /\ Shows(j, result[j])

Publish(j) == Move(j, {"held"}, "done") /\ Holds(j, holder[j]) /\ Shows(j, holder[j])

HandBack(j) == Move(j, {"held"}, "waiting") /\ Holds(j, 0) /\ Shows(j, result[j])

Stop(j) == Move(j, {"parked", "waiting", "held"}, "stopped") /\ Holds(j, holder[j]) /\ Shows(j, result[j])

\* The attempt that was stopped had finished before it knew.
Keep(j) ==
  /\ Move(j, {"stopped"}, "stopped")
  /\ holder[j] # 0
  /\ result[j] = 0
  /\ Holds(j, holder[j])
  /\ Shows(j, holder[j])

\* The result is deleted by hand; the job stays what it is.
Withdraw(j) == Move(j, {phase[j]}, phase[j]) /\ Holds(j, holder[j]) /\ Shows(j, 0)

\* One transaction: a claim of one job, which may stop jobs that a newer one
\* made needless, or any other move of any of them (the reaper moves several, a
\* deleted result may be shown by several).
Next ==
  \/ \E j \in Jobs : Take(j) /\ \A k \in Jobs \ {j} : Same(k) \/ Stop(k)
  \/ /\ spent' = spent
     /\ \A j \in Jobs : \/ Same(j) \/ Submit(j) \/ Start(j) \/ Publish(j) \/ HandBack(j)
                        \/ Stop(j) \/ Keep(j) \/ Withdraw(j)

Spec == Init /\ [][Next]_vars

===========================================================================
