------------------------ MODULE WebhookOutboxProofs ------------------------
(***************************************************************************)
(* Proofs about WebhookOutbox, for any number of deliveries and threads    *)
(* and any bounds: its variables keep their types, nothing is ever sent    *)
(* for a change that was not committed, no delivery is shown as delivered  *)
(* that the receiver did not take, none is taken twice without an excuse,  *)
(* and none is given up without a reason.                                  *)
(*                                                                         *)
(* That nothing is sent is not inductive: a sender is kept from an         *)
(* uncommitted change only because its row does not exist (RowCommitted),  *)
(* and from a change rolled back later only because what a sender has in   *)
(* hand was claimed as a committed row (HandCommitted).                    *)
(***************************************************************************)
EXTENDS WebhookOutbox, TLAPS

\* Deliveries whose change is durable.
Made == {d \in Deliveries : change[d] = "committed"}

\* A row exists only for a committed change.
RowCommitted == \A d \in Deliveries : status[d] # "absent" => d \in Made

\* What a sender handles was claimed as a row.
HandCommitted ==
  \A s \in Senders : pc[s] \in {"post", "record", "write"} => hand[s] \in Made

\* What the receiver took was in a sender's hand.
ReceivedCommitted == \A d \in Deliveries : received[d] > 0 => d \in Made

IInv == TypeOK /\ RowCommitted /\ HandCommitted /\ ReceivedCommitted

---------------------------------------------------------------------------
(* Initial states, and what the invariant gives.                           *)

\* The initial state satisfies the invariant.
LEMMA InitInv == Init => IInv
  BY SendersAssumption, RowsAssumption, LimitsAssumption
  DEF Init, IInv, TypeOK, RowCommitted, HandCommitted, ReceivedCommitted, Made, Senders,
      RowStatuses, Unsettled, Views, NoView, NoAsk

\* The invariant implies the property.
LEMMA InvGivesProperty == IInv => NothingForUnmadeChange
  BY DEF IInv, NothingForUnmadeChange, HandCommitted, ReceivedCommitted, Handles, Made

\* A claim takes a row, so its delivery is committed; types are kept.
LEMMA ClaimKeeps ==
  ASSUME IInv, NEW s \in Senders, NEW d \in Deliveries, Claim(s, d)
  PROVE  /\ d \in Made
         /\ status' \in [Deliveries -> RowStatuses]
         /\ token' \in [Deliveries -> Senders \cup {None}]
         /\ due' \subseteq Deliveries
         /\ attempts' = attempts /\ answer' = answer /\ seen' = seen
         /\ pc' = [pc EXCEPT ![s] = "post"]
         /\ hand' = [hand EXCEPT ![s] = d]
         /\ \A e \in Deliveries : status'[e] # "absent" => e \in Made
  BY DEF IInv, TypeOK, RowCommitted, Claim, Claimable, RowStatuses, Unsettled, Made

\* Letting go keeps the senders' types and puts nothing into a hand.
LEMMA LetGoKeeps ==
  ASSUME IInv, NEW s \in Senders, LetGo(s)
  PROVE  /\ pc' \in [Senders -> {"idle", "first", "next", "post", "record", "write"}]
         /\ hand' \in [Senders -> Deliveries \cup {None}]
         /\ answer' \in [Senders -> BOOLEAN]
         /\ seen' \in [Senders -> Views]
         /\ \A t \in Senders : pc'[t] \in {"post", "record", "write"} => hand'[t] \in Made
  BY DEF IInv, TypeOK, HandCommitted, LetGo, Rest, Views, NoView, RowStatuses

---------------------------------------------------------------------------
(* Steps.                                                                  *)

\* Every step keeps the invariant.
LEMMA StepInv == IInv /\ [Next]_vars => IInv'
<1> SUFFICES ASSUME IInv, [Next]_vars PROVE IInv'
  OBVIOUS
<1> USE SendersAssumption, RowsAssumption, LimitsAssumption
        DEF IInv, TypeOK, RowCommitted, HandCommitted, ReceivedCommitted, Made
<1>1. CASE UNCHANGED vars
  BY <1>1 DEF vars, rowVars, callerVars, senderVars, askVars, historyVars
<1>2. ASSUME NEW d \in Deliveries, Stage(d) PROVE IInv'
  BY <1>2 DEF Stage, rowVars, callerVars, senderVars, askVars, historyVars
<1>3. ASSUME NEW d \in Deliveries, Commit(d) PROVE IInv'
  BY <1>3 DEF Commit, rowVars, callerVars, senderVars, askVars, historyVars, RowStatuses, Unsettled
<1>4. ASSUME NEW d \in Deliveries, Drain(d) PROVE IInv'
  BY <1>4 DEF Drain, rowVars, callerVars, senderVars, askVars, historyVars
<1>5. ASSUME NEW d \in Deliveries, Rollback(d) PROVE IInv'
  BY <1>5 DEF Rollback, rowVars, callerVars, senderVars, askVars, historyVars
<1>6. ASSUME NEW t \in Threads, Take(t) PROVE IInv'
  <2>1. queue' \in Seq(Deliveries) /\ Head(queue) \in Deliveries /\ t \in Senders
    BY <1>6 DEF Take, Senders
  <2>2. CASE Claim(t, Head(queue))
    <3> DEFINE d == Head(queue)
    <3>1. /\ d \in Made
          /\ status' \in [Deliveries -> RowStatuses]
          /\ token' \in [Deliveries -> Senders \cup {None}]
          /\ due' \subseteq Deliveries
          /\ attempts' = attempts /\ answer' = answer /\ seen' = seen
          /\ pc' = [pc EXCEPT ![t] = "post"]
          /\ hand' = [hand EXCEPT ![t] = d]
          /\ \A e \in Deliveries : status'[e] # "absent" => e \in Made
      BY <2>1, <2>2, ClaimKeeps
    <3>2. UNCHANGED <<callerVars, batch, askVars, faults, historyVars>>
      BY <1>6 DEF Take
    <3> HIDE DEF d
    <3>3. QED
      BY <2>1, <3>1, <3>2 DEF callerVars, askVars, historyVars
  <2>3. CASE UNCHANGED <<rowVars, senderVars>>
    BY <1>6, <2>1, <2>3 DEF Take, rowVars, callerVars, senderVars, askVars, historyVars
  <2>4. QED
    BY <1>6, <2>2, <2>3 DEF Take
<1>7. ASSUME NEW t \in Threads, TakeFails(t) PROVE IInv'
  BY <1>7 DEF TakeFails, rowVars, callerVars, senderVars, askVars, historyVars, Fault
<1>8. ASSUME NEW s \in Senders, Post(s) PROVE IInv'
  BY <1>8 DEF Post, rowVars, callerVars, senderVars, askVars, historyVars
<1>9. ASSUME NEW s \in Senders, ReadRow(s) PROVE IInv'
  <2>1. CASE LetGo(s)
    BY <1>9, <2>1, LetGoKeeps DEF ReadRow, rowVars, callerVars, senderVars, askVars, historyVars
  <2>2. CASE pc' = [pc EXCEPT ![s] = "write"] /\ hand[s] \in Deliveries /\ ~LetGo(s)
    <3>1. [status |-> status[hand[s]], attempts |-> attempts[hand[s]]] \in Views
      BY <2>2 DEF Views
    <3>2. seen' \in [Senders -> Views]
      <4>1. seen' = [seen EXCEPT ![s] = [status |-> status[hand[s]], attempts |-> attempts[hand[s]]]]
        BY <1>9, <2>2 DEF ReadRow
      <4>2. QED
        BY <3>1, <4>1
    <3>3. QED
      BY <1>9, <2>2, <3>2 DEF ReadRow, rowVars, callerVars, senderVars, askVars, historyVars
  <2>3. hand[s] \in Deliveries
    BY <1>9 DEF ReadRow
  <2>4. QED
    BY <1>9, <2>1, <2>2, <2>3 DEF ReadRow
<1>10. ASSUME NEW s \in Senders, WriteOutcome(s) PROVE IInv'
  <2>1. hand[s] \in Made /\ seen[s].attempts \in Nat
    BY <1>10 DEF WriteOutcome, Views
  <2>2. Outcome(answer[s], seen[s].attempts + 1) \in RowStatuses
    BY DEF Outcome, RowStatuses, Unsettled
  <2>3. LetGo(s)
    BY <1>10 DEF WriteOutcome
  <2>4. /\ status' \in [Deliveries -> RowStatuses] /\ token' \in [Deliveries -> Senders \cup {None}]
        /\ attempts' \in [Deliveries -> Nat] /\ due' \subseteq Deliveries
    <3>1. CASE UNCHANGED rowVars
      BY <3>1 DEF rowVars
    <3>2. CASE /\ token' = [token EXCEPT ![hand[s]] = None]
               /\ attempts' = [attempts EXCEPT ![hand[s]] = seen[s].attempts + 1]
               /\ due' = due \ {hand[s]}
               /\ status' = [status EXCEPT ![hand[s]] =
                               IF Outcome(answer[s], seen[s].attempts + 1) = seen[s].status
                                 THEN @ ELSE Outcome(answer[s], seen[s].attempts + 1)]
      BY <2>1, <2>2, <3>2
    <3>3. QED
      BY <1>10, <3>1, <3>2 DEF WriteOutcome
  <2>5. RowCommitted'
    BY <1>10, <2>1 DEF WriteOutcome, rowVars, callerVars
  <2>6. QED
    BY <1>10, <2>3, <2>4, <2>5, LetGoKeeps DEF WriteOutcome, callerVars, askVars, historyVars
<1>11. ASSUME NEW s \in Senders, RecordFails(s) PROVE IInv'
  BY LetGoKeeps, <1>11 DEF RecordFails, rowVars, callerVars, senderVars, askVars, historyVars, Fault
<1>12. CASE SweepBegin
  <2>1. /\ pc' = [pc EXCEPT ![Sweeper] = "first"] /\ Sweeper \in Senders
        /\ UNCHANGED <<callerVars, queue, hand, answer, seen, askVars, faults, historyVars>>
    BY <1>12 DEF SweepBegin, Senders
  <2>2. PICK rows \in SUBSET {d \in Deliveries : Claimable(d)} :
          IF config = "active" THEN batch' = rows /\ UNCHANGED rowVars
          ELSE /\ batch' = {}
               /\ status' = [d \in Deliveries |-> IF d \in rows THEN "failed" ELSE status[d]]
               /\ token' = [d \in Deliveries |-> IF d \in rows THEN None ELSE token[d]]
               /\ due' = due \ rows
               /\ UNCHANGED attempts
    BY <1>12 DEF SweepBegin
  <2>3. /\ batch' \subseteq Deliveries /\ due' \subseteq Deliveries
        /\ attempts' = attempts
        /\ status' \in [Deliveries -> RowStatuses]
        /\ token' \in [Deliveries -> Senders \cup {None}]
        /\ \A d \in Deliveries : status'[d] # "absent" => status[d] # "absent"
    <3>1. CASE config = "active"
      BY <2>2, <3>1 DEF rowVars
    <3>2. CASE config # "active"
      <4>1. rows \subseteq Deliveries /\ "failed" \in RowStatuses
        BY <2>2 DEF RowStatuses
      <4>2. /\ status' \in [Deliveries -> RowStatuses]
            /\ token' \in [Deliveries -> Senders \cup {None}]
        BY <2>2, <3>2, <4>1
      <4>3. \A d \in rows : status[d] # "absent"
        BY <2>2 DEF Claimable, Unsettled
      <4>4. QED
        BY <2>2, <3>2, <4>1, <4>2, <4>3
    <3>3. QED
      BY <3>1, <3>2
  <2>4. QED
    BY <2>1, <2>3 DEF callerVars, askVars, historyVars
<1>13. CASE SweepEnd
  BY <1>13 DEF SweepEnd, rowVars, callerVars, senderVars, askVars, historyVars, Senders
<1>14. ASSUME NEW d \in Deliveries, SweepNext(d) PROVE IInv'
  BY ClaimKeeps, <1>14 DEF SweepNext, rowVars, callerVars, senderVars, askVars, historyVars, Senders
<1>15. ASSUME NEW d \in Deliveries, Prune(d) PROVE IInv'
  BY <1>15 DEF Prune, rowVars, callerVars, senderVars, askVars, historyVars, Remove, RowStatuses
<1>16. ASSUME NEW d \in Deliveries, AskRetry(d) PROVE IInv'
  BY <1>16 DEF AskRetry, rowVars, callerVars, senderVars, askVars, historyVars, NoAsk
<1>17. ASSUME NEW d \in Deliveries, FallDue(d) PROVE IInv'
  BY <1>17 DEF FallDue, rowVars, callerVars, senderVars, askVars, historyVars
<1>18. ASSUME NEW d \in Deliveries, Outrun(d) PROVE IInv'
  BY <1>18 DEF Outrun, rowVars, callerVars, senderVars, askVars, historyVars, Fault
<1>19. CASE SwitchConfig
  BY <1>19 DEF SwitchConfig, rowVars, callerVars, senderVars, askVars, historyVars
<1>20. CASE DeleteConfig
  BY <1>20 DEF DeleteConfig, rowVars, callerVars, senderVars, askVars, historyVars, Remove, RowStatuses
<1>21. CASE Requeue
  <2>1. ask.row \in Deliveries
    BY <1>21 DEF Requeue
  <2>2. /\ status' \in [Deliveries -> RowStatuses] /\ token' = token
        /\ attempts' \in [Deliveries -> Nat] /\ due' \subseteq Deliveries
    <3>1. CASE UNCHANGED rowVars
      BY <3>1 DEF rowVars
    <3>2. CASE /\ status' = [status EXCEPT ![ask.row] = "pending"] /\ token' = token
               /\ due' = due \cup {ask.row}
               /\ attempts' = attempts \/ attempts' = [attempts EXCEPT ![ask.row] = 0]
      BY <2>1, <3>2 DEF RowStatuses, Unsettled
    <3>3. QED
      BY <1>21, <2>1, <3>1, <3>2 DEF Requeue
  <2>3. RowCommitted'
    BY <1>21, <2>1 DEF Requeue, rowVars, callerVars
  <2>4. ask' \in [row : Deliveries \cup {None}, attempts : Nat]
    BY <1>21 DEF Requeue, NoAsk
  <2>5. QED
    BY <1>21, <2>1, <2>2, <2>3, <2>4 DEF Requeue, callerVars, senderVars, historyVars
<1>22. CASE ApiCrash
  <2>1. NoView \in Views /\ NoAsk \in [row : Deliveries \cup {None}, attempts : Nat] /\ <<>> \in Seq(Deliveries)
    BY DEF NoView, Views, NoAsk, RowStatuses
  <2>2. change' \in [Deliveries -> {"none", "open", "committed"}] /\ Made' = Made
    BY <1>22 DEF ApiCrash
  <2>3. /\ pc' \in [Senders -> {"idle", "first", "next", "post", "record", "write"}]
        /\ hand' \in [Senders -> Deliveries \cup {None}]
        /\ answer' \in [Senders -> BOOLEAN]
        /\ seen' \in [Senders -> Views]
    BY <1>22, <2>1 DEF ApiCrash
  <2>4. HandCommitted'
    BY <1>22, <2>2 DEF ApiCrash
  <2>5. TypeOK'
    <3>1. faults' \in 0..MaxFaults
      BY <1>22 DEF ApiCrash, Fault
    <3>2. armed' \subseteq Deliveries /\ queue' \in Seq(Deliveries)
          /\ ask' \in [row : Deliveries \cup {None}, attempts : Nat]
      BY <1>22, <2>1 DEF ApiCrash
    <3>3. UNCHANGED <<rowVars, config, batch, requeues, historyVars>>
      BY <1>22 DEF ApiCrash
    <3>4. QED
      BY <2>2, <2>3, <3>1, <3>2, <3>3 DEF rowVars, historyVars
  <2>6. RowCommitted' /\ ReceivedCommitted'
    BY <1>22, <2>2 DEF ApiCrash, rowVars, historyVars
  <2>7. QED
    BY <2>4, <2>5, <2>6
<1>23. CASE SweeperCrash
  <2>1. NoView \in Views /\ Sweeper \in Senders
    BY DEF NoView, Views, RowStatuses, Senders
  <2>2. QED
    <3>1. /\ pc' \in [Senders -> {"idle", "first", "next", "post", "record", "write"}]
          /\ hand' \in [Senders -> Deliveries \cup {None}]
          /\ answer' \in [Senders -> BOOLEAN]
          /\ seen' \in [Senders -> Views]
      BY <1>23, <2>1 DEF SweeperCrash
    <3>2. UNCHANGED Made /\ HandCommitted'
      BY <1>23, <2>1 DEF SweeperCrash, callerVars
    <3>3. QED
      BY <1>23, <3>1, <3>2 DEF SweeperCrash, Fault, rowVars, callerVars, askVars, historyVars
<1>24. QED
  BY <1>1, <1>2, <1>3, <1>4, <1>5, <1>6, <1>7, <1>8, <1>9, <1>10, <1>11, <1>12, <1>13, <1>14, <1>15, <1>16, <1>17, <1>18, <1>19, <1>20, <1>21, <1>22, <1>23 DEF Next, Attempt, SweepStep

---------------------------------------------------------------------------
(* A delivery shown as delivered was taken by the receiver.  It is shown as*)
(* delivered by a sender that holds an answer, perhaps long after, so the  *)
(* strengthening is about the answers in the senders' hands.               *)

\* Deliveries the receiver took.
Taken == {d \in Deliveries : received[d] > 0}

\* An answer of success was given by the receiver.
AnswerReceived ==
  \A s \in Senders : pc[s] \in {"record", "write"} /\ answer[s] => hand[s] \in Taken

\* DeliveredWasReceived in the words of this proof.
DeliveredReceived == \A d \in Deliveries : status[d] = "delivered" => d \in Taken

ReceiptInv == AnswerReceived /\ DeliveredReceived

\* Initially nothing is answered or delivered.
LEMMA InitReceipt == Init => ReceiptInv
  BY DEF Init, ReceiptInv, AnswerReceived, DeliveredReceived

\* Every step from a state of the invariant keeps the receipts.
LEMMA StepReceipt == IInv /\ ReceiptInv /\ [Next]_vars => ReceiptInv'
<1> SUFFICES ASSUME IInv, ReceiptInv, [Next]_vars PROVE ReceiptInv'
  OBVIOUS
<1> USE SendersAssumption, RowsAssumption
        DEF IInv, TypeOK, ReceiptInv, AnswerReceived, DeliveredReceived, Taken
<1>1. CASE UNCHANGED vars
  BY <1>1 DEF vars, rowVars, senderVars, historyVars
<1>2. ASSUME NEW d \in Deliveries, Stage(d) PROVE ReceiptInv'
  BY <1>2 DEF Stage, rowVars, senderVars, historyVars
<1>3. ASSUME NEW d \in Deliveries, Commit(d) PROVE ReceiptInv'
  BY <1>3 DEF Commit, rowVars, senderVars, historyVars
<1>4. ASSUME NEW d \in Deliveries, Drain(d) PROVE ReceiptInv'
  BY <1>4 DEF Drain, rowVars, senderVars, historyVars
<1>5. ASSUME NEW d \in Deliveries, Rollback(d) PROVE ReceiptInv'
  BY <1>5 DEF Rollback, rowVars, senderVars, historyVars
<1>6. ASSUME NEW t \in Threads, Take(t) PROVE ReceiptInv'
  <2>1. received' = received /\ answer' = answer /\ t \in Senders
    BY <1>6 DEF Take, Claim, senderVars, historyVars, Senders
  <2>2. \/ pc' = [pc EXCEPT ![t] = "post"] /\ hand' = [hand EXCEPT ![t] = Head(queue)]
           /\ status' = [status EXCEPT ![Head(queue)] = "sending"]
        \/ pc' = pc /\ hand' = hand /\ status' = status
    BY <1>6 DEF Take, Claim, rowVars, senderVars
  <2>3. AnswerReceived'
    BY <2>1, <2>2
  <2>4. DeliveredReceived'
    BY <2>1, <2>2
  <2>5. QED
    BY <2>3, <2>4
<1>7. ASSUME NEW t \in Threads, TakeFails(t) PROVE ReceiptInv'
  BY <1>7 DEF TakeFails, rowVars, senderVars, historyVars
<1>8. ASSUME NEW s \in Senders, Post(s) PROVE ReceiptInv'
  <2>1. hand[s] \in Deliveries /\ status' = status
    BY <1>8 DEF Post, rowVars, HandCommitted, Made
  <2>2. PICK took, ok \in BOOLEAN :
          /\ ok => took
          /\ answer' = [answer EXCEPT ![s] = ok]
          /\ received' = [received EXCEPT ![hand[s]] = IF took /\ @ < 2 THEN @ + 1 ELSE @]
    BY <1>8 DEF Post
  <2>3. Taken \subseteq Taken' /\ (took => hand[s] \in Taken')
    <3>1. \A d \in Deliveries : received[d] \in 0..2
      OBVIOUS
    <3>2. received'[hand[s]] \in 0..3 /\ received'[hand[s]] >= received[hand[s]]
          /\ (took => received'[hand[s]] > 0)
      BY <2>1, <2>2, <3>1
    <3>3. \A d \in Deliveries : d # hand[s] => received'[d] = received[d]
      BY <2>2
    <3>4. \A d \in Deliveries : received[d] > 0 => received'[d] > 0
      <4>1. received[hand[s]] > 0 => received'[hand[s]] > 0
        <5>1. received[hand[s]] \in 0..2 /\ received'[hand[s]] \in 0..3
              /\ received'[hand[s]] >= received[hand[s]]
          BY <2>1, <3>1, <3>2
        <5>2. QED
          BY <5>1
      <4>2. QED
        BY <3>3, <4>1
    <3>5. QED
      BY <2>1, <3>2, <3>4
  <2>4. AnswerReceived'
    BY <1>8, <2>2, <2>3 DEF Post
  <2>5. QED
    BY <2>1, <2>3, <2>4
<1>9. ASSUME NEW s \in Senders, ReadRow(s) PROVE ReceiptInv'
  BY <1>9 DEF ReadRow, rowVars, senderVars, historyVars, LetGo, Rest
<1>10. ASSUME NEW s \in Senders, WriteOutcome(s) PROVE ReceiptInv'
  <2>1. hand[s] \in Deliveries /\ Taken' = Taken /\ LetGo(s)
    BY <1>10 DEF WriteOutcome, historyVars, HandCommitted, Made
  <2>2. AnswerReceived'
    BY <2>1 DEF LetGo, Rest
  <2>3. Outcome(answer[s], seen[s].attempts + 1) = "delivered" => hand[s] \in Taken
    BY <1>10 DEF Outcome, WriteOutcome
  <2>4. DeliveredReceived'
    <3>1. CASE UNCHANGED rowVars
      BY <2>1, <3>1 DEF rowVars
    <3>2. CASE status' = [status EXCEPT ![hand[s]] =
                            IF Outcome(answer[s], seen[s].attempts + 1) = seen[s].status
                              THEN @ ELSE Outcome(answer[s], seen[s].attempts + 1)]
      BY <2>1, <2>3, <3>2
    <3>3. QED
      BY <1>10, <3>1, <3>2 DEF WriteOutcome
  <2>5. QED
    BY <2>2, <2>4
<1>11. ASSUME NEW s \in Senders, RecordFails(s) PROVE ReceiptInv'
  BY <1>11 DEF RecordFails, rowVars, senderVars, historyVars, LetGo, Rest
<1>12. CASE SweepBegin
  <2>1. Taken' = Taken /\ AnswerReceived'
    BY <1>12 DEF SweepBegin, historyVars
  <2>2. \A d \in Deliveries : status'[d] = "delivered" => status[d] = "delivered"
    <3>1. CASE UNCHANGED rowVars
      BY <3>1 DEF rowVars
    <3>2. CASE \E rows \in SUBSET Deliveries :
                 status' = [d \in Deliveries |-> IF d \in rows THEN "failed" ELSE status[d]]
      BY <3>2
    <3>3. QED
      BY <1>12, <3>1, <3>2 DEF SweepBegin
  <2>3. QED
    BY <2>1, <2>2
<1>13. CASE SweepEnd
  BY <1>13 DEF SweepEnd, rowVars, senderVars, historyVars
<1>14. ASSUME NEW d \in Deliveries, SweepNext(d) PROVE ReceiptInv'
  <2>1. received' = received /\ answer' = answer /\ Sweeper \in Senders
    BY <1>14 DEF SweepNext, Claim, historyVars, Senders
  <2>2. \/ pc' = [pc EXCEPT ![Sweeper] = "post"] /\ hand' = [hand EXCEPT ![Sweeper] = d]
           /\ status' = [status EXCEPT ![d] = "sending"]
        \/ pc' = [pc EXCEPT ![Sweeper] = "next"] /\ hand' = hand /\ status' = status
    BY <1>14 DEF SweepNext, Claim, rowVars
  <2>3. AnswerReceived'
    <3>1. \A s \in Senders : pc'[s] \in {"record", "write"} =>
            s # Sweeper /\ pc'[s] = pc[s] /\ hand'[s] = hand[s]
      BY <2>1, <2>2
    <3>2. QED
      BY <2>1, <3>1
  <2>4. DeliveredReceived'
    BY <2>1, <2>2
  <2>5. QED
    BY <2>3, <2>4
<1>15. ASSUME NEW d \in Deliveries, Prune(d) PROVE ReceiptInv'
  BY <1>15 DEF Prune, rowVars, senderVars, historyVars, Remove
<1>16. ASSUME NEW d \in Deliveries, AskRetry(d) PROVE ReceiptInv'
  BY <1>16 DEF AskRetry, rowVars, senderVars, historyVars
<1>17. ASSUME NEW d \in Deliveries, FallDue(d) PROVE ReceiptInv'
  BY <1>17 DEF FallDue, rowVars, senderVars, historyVars
<1>18. ASSUME NEW d \in Deliveries, Outrun(d) PROVE ReceiptInv'
  BY <1>18 DEF Outrun, rowVars, senderVars, historyVars
<1>19. CASE SwitchConfig
  BY <1>19 DEF SwitchConfig, rowVars, senderVars, historyVars
<1>20. CASE DeleteConfig
  BY <1>20 DEF DeleteConfig, rowVars, senderVars, historyVars, Remove
<1>21. CASE Requeue
  <2>1. Taken' = Taken /\ AnswerReceived'
    BY <1>21 DEF Requeue, senderVars, historyVars
  <2>2. \A d \in Deliveries : status'[d] = "delivered" => status[d] = "delivered"
    BY <1>21 DEF Requeue, rowVars
  <2>3. QED
    BY <2>1, <2>2
<1>22. CASE ApiCrash
  <2>1. Taken' = Taken /\ status' = status
    BY <1>22 DEF ApiCrash, rowVars, historyVars
  <2>2. AnswerReceived'
    BY <1>22, <2>1 DEF ApiCrash
  <2>3. QED
    BY <2>1, <2>2
<1>23. CASE SweeperCrash
  BY <1>23 DEF SweeperCrash, rowVars, senderVars, historyVars, Senders
<1>24. QED
  BY <1>1, <1>2, <1>3, <1>4, <1>5, <1>6, <1>7, <1>8, <1>9, <1>10, <1>11, <1>12, <1>13, <1>14, <1>15, <1>16, <1>17, <1>18, <1>19, <1>20, <1>21, <1>22, <1>23 DEF Next, Attempt, SweepStep

---------------------------------------------------------------------------
(* The receiver takes a delivery twice only with an excuse.  Until a lease *)
(* runs out, an answer is lost or an admin retries, whoever has a delivery *)
(* in hand is alone with it and its row is made out to him and not due     *)
(* (OnlyHolder, Alone); an attempt the receiver took ends in a row that    *)
(* nobody may claim (Unsent, SentOnce).                                    *)

\* A sender with d in hand holds its row, unless the row was deleted.
OnlyHolder(d) ==
  \A s \in Senders : Handles(s, d) =>
    \/ status[d] = "absent"
    \/ token[d] = s /\ status[d] = "sending" /\ d \notin due

\* No two senders have d in hand.
Alone(d) == \A s, t \in Senders : Handles(s, d) /\ Handles(t, d) => s = t

\* A row made out to a sender is not due.
Leased(d) == status[d] = "sending" => d \notin due

\* Before its POST the receiver has nothing; after it, what the receiver took
\* was answered, and the answer will be written over a row seen as sending.
Unsent(d) ==
  \A s \in Senders : Handles(s, d) =>
    /\ pc[s] = "post" => received[d] = 0
    /\ pc[s] # "post" /\ received[d] > 0 => answer[s]
    /\ pc[s] = "write" => seen[s].status = "sending"

\* The receiver has d at most once, and then its row does not wait for a sender.
SentOnce(d) == received[d] <= 1 /\ (received[d] > 0 => status[d] # "pending")

Clean(d) == OnlyHolder(d) /\ Alone(d) /\ Leased(d) /\ Unsent(d) /\ SentOnce(d)

OnceInv ==
  requeues = 0 => ask.row = None /\ \A d \in Deliveries \ excused : Clean(d)

\* A step that leaves d's row, its receipts and the senders alone.
LEMMA OthersClean ==
  ASSUME NEW d \in Deliveries, Clean(d), UNCHANGED senderVars,
         status'[d] = status[d], token'[d] = token[d], d \in due' => d \in due,
         received' = received
  PROVE  Clean(d)'
  BY DEF Clean, OnlyHolder, Alone, Leased, Unsent, SentOnce, Handles, senderVars

\* A row that is deleted or settled is nobody's to claim.
LEMMA SettledClean ==
  ASSUME NEW d \in Deliveries, Clean(d), UNCHANGED senderVars, received' = received,
         \/ status'[d] = "absent"
         \/ status'[d] = "failed" /\ \A s \in Senders : ~Handles(s, d)
  PROVE  Clean(d)'
  BY DEF Clean, OnlyHolder, Alone, Leased, Unsent, SentOnce, Handles, senderVars

\* Who puts a delivery down leaves the others' hands as they are.
LEMMA DownClean ==
  ASSUME NEW d \in Deliveries, Clean(d),
         \A s \in Senders : \/ /\ pc'[s] = pc[s] /\ hand'[s] = hand[s]
                               /\ answer'[s] = answer[s] /\ seen'[s] = seen[s]
                            \/ pc'[s] \notin {"post", "record", "write"},
         UNCHANGED <<rowVars, received>>
  PROVE  Clean(d)'
<1>1. \A s \in Senders : Handles(s, d)' =>
        Handles(s, d) /\ pc'[s] = pc[s] /\ answer'[s] = answer[s] /\ seen'[s] = seen[s]
  BY DEF Handles
<1>2. status' = status /\ token' = token /\ due' = due /\ received' = received
  BY DEF rowVars
<1>3. QED
  BY <1>1, <1>2 DEF Clean, OnlyHolder, Alone, Leased, Unsent, SentOnce

\* Letting go is putting down.
LEMMA LetGoDown ==
  ASSUME IInv, NEW s \in Senders, LetGo(s)
  PROVE  \A t \in Senders : \/ /\ pc'[t] = pc[t] /\ hand'[t] = hand[t]
                               /\ answer'[t] = answer[t] /\ seen'[t] = seen[t]
                            \/ pc'[t] \notin {"post", "record", "write"}
  BY DEF IInv, TypeOK, LetGo, Rest

\* A claim takes a row that nobody has in hand and the receiver never saw.
LEMMA ClaimClean ==
  ASSUME IInv, NEW s \in Senders, NEW d \in Deliveries, Claim(s, d),
         pc[s] \notin {"post", "record", "write"}, received' = received,
         NEW e \in Deliveries, Clean(e)
  PROVE  Clean(e)'
<1> USE DEF IInv, TypeOK
<1>1. /\ pc' = [pc EXCEPT ![s] = "post"] /\ hand' = [hand EXCEPT ![s] = d]
      /\ answer' = answer /\ seen' = seen
      /\ status' = [status EXCEPT ![d] = "sending"] /\ token' = [token EXCEPT ![d] = s]
      /\ due' = due \ {d}
  BY DEF Claim
<1>2. CASE e = d
  <2>1. status[d] = "pending" /\ d \in due
    BY <1>2 DEF Claim, Claimable, Unsettled, Clean, Leased
  <2>2. \A t \in Senders : ~Handles(t, d)
    BY <1>2, <2>1 DEF Clean, OnlyHolder
  <2>3. received[d] = 0
    <3>1. received[d] \in 0..2 /\ ~(received[d] > 0)
      BY <1>2, <2>1 DEF Clean, SentOnce
    <3>2. QED
      BY <3>1
  <2>4. \A t \in Senders : Handles(t, d)' => t = s
    BY <1>1, <2>2 DEF Handles
  <2>5. pc'[s] = "post" /\ status'[d] = "sending" /\ token'[d] = s /\ d \notin due' /\ received'[d] = 0
    BY <1>1, <2>3
  <2>6. QED
    BY <1>2, <2>4, <2>5 DEF Clean, OnlyHolder, Alone, Leased, Unsent, SentOnce
<1>3. CASE e # d
  <2>1. \A t \in Senders : Handles(t, e)' => Handles(t, e) /\ pc'[t] = pc[t]
    BY <1>1, <1>3 DEF Handles
  <2>2. status'[e] = status[e] /\ token'[e] = token[e] /\ (e \in due' => e \in due)
    BY <1>1, <1>3
  <2>3. QED
    BY <1>1, <2>1, <2>2 DEF Clean, OnlyHolder, Alone, Leased, Unsent, SentOnce
<1>4. QED
  BY <1>2, <1>3

\* The POST of the one sender a delivery has: taken and answered, not taken, or
\* excused.
LEMMA PostClean ==
  ASSUME IInv, NEW s \in Senders, Post(s), NEW e \in Deliveries, e \notin excused', Clean(e)
  PROVE  Clean(e)'
<1> USE DEF IInv, TypeOK
<1>1. PICK took, ok \in BOOLEAN :
        /\ ok => took
        /\ answer' = [answer EXCEPT ![s] = ok]
        /\ received' = [received EXCEPT ![hand[s]] = IF took /\ @ < 2 THEN @ + 1 ELSE @]
        /\ excused' = IF took /\ ~ok THEN excused \cup {hand[s]} ELSE excused
  BY DEF Post
<1>2. /\ pc[s] = "post" /\ pc' = [pc EXCEPT ![s] = "record"] /\ hand' = hand /\ seen' = seen
      /\ status' = status /\ token' = token /\ due' = due /\ hand[s] \in Deliveries
  BY DEF Post, rowVars, HandCommitted, Made
<1>3. \A t \in Senders : Handles(t, e)' <=> Handles(t, e)
  BY <1>2 DEF Handles
<1>4. CASE hand[s] = e
  <2>1. Handles(s, e)
    BY <1>2, <1>4 DEF Handles
  <2>2. received[e] = 0 /\ \A t \in Senders : Handles(t, e) => t = s
    BY <1>2, <2>1 DEF Clean, Unsent, Alone
  <2>3. took => ok
    BY <1>1, <1>4
  <2>4. received'[e] = IF took THEN 1 ELSE 0
    BY <1>1, <1>4, <2>2
  <2>5. pc'[s] = "record" /\ answer'[s] = ok
    BY <1>1, <1>2
  <2>6. status[e] # "pending"
    BY <2>1 DEF Clean, OnlyHolder
  <2>7. Unsent(e)'
    BY <1>3, <2>2, <2>3, <2>4, <2>5 DEF Unsent
  <2>8. SentOnce(e)'
    BY <1>2, <2>4, <2>6 DEF SentOnce
  <2>9. QED
    BY <1>2, <1>3, <2>7, <2>8 DEF Clean, OnlyHolder, Alone, Leased
<1>5. CASE hand[s] # e
  <2>1. received'[e] = received[e]
    BY <1>1, <1>5
  <2>2. \A t \in Senders : Handles(t, e) => t # s
    BY <1>5 DEF Handles
  <2>3. \A t \in Senders : t # s => pc'[t] = pc[t] /\ answer'[t] = answer[t] /\ seen'[t] = seen[t]
    BY <1>1, <1>2
  <2>4. Unsent(e)'
    BY <1>3, <2>1, <2>2, <2>3 DEF Clean, Unsent
  <2>5. QED
    BY <1>2, <1>3, <2>1, <2>4 DEF Clean, OnlyHolder, Alone, Leased, SentOnce
<1>6. QED
  BY <1>4, <1>5

\* The writer that holds the row settles it or makes it wait, as answered.
LEMMA WriteClean ==
  ASSUME IInv, NEW s \in Senders, WriteOutcome(s), NEW e \in Deliveries, Clean(e)
  PROVE  Clean(e)'
<1> USE DEF IInv, TypeOK
<1> DEFINE n == seen[s].attempts + 1
           outcome == Outcome(answer[s], n)
<1>1. /\ pc[s] = "write" /\ hand[s] \in Deliveries /\ received' = received /\ LetGo(s)
  BY DEF WriteOutcome, historyVars, HandCommitted, Made
<1>2. \A t \in Senders : Handles(t, e)' =>
        t # s /\ Handles(t, e) /\ pc'[t] = pc[t] /\ answer'[t] = answer[t] /\ seen'[t] = seen[t]
  BY <1>1 DEF LetGo, Rest, Handles
<1>3. CASE UNCHANGED rowVars
  BY <1>1, <1>3, LetGoDown, DownClean
<1>4. CASE ~UNCHANGED rowVars
  <2>1. /\ status' = [status EXCEPT ![hand[s]] = IF outcome = seen[s].status THEN @ ELSE outcome]
        /\ token' = [token EXCEPT ![hand[s]] = None]
        /\ due' = due \ {hand[s]}
        /\ status[hand[s]] # "absent"
    BY <1>4 DEF WriteOutcome
  <2>2. CASE hand[s] = e
    <3>1. Handles(s, e)
      BY <1>1, <2>2 DEF Handles
    <3>2. seen[s].status = "sending" /\ (received[e] > 0 => answer[s])
          /\ \A t \in Senders : Handles(t, e) => t = s
      BY <1>1, <3>1 DEF Clean, Unsent, Alone
    <3>3. outcome \in {"delivered", "failed", "pending"} /\ (answer[s] => outcome = "delivered")
      BY DEF Outcome
    <3>4. status'[e] = outcome
      BY <2>1, <2>2, <3>2, <3>3
    <3>5. \A t \in Senders : ~Handles(t, e)'
      BY <1>2, <3>2
    <3>6. SentOnce(e)'
      BY <1>1, <3>2, <3>3, <3>4 DEF Clean, SentOnce
    <3>7. QED
      BY <3>3, <3>4, <3>5, <3>6 DEF Clean, OnlyHolder, Alone, Leased, Unsent
  <2>3. CASE hand[s] # e
    <3>1. status'[e] = status[e] /\ token'[e] = token[e] /\ (e \in due' => e \in due)
      BY <2>1, <2>3
    <3>2. QED
      BY <1>1, <1>2, <3>1 DEF Clean, OnlyHolder, Alone, Leased, Unsent, SentOnce
  <2>4. QED
    BY <2>2, <2>3
<1>5. QED
  BY <1>3, <1>4

\* Reading the row keeps what is known of it.
LEMMA ReadClean ==
  ASSUME IInv, NEW s \in Senders, ReadRow(s), NEW e \in Deliveries, Clean(e)
  PROVE  Clean(e)'
<1> USE DEF IInv, TypeOK
<1>1. UNCHANGED <<rowVars, received>>
  BY DEF ReadRow, historyVars
<1>2. CASE LetGo(s)
  BY <1>1, <1>2, LetGoDown, DownClean
<1>3. CASE ~LetGo(s)
  <2>1. /\ pc[s] = "record" /\ status[hand[s]] # "absent"
        /\ pc' = [pc EXCEPT ![s] = "write"] /\ hand' = hand /\ answer' = answer
        /\ seen' = [seen EXCEPT ![s] = [status |-> status[hand[s]], attempts |-> attempts[hand[s]]]]
    BY <1>3 DEF ReadRow
  <2>2. \A t \in Senders : Handles(t, e)' <=> Handles(t, e)
    BY <2>1 DEF Handles
  <2>3. Handles(s, e) => status[e] = "sending" /\ seen'[s].status = "sending"
    BY <2>1 DEF Clean, OnlyHolder, Handles
  <2>4. \A t \in Senders : t # s => pc'[t] = pc[t] /\ seen'[t] = seen[t]
    BY <2>1
  <2>5. pc[s] # "post" /\ pc'[s] # "post"
    BY <2>1
  <2>6. received' = received /\ status' = status /\ token' = token /\ due' = due
    BY <1>1 DEF rowVars
  <2>7. Unsent(e)'
    BY <2>1, <2>2, <2>3, <2>4, <2>5, <2>6 DEF Clean, Unsent
  <2>8. QED
    BY <2>2, <2>6, <2>7 DEF Clean, OnlyHolder, Alone, Leased, SentOnce
<1>4. QED
  BY <1>2, <1>3

\* A commit makes a row for a change nobody sent.
LEMMA CommitClean ==
  ASSUME IInv, NEW d \in Deliveries, Commit(d), NEW e \in Deliveries, Clean(e)
  PROVE  Clean(e)'
<1> USE DEF IInv, TypeOK
<1>1. /\ change[d] = "open" /\ status' = [status EXCEPT ![d] = "pending"] /\ due' = due \cup {d}
      /\ token' = token /\ UNCHANGED senderVars /\ received' = received
  BY DEF Commit, historyVars
<1>2. CASE e = d
  <2>1. received[e] = 0 /\ \A s \in Senders : ~Handles(s, e)
    <3>1. received[e] \in 0..2 /\ ~(received[e] > 0)
      BY <1>1, <1>2 DEF ReceivedCommitted, Made
    <3>2. \A s \in Senders : ~Handles(s, e)
      BY <1>1, <1>2 DEF HandCommitted, Made, Handles
    <3>3. QED
      BY <3>1, <3>2
  <2>2. QED
    BY <1>1, <1>2, <2>1 DEF Clean, OnlyHolder, Alone, Leased, Unsent, SentOnce, Handles, senderVars
<1>3. CASE e # d
  BY <1>1, <1>3, OthersClean
<1>4. QED
  BY <1>2, <1>3

\* The sweep of a disabled webhook settles rows nobody has in hand.
LEMMA SweepBeginClean ==
  ASSUME IInv, SweepBegin, NEW e \in Deliveries, Clean(e)
  PROVE  Clean(e)'
<1> USE DEF IInv, TypeOK
<1>1. /\ pc' = [pc EXCEPT ![Sweeper] = "first"]
      /\ hand' = hand /\ answer' = answer /\ seen' = seen /\ received' = received
  BY DEF SweepBegin, historyVars
<1>2. \A s \in Senders : Handles(s, e)' =>
        Handles(s, e) /\ pc'[s] = pc[s] /\ answer'[s] = answer[s] /\ seen'[s] = seen[s]
  BY <1>1 DEF Handles
<1>3. \/ status'[e] = status[e] /\ token'[e] = token[e] /\ (e \in due' <=> e \in due)
      \/ Claimable(e) /\ status'[e] = "failed"
  <2>1. PICK rows \in SUBSET {d \in Deliveries : Claimable(d)} :
          IF config = "active" THEN batch' = rows /\ UNCHANGED rowVars
          ELSE /\ batch' = {}
               /\ status' = [d \in Deliveries |-> IF d \in rows THEN "failed" ELSE status[d]]
               /\ token' = [d \in Deliveries |-> IF d \in rows THEN None ELSE token[d]]
               /\ due' = due \ rows
               /\ UNCHANGED attempts
    BY DEF SweepBegin
  <2>2. CASE config = "active"
    BY <2>1, <2>2 DEF rowVars
  <2>3. CASE config # "active"
    BY <2>1, <2>3
  <2>4. QED
    BY <2>2, <2>3
<1>4. CASE status'[e] = status[e] /\ token'[e] = token[e] /\ (e \in due' <=> e \in due)
  BY <1>1, <1>2, <1>4 DEF Clean, OnlyHolder, Alone, Leased, Unsent, SentOnce
<1>5. CASE Claimable(e) /\ status'[e] = "failed"
  <2>1. \A s \in Senders : ~Handles(s, e)
    BY <1>5 DEF Clean, OnlyHolder, Claimable, Unsettled
  <2>2. QED
    BY <1>1, <1>2, <1>5, <2>1 DEF Clean, OnlyHolder, Alone, Leased, Unsent, SentOnce
<1>6. QED
  BY <1>3, <1>4, <1>5

\* Initially nothing was sent.
LEMMA InitOnce == Init => OnceInv
  BY DEF Init, OnceInv, Clean, OnlyHolder, Alone, Leased, Unsent, SentOnce, Handles, NoAsk

\* Every step from a state of the invariant keeps it.
LEMMA StepOnce == IInv /\ OnceInv /\ [Next]_vars => OnceInv'
<1> SUFFICES ASSUME IInv, OnceInv, [Next]_vars, requeues' = 0
             PROVE  ask'.row = None /\ \A d \in Deliveries \ excused' : Clean(d)'
  BY DEF OnceInv
<1> USE SendersAssumption, RowsAssumption
<1>0. requeues = 0 /\ excused \subseteq excused' /\ requeues \in Nat
  <2>1. requeues \in 0..MaxRequeues
    BY DEF IInv, TypeOK
  <2>2. \A d \in Deliveries : ~AskRetry(d)
    BY <2>1, LimitsAssumption DEF AskRetry
  <2>3. UNCHANGED requeues
    BY <2>2 DEF Next, vars, Attempt, SweepStep, Stage, Commit, Drain, Rollback, Take, TakeFails, Post, ReadRow, WriteOutcome, RecordFails, SweepBegin, SweepEnd, SweepNext, Prune, FallDue, Outrun, SwitchConfig, DeleteConfig, Requeue, ApiCrash, SweeperCrash, askVars
  <2>4. excused \subseteq excused'
    BY DEF Next, vars, Attempt, SweepStep, Stage, Commit, Drain, Rollback, Take, TakeFails, Post, ReadRow, WriteOutcome, RecordFails, SweepBegin, SweepEnd, SweepNext, Prune, AskRetry, FallDue, Outrun, SwitchConfig, DeleteConfig, Requeue, ApiCrash, SweeperCrash, historyVars
  <2>5. QED
    BY <2>1, <2>3, <2>4, LimitsAssumption
<1>1. ask.row = None /\ ask'.row = None
  <2>1. ask.row = None /\ \A d \in Deliveries : ~AskRetry(d)
    BY <1>0 DEF OnceInv, AskRetry
  <2>2. ask' = ask \/ ask' = NoAsk
    BY <2>1 DEF Next, vars, Attempt, SweepStep, Stage, Commit, Drain, Rollback, Take, TakeFails, Post, ReadRow, WriteOutcome, RecordFails, SweepBegin, SweepEnd, SweepNext, Prune, FallDue, Outrun, SwitchConfig, DeleteConfig, Requeue, ApiCrash, SweeperCrash, askVars
  <2>3. QED
    BY <2>1, <2>2 DEF NoAsk
<1> SUFFICES ASSUME NEW e \in Deliveries, e \notin excused' PROVE Clean(e)'
  BY <1>1
<1>c. Clean(e) /\ e \notin excused
  BY <1>0 DEF OnceInv
<1>2. ASSUME NEW d \in Deliveries, Stage(d) \/ Drain(d) \/ Rollback(d) PROVE Clean(e)'
  BY <1>c, <1>2, OthersClean DEF Stage, Drain, Rollback, rowVars, historyVars
<1>3. ASSUME NEW d \in Deliveries, Commit(d) PROVE Clean(e)'
  BY <1>c, <1>3, CommitClean
<1>4. ASSUME NEW t \in Threads, Take(t) PROVE Clean(e)'
  <2>1. t \in Senders /\ pc[t] = "idle" /\ Head(queue) \in Deliveries /\ received' = received
    BY <1>4 DEF Take, Senders, IInv, TypeOK, historyVars
  <2>2. CASE Claim(t, Head(queue))
    BY <1>c, <2>1, <2>2, ClaimClean
  <2>3. CASE UNCHANGED <<rowVars, senderVars>>
    BY <1>c, <2>1, <2>3, OthersClean DEF rowVars
  <2>4. QED
    BY <1>4, <2>2, <2>3 DEF Take
<1>5. ASSUME NEW t \in Threads, TakeFails(t) PROVE Clean(e)'
  BY <1>c, <1>5, OthersClean DEF TakeFails, rowVars, historyVars
<1>6. ASSUME NEW s \in Senders, Attempt(s) PROVE Clean(e)'
  BY <1>c, <1>6, PostClean, ReadClean, WriteClean DEF Attempt
<1>7. ASSUME NEW s \in Senders, RecordFails(s) PROVE Clean(e)'
  <2>1. LetGo(s) /\ UNCHANGED <<rowVars, received>>
    BY <1>7 DEF RecordFails, historyVars
  <2>2. QED
    BY <1>c, <2>1, LetGoDown, DownClean
<1>8. CASE SweepBegin
  BY <1>c, <1>8, SweepBeginClean
<1>9. CASE SweepStep
  <2>1. CASE SweepEnd
    <3>1. /\ \A s \in Senders : \/ /\ pc'[s] = pc[s] /\ hand'[s] = hand[s]
                                   /\ answer'[s] = answer[s] /\ seen'[s] = seen[s]
                                \/ pc'[s] \notin {"post", "record", "write"}
          /\ UNCHANGED <<rowVars, received>>
      BY <2>1 DEF SweepEnd, IInv, TypeOK, historyVars
    <3>2. QED
      BY <1>c, <3>1, DownClean
  <2>2. ASSUME NEW d \in Deliveries, SweepNext(d) PROVE Clean(e)'
    <3>1. Sweeper \in Senders /\ pc[Sweeper] \notin {"post", "record", "write"} /\ received' = received
      BY <2>2 DEF SweepNext, Senders, historyVars
    <3>2. CASE Claim(Sweeper, d)
      BY <1>c, <3>1, <3>2, ClaimClean
    <3>3. CASE ~Claim(Sweeper, d)
      <4>1. /\ \A s \in Senders : \/ /\ pc'[s] = pc[s] /\ hand'[s] = hand[s]
                                     /\ answer'[s] = answer[s] /\ seen'[s] = seen[s]
                                  \/ pc'[s] \notin {"post", "record", "write"}
            /\ UNCHANGED <<rowVars, received>>
        BY <2>2, <3>1, <3>3 DEF SweepNext, IInv, TypeOK
      <4>2. QED
        BY <1>c, <4>1, DownClean
    <3>4. QED
      BY <3>2, <3>3
  <2>3. QED
    BY <1>9, <2>1, <2>2 DEF SweepStep
<1>10. ASSUME NEW d \in Deliveries, Prune(d) PROVE Clean(e)'
  <2>1. UNCHANGED senderVars /\ received' = received
        /\ (status'[e] = "absent"
              \/ (status'[e] = status[e] /\ token'[e] = token[e] /\ due' \subseteq due))
    BY <1>10 DEF Prune, Remove, historyVars
  <2>2. QED
    BY <1>c, <2>1, OthersClean, SettledClean
<1>11. ASSUME NEW d \in Deliveries, AskRetry(d) PROVE Clean(e)'
  BY <1>c, <1>11, OthersClean DEF AskRetry, rowVars, historyVars
<1>12. ASSUME NEW d \in Deliveries, FallDue(d) \/ Outrun(d) PROVE Clean(e)'
  <2>1. UNCHANGED senderVars /\ status' = status /\ token' = token /\ received' = received
        /\ due' = due \cup {d}
    BY <1>12 DEF FallDue, Outrun
  <2>2. CASE e # d
    BY <1>c, <2>1, <2>2, OthersClean
  <2>3. CASE e = d
    <3>1. status[e] = "pending"
      BY <1>12, <2>3 DEF FallDue, Outrun, Unsettled
    <3>2. \A s \in Senders : ~Handles(s, e)
      BY <1>c, <3>1 DEF Clean, OnlyHolder
    <3>3. QED
      BY <1>c, <2>1, <3>1, <3>2 DEF Clean, OnlyHolder, Alone, Leased, Unsent, SentOnce, Handles, senderVars
  <2>4. QED
    BY <2>2, <2>3
<1>13. CASE SwitchConfig
  BY <1>c, <1>13, OthersClean DEF SwitchConfig, rowVars, historyVars
<1>14. CASE DeleteConfig
  BY <1>c, <1>14, SettledClean DEF DeleteConfig, Remove, historyVars
<1>15. ~Requeue
  BY <1>1 DEF Requeue
<1>16. CASE ApiCrash \/ SweeperCrash
  <2>1. /\ \A s \in Senders : \/ /\ pc'[s] = pc[s] /\ hand'[s] = hand[s]
                                 /\ answer'[s] = answer[s] /\ seen'[s] = seen[s]
                              \/ pc'[s] \notin {"post", "record", "write"}
        /\ UNCHANGED <<rowVars, received>>
    <3>1. CASE ApiCrash
      BY <3>1 DEF ApiCrash, historyVars
    <3>2. CASE SweeperCrash
      BY <3>2 DEF SweeperCrash, IInv, TypeOK, historyVars, Senders
    <3>3. QED
      BY <1>16, <3>1, <3>2
  <2>2. QED
    BY <1>c, <2>1, DownClean
<1>17. CASE UNCHANGED vars
  BY <1>c, <1>17, OthersClean DEF vars, rowVars, historyVars
<1>18. QED
  BY <1>2, <1>3, <1>4, <1>5, <1>6, <1>7, <1>8, <1>9, <1>10, <1>11, <1>12, <1>13, <1>14, <1>15, <1>16, <1>17 DEF Next

---------------------------------------------------------------------------
(* A deleted webhook has no rows, so what the sweep gives up unsent is of a *)
(* disabled one.                                                            *)

GoneInv == config = "gone" => \A d \in Deliveries : status[d] = "absent" /\ change[d] # "open"

\* Every step keeps a deleted webhook without rows.
LEMMA StepGone == IInv /\ GoneInv /\ [Next]_vars => GoneInv'
<1> SUFFICES ASSUME IInv, GoneInv, [Next]_vars, config' = "gone", NEW e \in Deliveries
             PROVE  status'[e] = "absent" /\ change'[e] # "open"
  BY DEF GoneInv
<1> USE DEF IInv, TypeOK
<1>1. CASE DeleteConfig
  BY <1>1 DEF DeleteConfig, Remove
<1>2. CASE ~DeleteConfig
  <2>1. config = "gone"
    BY <1>2 DEF Next, vars, Attempt, SweepStep, Stage, Commit, Drain, Rollback, Take, TakeFails, Post, ReadRow, WriteOutcome, RecordFails, SweepBegin, SweepEnd, SweepNext, Prune, AskRetry, FallDue, Outrun, SwitchConfig, Requeue, ApiCrash, SweeperCrash, callerVars
  <2>2. \A d \in Deliveries : status[d] = "absent" /\ change[d] # "open" /\ ~Claimable(d)
    BY <2>1 DEF GoneInv, Claimable, Unsettled
  <2>3. \A d \in Deliveries : ~Stage(d) /\ ~Commit(d) /\ ~Rollback(d) /\ ~Prune(d)
                               /\ \A s \in Senders : ~Claim(s, d)
    BY <2>1, <2>2 DEF Stage, Commit, Rollback, Prune, Claim
  <2>4. ~SweepBegin
    <3>1. SUFFICES ASSUME SweepBegin PROVE FALSE
      OBVIOUS
    <3>2. PICK rows \in SUBSET {d \in Deliveries : Claimable(d)} : rows # {}
      BY <3>1 DEF SweepBegin
    <3>3. QED
      BY <2>2, <3>2
  <2>5. \A s \in Senders : WriteOutcome(s) => UNCHANGED rowVars
    BY <2>2 DEF WriteOutcome, HandCommitted, Made
  <2>6. Requeue => UNCHANGED rowVars
    BY <2>2 DEF Requeue
  <2>7. \A t \in Threads : Take(t) => UNCHANGED <<rowVars, change>>
    BY <2>3 DEF Take, Senders, callerVars
  <2>8. \A d \in Deliveries : SweepNext(d) => UNCHANGED <<rowVars, change>>
    BY <2>3 DEF SweepNext, Senders, callerVars
  <2>9. status' = status /\ (change' = change \/ ApiCrash)
    BY <1>2, <2>3, <2>4, <2>5, <2>6, <2>7, <2>8 DEF Next, vars, Attempt, SweepStep, Drain, TakeFails, Post, ReadRow, WriteOutcome, RecordFails, SweepEnd, AskRetry, FallDue, Outrun, SwitchConfig, Requeue, ApiCrash, SweeperCrash, callerVars, rowVars
  <2>10. change'[e] # "open"
    BY <2>2, <2>9 DEF ApiCrash
  <2>11. QED
    BY <2>2, <2>9, <2>10
<1>3. QED
  BY <1>1, <1>2

\* A step that gives a delivery up does so on its last attempt, or as the sweep
\* of a disabled webhook.
LEMMA StepGivesUp ==
  ASSUME IInv, GoneInv, [Next]_vars, NEW e \in Deliveries,
         status[e] # "failed", status'[e] = "failed"
  PROVE  attempts'[e] >= MaxAttempts \/ config = "disabled"
<1> USE DEF IInv, TypeOK
<1>1. ASSUME NEW s \in Senders, WriteOutcome(s) PROVE attempts'[e] >= MaxAttempts
  <2>1. hand[s] \in Deliveries /\ ~UNCHANGED rowVars
    BY <1>1 DEF WriteOutcome, HandCommitted, Made, rowVars
  <2>2. /\ status' = [status EXCEPT ![hand[s]] =
                        IF Outcome(answer[s], seen[s].attempts + 1) = seen[s].status
                          THEN @ ELSE Outcome(answer[s], seen[s].attempts + 1)]
        /\ attempts' = [attempts EXCEPT ![hand[s]] = seen[s].attempts + 1]
    BY <1>1, <2>1 DEF WriteOutcome
  <2>3. e = hand[s] /\ Outcome(answer[s], seen[s].attempts + 1) = "failed"
    BY <2>1, <2>2
  <2>4. seen[s].attempts + 1 >= MaxAttempts
    BY <2>3 DEF Outcome
  <2>5. QED
    BY <2>2, <2>3, <2>4
<1>2. CASE SweepBegin
  <2>1. config # "active"
    BY <1>2 DEF SweepBegin, rowVars
  <2>2. PICK rows \in SUBSET {d \in Deliveries : Claimable(d)} : rows # {}
    BY <1>2 DEF SweepBegin
  <2>3. \E d \in Deliveries : status[d] # "absent"
    BY <2>2 DEF Claimable, Unsettled
  <2>4. QED
    BY <2>1, <2>3 DEF GoneInv
<1>3. CASE ~SweepBegin /\ \A s \in Senders : ~WriteOutcome(s)
  <2>1. \A s \in Senders, d \in Deliveries : Claim(s, d) => status'[e] # "failed"
    BY DEF Claim
  <2>2. \A d \in Deliveries : ~SweepNext(d)
    BY <2>1 DEF SweepNext, Senders, rowVars
  <2>3. \A t \in Threads : ~Take(t)
    BY <2>1 DEF Take, Senders, rowVars
  <2>4. ~Requeue
    BY DEF Requeue, rowVars
  <2>5. \A d \in Deliveries : ~Commit(d) /\ ~Prune(d)
    BY DEF Commit, Prune, Remove
  <2>6. ~DeleteConfig
    BY DEF DeleteConfig, Remove
  <2>7. QED
    BY <1>3, <2>2, <2>3, <2>4, <2>5, <2>6 DEF Next, vars, Attempt, SweepStep, Stage, Drain, Rollback, TakeFails, Post, ReadRow, RecordFails, SweepEnd, AskRetry, FallDue, Outrun, SwitchConfig, ApiCrash, SweeperCrash, rowVars
<1>4. QED
  BY <1>1, <1>2, <1>3

---------------------------------------------------------------------------
(* Theorems.                                                               *)

\* The invariant holds in every behaviour.
THEOREM InductiveInvariant == Spec => []IInv
  BY InitInv, StepInv, PTL DEF Spec

\* Every variable keeps its type.
THEOREM TypeCorrect == Spec => []TypeOK
<1>1. IInv => TypeOK
  BY DEF IInv
<1>2. QED
  BY <1>1, InductiveInvariant, PTL

\* Nothing is sent for a change that was not committed: the rows join the
\* caller's transaction, and only a row can be claimed.
THEOREM NothingSentEarly == Spec => []NothingForUnmadeChange
  BY InvGivesProperty, InductiveInvariant, PTL

\* No delivery is shown as delivered that the receiver did not take, whoever
\* recorded it and however late.
THEOREM DeliveredTrue == Spec => []DeliveredWasReceived
<1>1. Init => IInv /\ ReceiptInv
  BY InitInv, InitReceipt
<1>2. IInv /\ ReceiptInv /\ [Next]_vars => (IInv /\ ReceiptInv)'
  BY StepInv, StepReceipt
<1>3. IInv /\ ReceiptInv => DeliveredWasReceived
  BY DEF ReceiptInv, DeliveredReceived, DeliveredWasReceived, Taken
<1>4. QED
  BY <1>1, <1>2, <1>3, PTL DEF Spec

\* The receiver takes a delivery twice only after a lease that ran out, a lost
\* answer or an admin's retry: the fast path and the sweep, any number of them,
\* never both send a row.
THEOREM TwiceOnlyWithExcuse == Spec => []DuplicateHasExcuse
<1>1. Init => IInv /\ OnceInv
  BY InitInv, InitOnce
<1>2. IInv /\ OnceInv /\ [Next]_vars => (IInv /\ OnceInv)'
  BY StepInv, StepOnce
<1>3. IInv /\ OnceInv => DuplicateHasExcuse
  <2>1. SUFFICES ASSUME IInv, OnceInv, NEW d \in Deliveries, received[d] > 1, d \notin excused,
                        ~(requeues > 0)
                 PROVE  FALSE
    BY DEF DuplicateHasExcuse
  <2>2. received[d] \in 0..2 /\ requeues \in 0..MaxRequeues /\ MaxRequeues \in Nat
    BY <2>1, LimitsAssumption DEF IInv, TypeOK
  <2>3. requeues = 0
    BY <2>1, <2>2
  <2>4. received[d] <= 1
    BY <2>1, <2>3 DEF OnceInv, Clean, SentOnce
  <2>5. QED
    BY <2>1, <2>2, <2>4
<1>4. QED
  BY <1>1, <1>2, <1>3, PTL DEF Spec

\* A delivery is given up on its last attempt or because its webhook was
\* disabled, whatever stale view of the row the giver wrote from.
THEOREM GivenUpForReason == Spec => GivesUpWithReason
<1>1. Init => IInv /\ GoneInv
  BY InitInv DEF Init, GoneInv
<1>2. IInv /\ GoneInv /\ [Next]_vars => (IInv /\ GoneInv)'
  BY StepInv, StepGone
<1>3. IInv /\ GoneInv /\ [Next]_vars =>
        [\A d \in Deliveries : status[d] # "failed" /\ status'[d] = "failed" =>
           attempts'[d] >= MaxAttempts \/ config = "disabled"]_vars
  BY StepGivesUp
<1>4. QED
  BY <1>1, <1>2, <1>3, PTL DEF Spec, GivesUpWithReason

===========================================================================
