------------------------- MODULE RemediationProofs -------------------------
(***************************************************************************)
(* Proofs about RemediationRecord, for any number of days, any timelines   *)
(* and any number of dates sent: the table's constraints hold of whatever  *)
(* _decide yields (TypeOK), a review date is set to a day still to come    *)
(* (ReviewedLater), nothing set changes without overwrite (SetStays) and   *)
(* no alert is repeated (AlertedOnce).  The last needs that a day alerted  *)
(* for is the one the record still has (ToldOK); the others rest on the    *)
(* table's constraints themselves, which are inductive.                    *)
(***************************************************************************)
EXTENDS RemediationRecord, TLAPS

\* The day an alert of a kind would be for.
DayOf(k) == IF k = "deferral_review" THEN rec.on["deferred_review_on"] ELSE Due(rec, days)

\* What was alerted for is remembered on the row, and still the record's day.
ToldOK == \A p \in told : p[2] = alerted[p[1]] /\ p[2] = DayOf(p[1])

IInv == TypeOK /\ ToldOK

---------------------------------------------------------------------------
\* A record and its fields.
LEMMA RecordParts ==
  /\ \A r \in Record : /\ r.status \in Progress /\ \A f \in DateFields : r.on[f] \in Dates
                       /\ r.on \in [DateFields -> Dates]
  /\ Nothing \in Record /\ Nothing.status = "open" /\ \A f \in DateFields : Nothing.on[f] = None
  /\ None \in Dates /\ Dates \subseteq Nat /\ Days \subseteq Dates
<1>1. None \in Dates /\ Dates \subseteq Nat /\ Days \subseteq Dates
  BY PolicyAssumption DEF Dates, Days, None
<1> QED
  BY <1>1 DEF Record, Nothing, Progress

\* A deadline is a day.
LEMMA DueIsDay == \A r \in Record, d \in Timelines : Due(r, d) \in Nat
<1> SUFFICES ASSUME NEW r \in Record, NEW d \in Timelines PROVE Due(r, d) \in Nat
  OBVIOUS
<1>1. /\ r.on["notified_on"] \in Nat /\ r.on["due_override_on"] \in Nat /\ d \in Nat
  BY RecordParts, PolicyAssumption DEF DateFields
<1> QED
  BY <1>1 DEF Due, PolicyDue, None

\* The initial state satisfies the invariant.
LEMMA InitInv == Init => IInv
<1> SUFFICES ASSUME Init PROVE IInv
  OBVIOUS
<1>1. TableAccepts(rec, frozen)
  BY RecordParts DEF Init, TableAccepts, DatesOfStatus, DateFields
<1>2. rec \in Record /\ frozen \in Nat /\ alerted \in [Kinds -> Nat] /\ today \in Days
  BY RecordParts, PolicyAssumption DEF Init, Days, None
<1> QED
  BY <1>1, <1>2 DEF Init, IInv, TypeOK, ToldOK

---------------------------------------------------------------------------
(* A call.                                                                 *)

\* What the steps of Apply are called below.
Status(to, overwrite) == StatusAfter(rec, to, overwrite)
Changed(to, dates, overwrite) ==
  Changes(rec, Wanted(rec, to, dates, today), Status(to, overwrite), overwrite)

\* The dates a call wants are dates, and those it changes are fields.
LEMMA WantedDates ==
  ASSUME IInv, NEW to \in Progress \cup {"as is"}, NEW dates \in Sendable
  PROVE  /\ DOMAIN dates \subseteq DateFields /\ \A f \in DOMAIN dates : dates[f] \in Dates
         /\ DOMAIN Wanted(rec, to, dates, today) \subseteq DateFields
         /\ \A f \in DOMAIN Wanted(rec, to, dates, today) : Wanted(rec, to, dates, today)[f] \in Dates
<1>1. DOMAIN dates \subseteq DateFields /\ \A f \in DOMAIN dates : dates[f] \in Dates
  BY DEF Sendable
<1>2. DatesOfStatus \subseteq DateFields /\ today \in Dates /\ None \in Dates
  BY RecordParts DEF DatesOfStatus, DateFields, IInv, TypeOK
<1> QED
  BY <1>1, <1>2 DEF Wanted, Implied, Dated, DateFields

\* What a call leaves in one date's field.
LEMMA AfterDate ==
  ASSUME IInv, NEW to \in Progress \cup {"as is"}, NEW dates \in Sendable,
         NEW overwrite \in BOOLEAN, Apply(to, dates, overwrite)
  PROVE  /\ rec'.status = Status(to, overwrite) /\ rec'.status \in Progress
         /\ \A f \in DateFields : rec'.on[f] = IF f \in Changed(to, dates, overwrite)
                                              THEN Wanted(rec, to, dates, today)[f] ELSE rec.on[f]
         /\ rec' \in Record
<1>1. rec' = [status |-> Status(to, overwrite),
              on |-> [f \in DateFields |-> IF f \in Changed(to, dates, overwrite)
                                           THEN Wanted(rec, to, dates, today)[f] ELSE rec.on[f]]]
  BY DEF Apply, Status, Changed
<1>2. Status(to, overwrite) \in Progress
  BY RecordParts DEF Status, StatusAfter, IInv, TypeOK
<1>3. \A f \in DateFields : (IF f \in Changed(to, dates, overwrite)
                             THEN Wanted(rec, to, dates, today)[f] ELSE rec.on[f]) \in Dates
  BY WantedDates, RecordParts DEF Changed, Changes, IInv, TypeOK
<1> QED
  BY <1>1, <1>2, <1>3 DEF Record

\* A date of a status is on a record of that status only.
LEMMA DateHasStatus ==
  ASSUME IInv, NEW to \in Progress \cup {"as is"}, NEW dates \in Sendable,
         NEW overwrite \in BOOLEAN, Apply(to, dates, overwrite),
         NEW f \in DatesOfStatus, rec'.on[f] # None
  PROVE  rec'.status = StatusOf(f)
<1> DEFINE W == Wanted(rec, to, dates, today)
           C == Changed(to, dates, overwrite)
<1>1. f \in DateFields /\ rec'.status = Status(to, overwrite)
      /\ rec'.on[f] = IF f \in C THEN W[f] ELSE rec.on[f]
  BY AfterDate DEF DatesOfStatus, DateFields
<1>2. CASE f \in C
  <2>1. W[f] # None /\ ~Blocked(rec, W, f, Status(to, overwrite), overwrite)
    BY <1>1, <1>2 DEF Changed, Changes
  <2> HIDE DEF W, C
  <2> QED
    BY <1>1, <2>1 DEF Blocked
<1>3. CASE f \notin C
  <2>1. rec.on[f] # None /\ rec.status = StatusOf(f) /\ StatusOf(f) # "open"
    BY <1>1, <1>3 DEF IInv, TypeOK, TableAccepts, StatusOf
  <2>2. SUFFICES ASSUME Status(to, overwrite) # rec.status PROVE FALSE
    BY <1>1, <2>1
  <2>3. to \notin {"as is", StatusOf(f)} /\ overwrite
    BY <2>1, <2>2 DEF Status, StatusAfter
  <2>4. f \in DOMAIN dates => dates[f] = None
    BY <2>3 DEF Apply, DatesFit, Asked
  <2>5. f \notin Dated(rec, to, dates)
    BY <2>3 DEF Dated, StatusOf
  <2>6. f \in DOMAIN W /\ W[f] = None
    BY <2>1, <2>3, <2>4, <2>5 DEF Wanted, Implied
  <2>7. ~Blocked(rec, W, f, Status(to, overwrite), overwrite)
    BY <2>3, <2>6 DEF Blocked
  <2> QED
    BY <1>3, <2>1, <2>6, <2>7 DEF Changed, Changes
<1> QED
  BY <1>2, <1>3

\* A deferred record has its review date.
LEMMA DeferredHasReview ==
  ASSUME IInv, NEW to \in Progress \cup {"as is"}, NEW dates \in Sendable,
         NEW overwrite \in BOOLEAN, Apply(to, dates, overwrite), rec'.status = "deferred"
  PROVE  rec'.on["deferred_review_on"] # None
<1> DEFINE W == Wanted(rec, to, dates, today)
           C == Changed(to, dates, overwrite)
           f == "deferred_review_on"
<1>1. f \in DateFields /\ f \in DatesOfStatus /\ StatusOf(f) = "deferred"
  BY DEF DateFields, DatesOfStatus, StatusOf
<1>2. /\ Status(to, overwrite) = "deferred"
      /\ rec'.on[f] = IF f \in C THEN W[f] ELSE rec.on[f]
  BY <1>1, AfterDate
<1>3. f \notin Dated(rec, to, dates)
  BY DEF Dated
<1>4. CASE rec.status = "deferred"
  <2>1. rec.on[f] # None
    BY <1>4 DEF IInv, TypeOK, TableAccepts
  <2>2. SUFFICES ASSUME f \in C, W[f] = None PROVE FALSE
    BY <1>2, <2>1
  <2>3. ~Blocked(rec, W, f, "deferred", overwrite) /\ f \in DOMAIN W
    BY <1>2, <2>2 DEF Changed, Changes
  <2>4. overwrite
    BY <1>1, <2>1, <2>2, <2>3 DEF Blocked
  <2>5. Asked(rec, to) = "deferred" /\ to \in {"as is", "deferred"}
    BY <1>2, <1>4, <2>4 DEF Status, StatusAfter, Asked
  <2>6. f \in DOMAIN dates /\ dates[f] = None
    BY <1>1, <1>3, <2>2, <2>3, <2>5 DEF Wanted, Implied
  <2> QED
    BY <2>1, <2>5, <2>6 DEF Apply, DeferralFits
<1>5. CASE rec.status # "deferred"
  <2>1. to = "deferred" /\ Asked(rec, to) = "deferred"
    BY <1>2, <1>5 DEF Status, StatusAfter, Asked
  <2>2. f \in DOMAIN dates /\ dates[f] # None
    BY <1>5, <2>1 DEF Apply, DeferralFits
  <2>3. f \in DOMAIN W /\ W[f] = dates[f]
    BY <2>2 DEF Wanted
  <2>4. rec.on[f] = None
    BY <1>1, <1>5 DEF IInv, TypeOK, TableAccepts
  <2>5. ~Blocked(rec, W, f, "deferred", overwrite)
    BY <1>1, <2>2, <2>3, <2>4 DEF Blocked
  <2>6. f \in C
    BY <1>2, <2>2, <2>3, <2>4, <2>5 DEF Changed, Changes
  <2> QED
    BY <1>2, <2>2, <2>3, <2>6
<1> QED
  BY <1>4, <1>5

\* What is frozen, alerted and told after a call.
LEMMA ApplyKeeps ==
  ASSUME IInv, NEW to \in Progress \cup {"as is"}, NEW dates \in Sendable,
         NEW overwrite \in BOOLEAN, Apply(to, dates, overwrite)
  PROVE  IInv'
<1> DEFINE C == Changed(to, dates, overwrite)
           restarts == rec'.status # rec.status \/ C \cap {"notified_on", "due_override_on"} # {}
           reviewed == rec'.status # rec.status \/ "deferred_review_on" \in C
           anew == (IF restarts THEN DeadlineKinds ELSE {}) \cup (IF reviewed THEN {"deferral_review"} ELSE {})
<1>1. /\ rec' \in Record /\ rec'.status = Status(to, overwrite)
      /\ \A f \in DateFields \ C : rec'.on[f] = rec.on[f]
  <2>1. rec' \in Record /\ rec'.status = Status(to, overwrite)
    BY AfterDate
  <2>2. \A f \in DateFields : rec'.on[f] = IF f \in C THEN Wanted(rec, to, dates, today)[f] ELSE rec.on[f]
    BY AfterDate
  <2> HIDE DEF C
  <2> QED
    BY <2>1, <2>2
<1>2. /\ frozen' = IF ~restarts THEN frozen
                   ELSE IF rec'.status = "closed" THEN Due(rec', days) ELSE None
      /\ alerted' = [k \in Kinds |-> IF k \in anew THEN None ELSE alerted[k]]
      /\ told' = {p \in told : p[1] \notin anew}
      /\ forced' = overwrite /\ UNCHANGED <<today, days>>
  BY <1>1 DEF Apply, Status, Changed
<1>3. days \in Timelines
  BY DEF IInv, TypeOK
<1>4. frozen' \in Nat
  BY <1>1, <1>2, <1>3, DueIsDay DEF IInv, TypeOK, None
<1>5. TableAccepts(rec', frozen')
  <2>1. frozen' # None => rec'.status = "closed"
    BY <1>2 DEF IInv, TypeOK, TableAccepts
  <2> QED
    BY <2>1, DateHasStatus, DeferredHasReview DEF TableAccepts
<1>6. alerted' \in [Kinds -> Nat]
  BY <1>2 DEF IInv, TypeOK, None
<1>7. TypeOK'
  BY <1>1, <1>2, <1>4, <1>5, <1>6 DEF IInv, TypeOK
<1>8. ASSUME NEW p \in told' PROVE p[2] = alerted'[p[1]] /\ p[2] = DayOf(p[1])'
  <2>1. p \in told /\ p[1] \in Kinds /\ p[1] \notin anew
    BY <1>2, <1>8 DEF IInv, TypeOK
  <2>2. p[2] = alerted[p[1]] /\ alerted'[p[1]] = alerted[p[1]] /\ p[2] = DayOf(p[1])
    BY <1>2, <2>1 DEF IInv, ToldOK
  <2>3. CASE p[1] = "deferral_review"
    <3>1. "deferred_review_on" \in DateFields \ C
      BY <2>1, <2>3 DEF DateFields
    <3> QED
      BY <1>1, <2>2, <2>3, <3>1 DEF DayOf
  <2>4. CASE p[1] # "deferral_review"
    <3>1. ~restarts
      BY <2>1, <2>4 DEF Kinds, DeadlineKinds
    <3>2. {"notified_on", "due_override_on"} \subseteq DateFields \ C
      BY <3>1 DEF DateFields
    <3>3. rec'.on["notified_on"] = rec.on["notified_on"] /\ rec'.on["due_override_on"] = rec.on["due_override_on"]
      BY <1>1, <3>2
    <3>4. Due(rec', days') = Due(rec, days)
      BY <1>2, <3>3 DEF Due, PolicyDue
    <3> QED
      BY <2>2, <2>4, <3>4 DEF DayOf
  <2> QED
    BY <2>2, <2>3, <2>4
<1> QED
  BY <1>7, <1>8 DEF IInv, ToldOK

\* A kind is reached for the record's day, and told of a day it is not told of.
LEMMA ReachedIsDay ==
  ASSUME IInv, NEW k \in Kinds, Alerts(k)
  PROVE  /\ ReachedDay(k) = DayOf(k) /\ ReachedDay(k) \in Nat
         /\ <<k, ReachedDay(k)>> \notin told
<1>1. ReachedDay(k) # None /\ ReachedDay(k) # alerted[k]
  BY DEF Alerts
<1>2. ReachedDay(k) = DayOf(k)
  BY <1>1 DEF ReachedDay, DayOf
<1>3. DayOf(k) \in Nat
  BY RecordParts, DueIsDay DEF DayOf, IInv, TypeOK, DateFields
<1>4. <<k, ReachedDay(k)>> \notin told
  BY <1>1 DEF IInv, ToldOK
<1> QED
  BY <1>2, <1>3, <1>4

\* A sweep remembers the day on the row.
LEMMA SweepKeeps ==
  ASSUME IInv, Sweep
  PROVE  IInv'
<1> DEFINE now == {k \in Kinds : Alerts(k)}
<1>1. /\ alerted' = [k \in Kinds |-> IF k \in now THEN ReachedDay(k) ELSE alerted[k]]
      /\ told' = told \cup {<<k, ReachedDay(k)>> : k \in now}
      /\ forced' = FALSE /\ UNCHANGED <<rec, frozen, today, days>>
  BY DEF Sweep
<1>2. \A k \in now : k \in Kinds /\ ReachedDay(k) = DayOf(k) /\ ReachedDay(k) \in Nat
  BY ReachedIsDay
<1>3. alerted' \in [Kinds -> Nat] /\ \A p \in told' : p \in Kinds \X Nat
  BY <1>1, <1>2 DEF IInv, TypeOK
<1>4. TypeOK'
  BY <1>1, <1>3 DEF IInv, TypeOK
<1>5. ASSUME NEW p \in told' PROVE p[2] = alerted'[p[1]] /\ p[2] = DayOf(p[1])'
  <2>1. p[1] \in Kinds /\ DayOf(p[1])' = DayOf(p[1])
    BY <1>1, <1>3 DEF DayOf
  <2>2. CASE p \in told
    <3>1. p[2] = alerted[p[1]] /\ p[2] = DayOf(p[1])
      BY <2>2 DEF IInv, ToldOK
    <3> QED
      BY <1>1, <1>2, <2>1, <3>1
  <2>3. CASE \E k \in now : p = <<k, ReachedDay(k)>>
    BY <1>1, <1>2, <2>1, <2>3
  <2> QED
    BY <1>1, <2>2, <2>3
<1> QED
  BY <1>4, <1>5 DEF IInv, ToldOK

\* Every step keeps the invariant.
LEMMA NextInv == IInv /\ [Next]_vars => IInv'
<1> SUFFICES ASSUME IInv, [Next]_vars PROVE IInv'
  OBVIOUS
<1>1. ASSUME NEW to \in Progress \cup {"as is"}, NEW dates \in Sendable, NEW yes \in BOOLEAN,
             Apply(to, dates, yes)
      PROVE  IInv'
  BY <1>1, ApplyKeeps
<1>2. CASE Sweep
  BY <1>2, SweepKeeps
<1>3. CASE Tomorrow
  <2>1. today' \in Days
    BY <1>3, PolicyAssumption DEF Tomorrow, Days, IInv, TypeOK
  <2> QED
    BY <1>3, <2>1 DEF Tomorrow, IInv, TypeOK, ToldOK, DayOf
<1>4. ASSUME NEW d \in Timelines, Move(d)
      PROVE  IInv'
  <2>1. TypeOK'
    BY <1>4 DEF Move, IInv, TypeOK
  <2>2. ASSUME NEW p \in told' PROVE p[2] = alerted'[p[1]] /\ p[2] = DayOf(p[1])'
    <3>1. p \in told /\ p[1] \in Kinds /\ (p[1] \in DeadlineKinds => Due(rec, d) = Due(rec, days))
      BY <1>4, <2>2 DEF Move, IInv, TypeOK
    <3>2. p[2] = alerted[p[1]] /\ p[2] = DayOf(p[1])
      BY <3>1 DEF IInv, ToldOK
    <3> QED
      BY <1>4, <3>1, <3>2 DEF Move, DayOf, Kinds, DeadlineKinds
  <2> QED
    BY <2>1, <2>2 DEF IInv, ToldOK
<1>5. CASE Leave
  <2>1. TableAccepts(Nothing, None) /\ Nothing \in Record /\ None \in Nat
    BY RecordParts DEF TableAccepts, DatesOfStatus, DateFields, None
  <2> QED
    BY <1>5, <2>1 DEF Leave, IInv, TypeOK, ToldOK
<1>6. CASE UNCHANGED vars
  BY <1>6 DEF vars, IInv, TypeOK, ToldOK, DayOf
<1> QED
  BY <1>1, <1>2, <1>3, <1>4, <1>5, <1>6 DEF Next

---------------------------------------------------------------------------
(* What a step may not do.                                                 *)

\* A review date that is set is sent, and so checked against today.
LEMMA StepReviews ==
  IInv /\ [Next]_vars =>
    LET review == rec'.on["deferred_review_on"] IN
      review \notin {None, rec.on["deferred_review_on"]} => today <= review
<1> DEFINE f == "deferred_review_on"
<1> SUFFICES ASSUME IInv, [Next]_vars, rec'.on[f] \notin {None, rec.on[f]}
             PROVE  today <= rec'.on[f]
  OBVIOUS
<1>1. ASSUME NEW to \in Progress \cup {"as is"}, NEW dates \in Sendable, NEW yes \in BOOLEAN,
             Apply(to, dates, yes)
      PROVE  today <= rec'.on[f]
  <2>0. /\ rec'.status = Status(to, yes)
        /\ \A g \in DateFields : rec'.on[g] = IF g \in Changed(to, dates, yes)
                                             THEN Wanted(rec, to, dates, today)[g] ELSE rec.on[g]
    BY <1>1, AfterDate
  <2>1. f \in DateFields /\ f \in DatesOfStatus /\ StatusOf(f) = "deferred"
    BY DEF DateFields, DatesOfStatus, StatusOf
  <2>2. f \in DOMAIN Wanted(rec, to, dates, today) /\ rec'.on[f] = Wanted(rec, to, dates, today)[f]
    <3>1. f \in Changed(to, dates, yes) /\ rec'.on[f] = Wanted(rec, to, dates, today)[f]
      BY <2>0, <2>1
    <3> QED
      BY <3>1 DEF Changed, Changes
  <2>3. f \notin Dated(rec, to, dates)
    BY DEF Dated
  <2>4. f \in DOMAIN dates /\ rec'.on[f] = dates[f]
    BY <2>2, <2>3 DEF Wanted
  <2>5. Asked(rec, to) = "deferred"
    BY <1>1, <2>1, <2>4 DEF Apply, DatesFit
  <2> QED
    BY <1>1, <2>4, <2>5 DEF Apply, DeferralFits
<1>2. CASE Leave
  BY <1>2, RecordParts DEF Leave, DateFields
<1>3. CASE Sweep \/ Tomorrow \/ (\E d \in Timelines : Move(d)) \/ UNCHANGED vars
  BY <1>3 DEF Sweep, Tomorrow, Move, vars
<1> QED
  BY <1>1, <1>2, <1>3 DEF Next

\* Without overwrite a field that is set is blocked.
LEMMA StepSpares ==
  IInv /\ [Next]_vars =>
    (~forced' => /\ rec.status # "open" => rec'.status = rec.status
                 /\ \A f \in DateFields : rec.on[f] # None => rec'.on[f] = rec.on[f])
<1> SUFFICES ASSUME IInv, [Next]_vars, ~forced'
             PROVE  /\ rec.status # "open" => rec'.status = rec.status
                    /\ \A f \in DateFields : rec.on[f] # None => rec'.on[f] = rec.on[f]
  OBVIOUS
<1>1. ASSUME NEW to \in Progress \cup {"as is"}, NEW dates \in Sendable, NEW yes \in BOOLEAN,
             Apply(to, dates, yes)
      PROVE  /\ rec.status # "open" => rec'.status = rec.status
             /\ \A f \in DateFields : rec.on[f] # None => rec'.on[f] = rec.on[f]
  <2>0. /\ rec'.status = Status(to, yes)
        /\ \A g \in DateFields : rec'.on[g] = IF g \in Changed(to, dates, yes)
                                             THEN Wanted(rec, to, dates, today)[g] ELSE rec.on[g]
    BY <1>1, AfterDate
  <2>1. ~yes
    BY <1>1 DEF Apply
  <2>2. rec.status # "open" => rec'.status = rec.status
    BY <2>0, <2>1 DEF Status, StatusAfter
  <2>3. ASSUME NEW f \in DateFields, rec.on[f] # None
        PROVE  rec'.on[f] = rec.on[f]
    <3>1. f \in DatesOfStatus => rec'.status = StatusOf(f)
      BY <2>2, <2>3 DEF IInv, TypeOK, TableAccepts, StatusOf
    <3>2. Blocked(rec, Wanted(rec, to, dates, today), f, rec'.status, yes)
      BY <2>1, <2>3, <3>1 DEF Blocked
    <3>3. f \notin Changed(to, dates, yes)
      BY <2>0, <3>2 DEF Changed, Changes
    <3> QED
      BY <2>0, <2>3, <3>3
  <2> QED
    BY <2>2, <2>3
<1>2. CASE Leave
  BY <1>2 DEF Leave
<1>3. CASE Sweep \/ Tomorrow \/ (\E d \in Timelines : Move(d)) \/ UNCHANGED vars
  BY <1>3 DEF Sweep, Tomorrow, Move, vars
<1> QED
  BY <1>1, <1>2, <1>3 DEF Next

---------------------------------------------------------------------------
(* The theorems.                                                           *)

\* Whatever is sent, the table's constraints accept the row _decide yields.
THEOREM TypeCorrect == Spec => []TypeOK
<1>1. IInv => TypeOK
  BY DEF IInv
<1> QED
  BY <1>1, InitInv, NextInv, PTL DEF Spec

\* A review date is set to a day still to come.
THEOREM ReviewsAhead == Spec => ReviewedLater
  BY InitInv, NextInv, StepReviews, PTL DEF Spec, ReviewedLater

\* Nothing somebody set changes without overwrite, the status' dates included.
THEOREM SetValuesStay == Spec => SetStays
  BY InitInv, NextInv, StepSpares, PTL DEF Spec, SetStays

\* No sweep repeats an alert for a day the record has kept since.
THEOREM NoAlertTwice == Spec => AlertedOnce
<1>1. IInv /\ [Next]_vars => \A k \in Kinds : Sweep /\ Alerts(k) => <<k, ReachedDay(k)>> \notin told
  BY ReachedIsDay
<1> QED
  BY <1>1, InitInv, NextInv, PTL DEF Spec, AlertedOnce
=============================================================================
