------------------------- MODULE RemediationRecord -------------------------
(***************************************************************************)
(* The remediation record of one finding on one host: what its tracked     *)
(* fields may become (_decide), the deadline derived from them, and the    *)
(* alerts a sweep raises for it.  Every write locks the finding, the       *)
(* endpoint and the record first and plans under those locks, so an apply  *)
(* is one step; the day, and the days the policy gives the finding's       *)
(* severity, move between applies.  The note a deferral or a changed       *)
(* override must carry is taken as sent.                                   *)
(* Days are numbered; None is a date that is not set.  A record that does  *)
(* not exist reads as an open one with nothing set.  The contact, its name *)
(* and its team are fields like the assigned date and are left out.        *)
(***************************************************************************)
EXTENDS Integers, FiniteSets

CONSTANT LastDay          \* bound: the days the instance runs over
CONSTANT Timelines        \* the days a severity may be given; None: no deadline
CONSTANT SoonDays         \* the policy's due_soon_days
CONSTANT MaxSent          \* bound: the dates one call sends

None == 0
Days == 1..LastDay
Dates == Days \cup {None}

ASSUME PolicyAssumption == LastDay \in Nat \ {0} /\ SoonDays \in Nat /\ Timelines \subseteq Nat

VARIABLES rec,        \* the record: its status, and its dates by field
          frozen,     \* closed_due_on
          alerted,    \* per kind: the day an alert was raised for
          today,
          days,       \* what the policy gives the finding's severity
          told,       \* history: <<kind, day>> alerted, the day not moved since
          forced      \* history: the last step overwrote, or removed the record

vars == <<rec, frozen, alerted, today, days, told, forced>>

Progress == {"open", "closed", "deferred"}
DateFields == {"notified_on", "closed_on", "due_override_on", "deferred_review_on"}
Record == [status: Progress, on: [DateFields -> Dates]]
Nothing == [status |-> "open", on |-> [f \in DateFields |-> None]]

(* The date that belongs to each status.                                   *)
DatesOfStatus == {"closed_on", "deferred_review_on"}
StatusOf(f) == IF f = "closed_on" THEN "closed" ELSE "deferred"
Kinds == {"overdue", "due_soon", "deferral_review"}
DeadlineKinds == {"overdue", "due_soon"}

Init == /\ rec = Nothing /\ frozen = None
        /\ alerted = [k \in Kinds |-> None]
        /\ today = 1
        /\ days \in Timelines
        /\ told = {} /\ forced = FALSE

-----------------------------------------------------------------------------
(* remediation_policy: due_expr, state_expr, flag_exprs.                   *)

PolicyDue(r, d) == IF r.on["notified_on"] = None \/ d = None THEN None
                   ELSE r.on["notified_on"] + d

Due(r, d) == IF r.on["due_override_on"] # None THEN r.on["due_override_on"]
             ELSE PolicyDue(r, d)

StateOf(r, d, day) ==
  LET due == Due(r, d)
  IN IF r.status # "open" THEN r.status
     ELSE IF due = None THEN "no_deadline"
     ELSE IF due < day THEN "overdue"
     ELSE IF due <= day + SoonDays THEN "due_soon" ELSE "on_track"

ReviewDue(r, day) == /\ r.status = "deferred"
                     /\ r.on["deferred_review_on"] \in 1..day

-----------------------------------------------------------------------------
(* _decide, for one call: the status asked for (or "as is"), the dates     *)
(* sent, and whether set values may be overwritten.                        *)

Asked(r, to) == IF to = "as is" THEN r.status ELSE to

(* A date of a status the call leaves goes with it, unasked; a record that *)
(* becomes closed with no date was closed today.                           *)
Implied(r, to, dates) ==
  {f \in DatesOfStatus \ DOMAIN dates : to \notin {"as is", StatusOf(f)} /\ r.on[f] # None}
Dated(r, to, dates) ==
  {f \in {"closed_on"} \ DOMAIN dates : to = "closed" /\ r.status # "closed" /\ r.on[f] = None}

Wanted(r, to, dates, day) ==
  [f \in DOMAIN dates \cup Implied(r, to, dates) \cup Dated(r, to, dates) |->
     IF f \in DOMAIN dates THEN dates[f] ELSE IF f \in Dated(r, to, dates) THEN day ELSE None]

(* What the request must respect, whatever is stored (its own shape first).*)
DatesFit(r, to, dates) == \A f \in DatesOfStatus \cap DOMAIN dates :
                             dates[f] # None => Asked(r, to) = StatusOf(f)

DeferralFits(r, to, dates, day) ==
  LET sent == "deferred_review_on" \in DOMAIN dates
      review == IF sent THEN dates["deferred_review_on"] ELSE None
      stored == r.on["deferred_review_on"]
  IN Asked(r, to) = "deferred" =>
       /\ r.status # "deferred" => review # None
       /\ sent /\ review = None => stored = None
       /\ review \notin {None, stored} => day <= review

(* Status is decided before the dates that belong to one.                  *)
StatusAfter(r, to, overwrite) ==
  IF to = "as is" \/ (r.status # "open" /\ ~overwrite) THEN r.status ELSE to

BlockedByStatus(r, wanted, f, status, overwrite) ==                            \* Faulty
  IF f \in DatesOfStatus THEN status # StatusOf(f) ELSE r.on[f] # None /\ ~overwrite
Blocked(r, wanted, f, status, overwrite) ==
  LET set == r.on[f] # None /\ ~overwrite
  IN IF f \notin DatesOfStatus THEN set
     ELSE IF wanted[f] = None THEN set /\ status = StatusOf(f)
     ELSE set \/ status # StatusOf(f)

Changes(r, wanted, status, overwrite) ==
  {f \in DOMAIN wanted : wanted[f] # r.on[f] /\ ~Blocked(r, wanted, f, status, overwrite)}

-----------------------------------------------------------------------------
(* apply, for this record.                                                 *)
Apply(to, dates, overwrite) ==
  LET wanted == Wanted(rec, to, dates, today)
      status == StatusAfter(rec, to, overwrite)
      changes == Changes(rec, wanted, status, overwrite)
      after == [status |-> status,
                on |-> [f \in DateFields |-> IF f \in changes THEN wanted[f] ELSE rec.on[f]]]
      restarts == status # rec.status \/ changes \cap {"notified_on", "due_override_on"} # {}
      reviewed == status # rec.status \/ "deferred_review_on" \in changes
      anew == (IF restarts THEN DeadlineKinds ELSE {})
              \cup (IF reviewed THEN {"deferral_review"} ELSE {})
  IN /\ DatesFit(rec, to, dates) /\ DeferralFits(rec, to, dates, today)
     /\ rec' = after
     /\ frozen' = IF ~restarts THEN frozen
                  ELSE IF status = "closed" THEN Due(after, days) ELSE None
     /\ alerted' = [k \in Kinds |-> IF k \in anew THEN None ELSE alerted[k]]
     /\ told' = {p \in told : p[1] \notin anew}
     /\ forced' = overwrite
     /\ UNCHANGED <<today, days>>

(* remediation_alerts.sweep: every kind the record reached whose day is not*)
(* the one already alerted for.  (A record a writer holds waits for the    *)
(* next sweep.)                                                            *)
ReachedDay(k) ==
  IF k = "deferral_review"
  THEN IF ReviewDue(rec, today) THEN rec.on["deferred_review_on"] ELSE None
  ELSE IF StateOf(rec, days, today) = k THEN Due(rec, days) ELSE None

AlertsAnyway(k) == ReachedDay(k) # None                                 \* Faulty
AlertsFirst(k) == ReachedDay(k) # None /\ alerted[k] = None             \* Faulty
Alerts(k) == ReachedDay(k) \notin {None, alerted[k]}

Sweep == LET now == {k \in Kinds : Alerts(k)} IN
         /\ now # {}
         /\ alerted' = [k \in Kinds |-> IF k \in now THEN ReachedDay(k) ELSE alerted[k]]
         /\ told' = told \cup {<<k, ReachedDay(k)>> : k \in now}
         /\ forced' = FALSE
         /\ UNCHANGED <<rec, frozen, today, days>>

Tomorrow == /\ today < LastDay
            /\ today' = today + 1 /\ forced' = FALSE
            /\ UNCHANGED <<rec, frozen, alerted, days, told>>

(* The finding gets another severity, or a manager saves another timeline: *)
(* the row is untouched, its deadline moves.                               *)
Move(d) ==
  /\ d # days /\ days' = d /\ forced' = FALSE
  /\ told' = IF Due(rec, d) = Due(rec, days) THEN told
             ELSE {p \in told : p[1] \notin DeadlineKinds}
  /\ UNCHANGED <<rec, frozen, alerted, today>>

(* The endpoint leaves the finding and its record with it.                 *)
Leave == /\ rec # Nothing
         /\ rec' = Nothing /\ frozen' = None
         /\ alerted' = [k \in Kinds |-> None] /\ told' = {} /\ forced' = TRUE
         /\ UNCHANGED <<today, days>>

Sendable == UNION {[F -> Dates] : F \in {G \in SUBSET DateFields : Cardinality(G) <= MaxSent}}

Next == \/ \E to \in Progress \cup {"as is"}, dates \in Sendable, yes \in BOOLEAN : Apply(to, dates, yes)
        \/ Sweep \/ Tomorrow \/ Leave
        \/ \E d \in Timelines : Move(d)

(* The worker runs the sweep in its periodic tasks.                        *)
Spec == Init /\ [][Next]_vars /\ WF_vars(Sweep)

-----------------------------------------------------------------------------
(* The table's own constraints hold of what _decide yields: a closed date  *)
(* and a frozen deadline on a closed record only, a review date on a       *)
(* deferred one, which always has it.                                      *)
TableAccepts(r, due) ==
  /\ \A f \in DatesOfStatus : r.on[f] # None => r.status = StatusOf(f)
  /\ due # None => r.status = "closed"
  /\ r.status = "deferred" => r.on["deferred_review_on"] # None

TypeOK == /\ rec \in Record /\ frozen \in Nat /\ TableAccepts(rec, frozen)
          /\ alerted \in [Kinds -> Nat]
          /\ today \in Days
          /\ days \in Timelines
          /\ \A p \in told : p \in Kinds \X Nat
          /\ forced \in BOOLEAN

(* A review date is a day still to come when it is set.                    *)
ReviewedLater ==
  [][LET review == rec'.on["deferred_review_on"] IN
     review \notin {None, rec.on["deferred_review_on"]} => today <= review]_vars

(* Without overwrite nothing somebody set changes, whatever else the call  *)
(* sends and whichever status it asks for.                                 *)
SetStays ==
  [][~forced' => /\ rec.status # "open" => rec'.status = rec.status
                 /\ \A f \in DateFields : rec.on[f] # None => rec'.on[f] = rec.on[f]]_vars

(* One alert per kind and day: a second one means the record started anew  *)
(* or the deadline moved in between.                                       *)
AlertedOnce == [][\A k \in Kinds : Sweep /\ Alerts(k) => <<k, ReachedDay(k)>> \notin told]_vars

(* An overdue record is alerted for the deadline it missed, also for one   *)
(* that moved after an earlier alert.                                      *)
OverdueIs(d) == ReachedDay("overdue") = d
OverdueTold == \A d \in Days : OverdueIs(d) ~> (alerted["overdue"] = d \/ ~OverdueIs(d))

(* What _decide says of a closed record: it always has its date.           *)
ClosedIsDated == rec.status = "closed" => rec.on["closed_on"] # None
=============================================================================
