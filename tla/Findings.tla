------------------------------ MODULE Findings ------------------------------
(***************************************************************************)
(* The finding of one scanner issue, its status, its affected endpoints    *)
(* and the retests that stand on them, written by people, tests, bulk      *)
(* promotions and agents at once.  Every write is one transaction: it      *)
(* reads the finding unlocked, then takes the one finding lock (FOR NO KEY *)
(* UPDATE) and does the rest under it, so a transaction is two steps here: *)
(* Begin (its start time, which the database stamps on what it writes, and *)
(* what its unlocked lookup saw) and one operation.  An operation that     *)
(* refuses (409, 404) or whose row is gone rolls everything back: Abandon. *)
(*                                                                         *)
(* An endpoint row is one per host (named endpoints behave alike).  Of a   *)
(* remediation record the module keeps whether somebody filled it in.      *)
(***************************************************************************)
EXTENDS Naturals, FiniteSets

CONSTANT Hosts            \* hosts of the project that carry the issue
CONSTANT Actors           \* sessions that write
CONSTANT Admins           \* those of project admins
CONSTANT MaxTx            \* bound: transactions ever begun

ASSUME FindingsAssumption == Admins \subseteq Actors /\ MaxTx \in Nat

VARIABLES finding,  \* the issue's finding: id, 0 when there is none, and status
          line,     \* the to_status of its newest status line
          ep,       \* per host: the endpoint row
          kept,     \* per host: the retest its newest removal line kept, or Never
          fixed,    \* per host: the newest no_finding result on its row, or Never
          filled,   \* per host: its remediation record was filled in
          tx,       \* per actor: the transaction under way
          begun,    \* transactions begun: the database's clock
          owed,     \* history, per host: the retest somebody is owed, or Never
          dropped,  \* history, per host: a fresh row lost that retest
          gap       \* history: a status line's from was not the status replaced

vars == <<finding, line, ep, kept, fixed, filled, tx, begun, owed, dropped, gap>>

Never == 0
Times == 0..MaxTx
Statuses == {"open", "confirmed", "false_positive", "accepted_risk", "remediated"}
Concluded == {"false_positive", "accepted_risk", "remediated"}
States == {"open", "retest", "remediated", "false_positive"}

Detached == [on |-> FALSE, state |-> "open", asked |-> Never]
Fresh == [Detached EXCEPT !.on = TRUE]
NoFinding == [id |-> 0, status |-> "open"]
Idle == [as |-> "none", start |-> Never, saw |-> 0, status |-> "open"]

Init == /\ finding = NoFinding /\ line = "open"
        /\ ep = [h \in Hosts |-> Detached]
        /\ kept = [h \in Hosts |-> Never]
        /\ fixed = [h \in Hosts |-> Never]
        /\ filled = [h \in Hosts |-> FALSE]
        /\ tx = [u \in Actors |-> Idle]
        /\ begun = 0
        /\ owed = [h \in Hosts |-> Never]
        /\ dropped = [h \in Hosts |-> FALSE]
        /\ gap = FALSE

-----------------------------------------------------------------------------
Later(s, t) == IF s < t THEN t ELSE s

(* What the lock re-reads onto the finding the session holds.              *)
StatusAsLoaded(u) == tx[u].status                                    \* Faulty
StatusUnderLock(u) == finding.status

Holds(u) == /\ tx[u].as # "none" /\ tx[u].saw # 0
            /\ finding.id = tx[u].saw

End(u) == tx' = [tx EXCEPT ![u] = Idle]

(* _status_line: nothing for a move to the status it already has.          *)
StatusLine(from, to) == /\ line' = to
                        /\ gap' = (gap \/ from # line)
NoLine == UNCHANGED <<line, gap>>

SetTo(u, status) ==
  /\ finding' = [finding EXCEPT !.status = status]
  /\ IF status = StatusUnderLock(u) THEN NoLine ELSE StatusLine(StatusUnderLock(u), status)

(* "A retest stands": its request is recorded and no defect was ruled out. *)
RetestStands(row, status) == row.asked # Never /\ status # "false_positive"
ResultRecorded(row, result) == result # Never /\ row.asked <= result

(* _move_endpoint, to state at time now; result: the newest fixed result.  *)
MayMove(row, state, status, result) ==
  state = "remediated" /\ row.state # "remediated" /\ RetestStands(row, status)
    => ResultRecorded(row, result)

MovedDismissedKeeps(row, state, now) ==                              \* Faulty
  [row EXCEPT !.state = state, !.asked = IF state = "retest" THEN now
                                          ELSE IF state = "remediated" THEN Never ELSE @]
Moved(row, state, now) ==
  IF row.state = state THEN row
  ELSE [row EXCEPT !.state = state,
                   !.asked = IF state = "retest" THEN now
                             ELSE IF state \in {"remediated", "false_positive"} THEN Never
                             ELSE @]

(* The retest somebody is owed, after a row went from one state to another.*)
Owes(h, state, now) == IF ep[h].on /\ ep[h].state = state THEN owed[h]
                       ELSE IF state = "retest" THEN now
                       ELSE IF state \in {"remediated", "false_positive"} THEN Never
                       ELSE owed[h]

StillDropped == [h \in Hosts |-> dropped[h] /\ owed'[h] # Never /\ ep'[h].asked = Never]

(* _attach_hosts: a row where there is none.                               *)
Attached(S) == [h \in Hosts |-> IF h \in S /\ ~ep[h].on THEN Fresh ELSE ep[h]]
Lost(S) == [h \in Hosts |-> dropped[h] \/ (h \in S /\ ~ep[h].on /\ owed[h] # Never)]

-----------------------------------------------------------------------------
(* A transaction begins and reads the finding.  as: who asks — a person, a *)
(* test's evidence (which never re-judges the issue), the bulk promotion   *)
(* (which re-statuses nothing) or an agent storing a result.               *)
Begin(u, as) ==
  /\ tx[u].as = "none" /\ begun < MaxTx
  /\ begun' = begun + 1
  /\ tx' = [tx EXCEPT ![u] = [as |-> as, start |-> begun', saw |-> finding.id,
                              status |-> finding.status]]
  /\ UNCHANGED <<finding, line, ep, kept, fixed, filled, owed, dropped, gap>>

Abandon(u) ==
  /\ tx[u].as # "none"
  /\ End(u)
  /\ UNCHANGED <<finding, line, ep, kept, fixed, filled, begun, owed, dropped, gap>>

(* Who may promote what: a test reports one host and one of two statuses,  *)
(* the bulk promotion makes confirmed findings, and a promotion on a host  *)
(* (here) is no dismissal and no accepted risk.                            *)
Promotes(u, S, status, here) ==
  /\ tx[u].as \in {"person", "test", "bulk"}
  /\ tx[u].as = "test" => Cardinality(S) = 1 /\ status \in {"open", "confirmed"}
  /\ tx[u].as = "bulk" => status = "confirmed"
  /\ here => /\ Cardinality(S) = 1 /\ tx[u].as # "bulk"
             /\ status \notin {"false_positive", "accepted_risk"}
  /\ ~here => tx[u].as # "test" \/ finding.id = 0

(* promote_vulnerability finds no finding for the issue and inserts one.   *)
(* (Ids are never used again: the transaction's number serves.)            *)
Create(u, S, status) ==
  /\ Promotes(u, S, status, FALSE) /\ tx[u].saw = 0 /\ finding.id = 0
  /\ finding' = [id |-> tx[u].start, status |-> status]
  /\ line' = status /\ gap' = FALSE
  /\ ep' = Attached(S)
  /\ End(u)
  /\ UNCHANGED <<kept, fixed, filled, begun, owed, dropped>>

(* It joins the one that is there: the one it saw, or the winner of the    *)
(* insert (the unique index refused this one's).                           *)
Joins(u) == finding.id # 0 /\ tx[u].saw \in {0, finding.id}

MayRestatus(u, status) ==
  \/ tx[u].as = "person"
  \/ tx[u].as = "test" /\ status = "confirmed" /\ StatusUnderLock(u) = "open"

Join(u, S, status, here) ==
  /\ Joins(u) /\ Promotes(u, S, status, here)
  /\ IF MayRestatus(u, status) THEN SetTo(u, status) ELSE NoLine /\ UNCHANGED finding
  /\ ep' = [h \in Hosts |->
              IF here /\ h \in S /\ ep[h].state = "false_positive"
              THEN Moved(ep[h], "open", tx[u].start) ELSE Attached(S)[h]]
  /\ dropped' = Lost(S)
  /\ End(u)
  /\ UNCHANGED <<kept, fixed, filled, begun, owed>>

(* dismiss_vulnerability_on_host: this host only, whatever the issue's.    *)
DismissHere(u, h) ==
  /\ tx[u].as = "person"
  /\ \/ tx[u].saw = 0 /\ finding.id = 0
        /\ finding' = [id |-> tx[u].start, status |-> "false_positive"]
        /\ line' = "false_positive" /\ gap' = FALSE
     \/ Joins(u) /\ NoLine /\ UNCHANGED finding
  /\ ep' = [ep EXCEPT ![h] = Moved(Attached({h})[h], "false_positive", tx[u].start)]
  /\ owed' = [owed EXCEPT ![h] = Owes(h, "false_positive", tx[u].start)]
  /\ dropped' = StillDropped
  /\ End(u)
  /\ UNCHANGED <<kept, fixed, filled, begun>>

SetStatus(u, status) ==
  /\ tx[u].as = "person" /\ Holds(u)
  /\ SetTo(u, status)
  /\ End(u)
  /\ UNCHANGED <<ep, kept, fixed, filled, begun, owed, dropped>>

(* set_endpoint_statuses: several endpoints, all of them or none.          *)
MoveEndpoints(u, S, state) ==
  /\ tx[u].as = "person" /\ Holds(u)
  /\ \A h \in S : ep[h].on /\ MayMove(ep[h], state, finding.status, fixed[h])
  /\ ep' = [h \in Hosts |-> IF h \in S THEN Moved(ep[h], state, tx[u].start) ELSE ep[h]]
  /\ owed' = [h \in Hosts |-> IF h \in S THEN Owes(h, state, tx[u].start) ELSE owed[h]]
  /\ dropped' = StillDropped
  /\ End(u)
  /\ UNCHANGED <<finding, line, gap, kept, fixed, filled, begun>>

(* record_retest: the result, stamped with the transaction's start, and    *)
(* the move it makes; the request is closed whatever it found.             *)
RecordRetest(u, h, found) ==
  LET result == IF found THEN fixed[h] ELSE Later(fixed[h], tx[u].start)
      state == IF found THEN "open" ELSE "remediated"
  IN /\ tx[u].as = "person" /\ Holds(u)
     /\ ep[h].on /\ RetestStands(ep[h], finding.status)
     /\ MayMove(ep[h], state, finding.status, result)
     /\ ep' = [ep EXCEPT ![h] = [Moved(@, state, tx[u].start) EXCEPT !.asked = Never]]
     /\ fixed' = [fixed EXCEPT ![h] = result]
     /\ owed' = [owed EXCEPT ![h] = Never]
     /\ dropped' = StillDropped
     /\ End(u)
     /\ UNCHANGED <<finding, line, gap, kept, filled, begun>>

(* An agent stores a result that shows the issue fixed, on a row it names, *)
(* without the finding's lock; a person decides what to make of it.        *)
AgentResult(u, h) ==
  /\ tx[u].as = "agent" /\ ep[h].on
  /\ fixed' = [fixed EXCEPT ![h] = Later(@, tx[u].start)]
  /\ End(u)
  /\ UNCHANGED <<finding, line, ep, kept, filled, begun, owed, dropped, gap>>

(* remediation_service.apply: the contact reports it fixed, which asks for *)
(* a retest of an endpoint still present that is no ruled-out defect.      *)
ReportedFixed(u, h) ==
  /\ tx[u].as = "person" /\ Holds(u) /\ ep[h].on
  /\ filled' = [filled EXCEPT ![h] = TRUE]
  /\ LET asks == ep[h].state = "open" /\ finding.status # "false_positive"
     IN /\ ep' = IF asks THEN [ep EXCEPT ![h] = Moved(@, "retest", tx[u].start)] ELSE ep
        /\ owed' = IF asks THEN [owed EXCEPT ![h] = Owes(h, "retest", tx[u].start)] ELSE owed
  /\ dropped' = StillDropped
  /\ End(u)
  /\ UNCHANGED <<finding, line, gap, kept, fixed, begun>>

(* The same call with anything else: a contact, a date, another status.    *)
FillRecord(u, h) ==
  /\ tx[u].as = "person" /\ Holds(u) /\ ep[h].on
  /\ filled' = [filled EXCEPT ![h] = TRUE]
  /\ End(u)
  /\ UNCHANGED <<finding, line, ep, kept, fixed, begun, owed, dropped, gap>>

AddHosts(u, S) ==
  /\ tx[u].as = "person" /\ Holds(u)
  /\ ep' = Attached(S)
  /\ dropped' = Lost(S)
  /\ End(u)
  /\ UNCHANGED <<finding, line, gap, kept, fixed, filled, begun, owed>>

(* before_endpoints_removed: a filled-in record is an admin's to give up.  *)
MayDropRecords(u, S) == (\E h \in S : filled[h]) => u \in Admins

(* Results stay, their link to the row does not (ON DELETE SET NULL).      *)
Unlinked(h) == [fixed EXCEPT ![h] = Never]

(* remove_endpoint: the row goes with its results' link and its record;    *)
(* the removal's line keeps the retest that stood on it.                   *)
Remove(u, h) ==
  /\ tx[u].as = "person" /\ Holds(u) /\ ep[h].on
  /\ MayDropRecords(u, {h})
  /\ ep' = [ep EXCEPT ![h] = Detached]
  /\ kept' = [kept EXCEPT ![h] = ep[h].asked]
  /\ fixed' = Unlinked(h)
  /\ filled' = [filled EXCEPT ![h] = FALSE]
  /\ End(u)
  /\ UNCHANGED <<finding, line, gap, begun, owed, dropped>>

(* restore_endpoint: a new row takes the kept request before its state is  *)
(* set; a row that is there only moves.                                    *)
AskedNoMore(h) == Never                                              \* Faulty
AskedAgain(h) == kept[h]
Restore(u, h, state) ==
  LET row == IF ep[h].on THEN ep[h] ELSE [Fresh EXCEPT !.asked = AskedAgain(h)]
  IN /\ tx[u].as = "person" /\ Holds(u)
     /\ MayMove(row, state, finding.status, fixed[h])
     /\ ep' = [ep EXCEPT ![h] = Moved(row, state, tx[u].start)]
     /\ owed' = [owed EXCEPT ![h] = IF row.state = state THEN @
                                    ELSE IF state = "retest" THEN tx[u].start
                                    ELSE IF state = "open" THEN @ ELSE Never]
     /\ dropped' = StillDropped
     /\ End(u)
     /\ UNCHANGED <<finding, line, gap, kept, fixed, filled, begun>>

(* delete_finding: everything that is only its goes with it.               *)
Delete(u) ==
  /\ tx[u].as = "person" /\ Holds(u)
  /\ MayDropRecords(u, Hosts)
  /\ finding' = NoFinding /\ line' = "open" /\ gap' = gap
  /\ ep' = [h \in Hosts |-> Detached]
  /\ kept' = [h \in Hosts |-> Never] /\ fixed' = kept' /\ owed' = kept'
  /\ filled' = [h \in Hosts |-> FALSE] /\ dropped' = filled'
  /\ End(u)
  /\ UNCHANGED begun

Next ==
  \E u \in Actors :
    \/ \E as \in {"person", "test", "bulk", "agent"} : Begin(u, as)
    \/ Abandon(u) \/ Delete(u)
    \/ \E status \in Statuses : SetStatus(u, status)
    \/ \E S \in SUBSET Hosts \ {{}} :
         \/ AddHosts(u, S)
         \/ \E state \in States : MoveEndpoints(u, S, state)
         \/ \E status \in Statuses : \/ Create(u, S, status)
                                     \/ \E here \in BOOLEAN : Join(u, S, status, here)
    \/ \E h \in Hosts : \/ DismissHere(u, h) \/ AgentResult(u, h)
                        \/ ReportedFixed(u, h) \/ FillRecord(u, h) \/ Remove(u, h)
                        \/ \E found \in BOOLEAN : RecordRetest(u, h, found)
                        \/ \E state \in States : Restore(u, h, state)

Spec == Init /\ [][Next]_vars

-----------------------------------------------------------------------------
Row == [on: BOOLEAN, state: States, asked: Times]

TypeOK == /\ finding \in [id: Times, status: Statuses] /\ line \in Statuses
          /\ ep \in [Hosts -> Row]
          /\ \A h \in Hosts : ~ep[h].on => ep[h] = Detached /\ fixed[h] = Never /\ ~filled[h]
          /\ kept \in [Hosts -> Times] /\ fixed \in [Hosts -> Times]
          /\ filled \in [Hosts -> BOOLEAN]
          /\ tx \in [Actors -> [as: {"none", "person", "test", "bulk", "agent"},
                                start: Times, saw: Times, status: Statuses]]
          /\ begun \in Times
          /\ owed \in [Hosts -> Times] /\ dropped \in [Hosts -> BOOLEAN] /\ gap \in BOOLEAN

(* The history is unbroken: its newest status line says the status the     *)
(* finding has, and every line's "before" was the status it replaced.      *)
TrailUnbroken == ~gap /\ (finding.id # 0 => line = finding.status)

(* A retest somebody is owed is on the row, where the lists look for it,   *)
(* through hand moves, removals and restores; and it is on no row that is  *)
(* concluded.                                                              *)
RetestOnItsRow ==
  \A h \in Hosts : ep[h].on =>
    /\ owed[h] # Never => ep[h].asked = owed[h] \/ dropped[h]
    /\ ep[h].state = "retest" => ep[h].asked # Never
    /\ ep[h].asked # Never => ep[h].state \in {"open", "retest"} /\ owed[h] = ep[h].asked

(* No way round a retest: while one is owed on an endpoint of an issue that*)
(* is no false positive, the endpoint becomes remediated only with a fixed *)
(* result recorded since (a row attached afresh after its removal carries  *)
(* no request: WayRoundClosed).                                            *)
BecomesRemediated(h) == /\ ~(ep[h].on /\ ep[h].state = "remediated")
                        /\ ep'[h].on /\ ep'[h].state = "remediated"
                        /\ owed[h] # Never /\ finding.status # "false_positive"
NoWayRound == [][\A h \in Hosts : BecomesRemediated(h) /\ ~dropped[h] => owed[h] <= fixed'[h]]_vars

(* A test's evidence and the bulk promotion never re-judge an issue, not   *)
(* even one concluded between their lookup and their lock.                 *)
ResultsDoNotJudge ==
  [][\A u \in Actors :
       /\ tx[u].as \in {"test", "bulk"} /\ tx'[u].as = "none"
       /\ finding.id # 0 /\ finding'.status # finding.status
       => tx[u].as = "test" /\ finding.status = "open" /\ finding'.status = "confirmed"]_vars

(* A remediation record somebody filled in goes only by a project admin.   *)
RecordsKept ==
  [][\A h \in Hosts : filled[h] /\ ~filled'[h] =>
       \E u \in Admins : tx[u].as # "none" /\ tx'[u].as = "none"]_vars

(* What _move_endpoint says of the guard: every way in comes through it.   *)
WayRoundClosed == [][\A h \in Hosts : BecomesRemediated(h) => owed[h] <= fixed'[h]]_vars
=============================================================================
