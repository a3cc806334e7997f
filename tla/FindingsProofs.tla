--------------------------- MODULE FindingsProofs ---------------------------
(***************************************************************************)
(* Proofs about Findings, for any hosts, sessions, admins and number of    *)
(* transactions: its variables keep their types, the status history is     *)
(* unbroken (TrailUnbroken), an owed retest is on its row (RetestOnItsRow),*)
(* there is no way round it (NoWayRound), and a filled-in record goes only *)
(* by an admin (RecordsKept).                                              *)
(*                                                                         *)
(* RetestOnItsRow is not inductive: it says nothing of an endpoint while   *)
(* its row is away, and a restore would make one it does not hold of.      *)
(* What is needed is that the removal's line keeps the request meanwhile   *)
(* (HostOK), and that a transaction's start is a real time (TxOK).         *)
(***************************************************************************)
EXTENDS Findings, TLAPS

TxTypes == {"none", "person", "test", "bulk", "agent"}
TxOK == /\ tx \in [Actors -> [as: TxTypes, start: Times, saw: Times, status: Statuses]]
        /\ \A u \in Actors : tx[u].as # "none" => tx[u].start # Never
        /\ begun \in Times

FindingOK == /\ finding \in [id: Times, status: Statuses] /\ line \in Statuses /\ gap \in BOOLEAN
             /\ TrailUnbroken

\* One host: the row that is there holds the retest that is owed; while it is
\* away, the removal's line does; a fresh row may have lost it.
HostOK(h) ==
  /\ ep[h] \in Row /\ kept[h] \in Times /\ fixed[h] \in Times /\ owed[h] \in Times
  /\ filled[h] \in BOOLEAN /\ dropped[h] \in BOOLEAN
  /\ ~ep[h].on => /\ ep[h] = Detached /\ fixed[h] = Never /\ ~filled[h]
                  /\ owed[h] # Never => kept[h] = owed[h] \/ dropped[h]
                  /\ kept[h] # Never => owed[h] = kept[h]
  /\ ep[h].on =>
       /\ owed[h] # Never => ep[h].asked = owed[h] \/ dropped[h]
       /\ ep[h].state = "retest" => ep[h].asked # Never
       /\ ep[h].asked # Never => ep[h].state \in {"open", "retest"} /\ owed[h] = ep[h].asked

\* The host variables are functions on the hosts.
Functional == /\ ep = [h \in Hosts |-> ep[h]] /\ kept = [h \in Hosts |-> kept[h]]
              /\ fixed = [h \in Hosts |-> fixed[h]] /\ filled = [h \in Hosts |-> filled[h]]
              /\ owed = [h \in Hosts |-> owed[h]] /\ dropped = [h \in Hosts |-> dropped[h]]

HostsOK == Functional /\ \A h \in Hosts : HostOK(h)

\* Without a finding there is no row, and nothing is owed.
Bare == finding.id = 0 => \A h \in Hosts : ~ep[h].on /\ owed[h] = Never

IInv == TxOK /\ FindingOK /\ HostsOK /\ Bare

---------------------------------------------------------------------------
(* Rows and times.                                                         *)

\* The rows that are written from nothing.
LEMMA NewRows ==
  /\ Detached \in Row /\ ~Detached.on /\ Detached.state = "open" /\ Detached.asked = Never
  /\ Fresh \in Row /\ Fresh.on /\ Fresh.state = "open" /\ Fresh.asked = Never
  /\ Never \in Times
  /\ \A t \in Times : /\ [Fresh EXCEPT !.asked = t] \in Row
                      /\ [Fresh EXCEPT !.asked = t].on
                      /\ [Fresh EXCEPT !.asked = t].state = "open"
                      /\ [Fresh EXCEPT !.asked = t].asked = t
<1>1. Never \in Times
  BY FindingsAssumption DEF Times, Never
<1>2. Detached \in Row /\ ~Detached.on /\ Detached.state = "open" /\ Detached.asked = Never
  BY <1>1 DEF Detached, Row, States
<1>3. Fresh \in Row /\ Fresh.on /\ Fresh.state = "open" /\ Fresh.asked = Never
  BY <1>2 DEF Fresh, Row
<1>4. ASSUME NEW t \in Times
      PROVE  /\ [Fresh EXCEPT !.asked = t] \in Row
             /\ [Fresh EXCEPT !.asked = t].on
             /\ [Fresh EXCEPT !.asked = t].state = "open"
             /\ [Fresh EXCEPT !.asked = t].asked = t
  BY <1>3 DEF Row
<1> QED
  BY <1>1, <1>2, <1>3, <1>4

\* What _move_endpoint makes of a row.
LEMMA MovedRow ==
  ASSUME NEW w \in Row, NEW state \in States, NEW now \in Times
  PROVE  /\ Moved(w, state, now) \in Row
         /\ Moved(w, state, now).on = w.on
         /\ Moved(w, state, now).state = state
         /\ Moved(w, state, now).asked =
              IF w.state = state THEN w.asked
              ELSE IF state = "retest" THEN now
              ELSE IF state \in {"remediated", "false_positive"} THEN Never
              ELSE w.asked
<1>1. Never \in Times
  BY NewRows
<1>2. CASE w.state = state
  BY <1>2 DEF Moved, Row
<1>3. CASE w.state # state
  BY <1>1, <1>3 DEF Moved, Row
<1> QED
  BY <1>2, <1>3

\* What a status of the trail says after SetTo.
LEMMA SetToKeeps ==
  ASSUME FindingOK, NEW u, NEW status \in Statuses, finding.id # 0, SetTo(u, status)
  PROVE  FindingOK'
<1>1. /\ finding' = [finding EXCEPT !.status = status]
      /\ finding.status = line /\ ~gap /\ finding \in [id: Times, status: Statuses]
  BY DEF FindingOK, TrailUnbroken, SetTo
<1>2. finding' \in [id: Times, status: Statuses] /\ finding'.status = status
  BY <1>1
<1>3. line' = status /\ ~gap' /\ gap' \in BOOLEAN
  BY <1>1 DEF SetTo, StatusUnderLock, StatusLine, NoLine, FindingOK
<1> QED
  BY <1>2, <1>3 DEF FindingOK, TrailUnbroken

\* A new finding, and none, start a history of their own.
LEMMA NewFinding ==
  ASSUME NEW n \in Times, NEW status \in Statuses,
         finding' = [id |-> n, status |-> status], line' = status, gap' = FALSE
  PROVE  FindingOK'
  BY DEF FindingOK, TrailUnbroken

\* A transaction that ends leaves the others as they were.
LEMMA EndKeeps ==
  ASSUME TxOK, NEW u \in Actors, End(u), begun' = begun
  PROVE  TxOK'
<1>1. Idle \in [as: TxTypes, start: Times, saw: Times, status: Statuses] /\ Idle.as = "none"
  BY NewRows DEF Idle, TxTypes, Statuses, Never
<1> QED
  BY <1>1 DEF TxOK, End

\* A row as it is, or a fresh one: what _attach_hosts leaves of a host.
LEMMA AttachKeeps ==
  ASSUME NEW g \in Hosts, HostOK(g), NEW S \in SUBSET Hosts,
         ep'[g] = Attached(S)[g], dropped'[g] = Lost(S)[g],
         kept'[g] = kept[g], fixed'[g] = fixed[g], filled'[g] = filled[g], owed'[g] = owed[g]
  PROVE  HostOK(g)'
<1>1. CASE g \in S /\ ~ep[g].on
  <2>1. ep'[g] = Fresh /\ dropped'[g] = (dropped[g] \/ owed[g] # Never)
    BY <1>1 DEF Attached, Lost
  <2> QED
    BY <1>1, <2>1, NewRows DEF HostOK
<1>2. CASE ~(g \in S /\ ~ep[g].on)
  <2>1. ep'[g] = ep[g] /\ dropped'[g] = dropped[g]
    BY <1>2 DEF Attached, Lost, HostOK
  <2> QED
    BY <2>1 DEF HostOK
<1> QED
  BY <1>1, <1>2

\* A row that is there, moved, with the request it then stands for owed.
LEMMA MoveKeeps ==
  ASSUME NEW g \in Hosts, HostOK(g), ep[g].on, NEW state \in States,
         NEW now \in Times, now # Never,
         ep'[g] = Moved(ep[g], state, now), owed'[g] = Owes(g, state, now),
         dropped'[g] = (dropped[g] /\ owed'[g] # Never /\ ep'[g].asked = Never),
         kept'[g] = kept[g], fixed'[g] = fixed[g], filled'[g] \in BOOLEAN
  PROVE  HostOK(g)'
<1>1. ep[g] \in Row /\ ep[g].on
  BY DEF HostOK
<1>2. /\ ep'[g] \in Row /\ ep'[g].on /\ ep'[g].state = state
      /\ ep'[g].asked = IF ep[g].state = state THEN ep[g].asked
                        ELSE IF state = "retest" THEN now
                        ELSE IF state \in {"remediated", "false_positive"} THEN Never
                        ELSE ep[g].asked
  BY <1>1, MovedRow
<1>3. owed'[g] = IF ep[g].state = state THEN owed[g]
                 ELSE IF state = "retest" THEN now
                 ELSE IF state \in {"remediated", "false_positive"} THEN Never
                 ELSE owed[g]
  BY <1>1 DEF Owes
<1>4. owed'[g] \in Times /\ state \in {"open", "retest", "remediated", "false_positive"}
  BY <1>3, NewRows DEF HostOK, States
<1> QED
  BY <1>2, <1>3, <1>4 DEF HostOK

\* A host that an action does not write.
LEMMA LeftAlone ==
  ASSUME NEW g \in Hosts, HostOK(g),
         ep'[g] = ep[g], kept'[g] = kept[g], fixed'[g] = fixed[g], filled'[g] = filled[g],
         owed'[g] = owed[g],
         dropped'[g] = dropped[g] \/ dropped'[g] = (dropped[g] /\ owed'[g] # Never /\ ep'[g].asked = Never)
  PROVE  HostOK(g)'
  BY NewRows DEF HostOK

---------------------------------------------------------------------------
(* The actions.                                                            *)

\* A transaction under way has a start, and what it holds is there.
LEMMA UnderWay ==
  ASSUME TxOK, NEW u \in Actors, tx[u].as # "none"
  PROVE  tx[u].start \in Times /\ tx[u].start # Never
  BY DEF TxOK

\* The initial state satisfies the invariant.
LEMMA InitInv == Init => IInv
<1> SUFFICES ASSUME Init PROVE IInv
  OBVIOUS
<1>1. TxOK
  <2>1. Idle \in [as: TxTypes, start: Times, saw: Times, status: Statuses] /\ Idle.as = "none"
    BY NewRows DEF Idle, TxTypes, Statuses, Never
  <2> QED
    BY <2>1, NewRows DEF Init, TxOK, Never
<1>2. FindingOK
  BY NewRows DEF Init, FindingOK, TrailUnbroken, NoFinding, Statuses, Never
<1>3. HostsOK /\ Bare
  BY NewRows DEF Init, HostsOK, HostOK, Functional, Bare
<1> QED
  BY <1>1, <1>2, <1>3 DEF IInv

\* A transaction that begins takes the next time.
LEMMA BeginKeeps ==
  ASSUME IInv, NEW u \in Actors, NEW as \in TxTypes, Begin(u, as)
  PROVE  IInv'
<1>1. begun' \in Times /\ begun' # Never
  BY FindingsAssumption DEF IInv, TxOK, Begin, Times, Never
<1>2. [as |-> as, start |-> begun', saw |-> finding.id, status |-> finding.status]
        \in [as: TxTypes, start: Times, saw: Times, status: Statuses]
  BY <1>1 DEF IInv, FindingOK
<1>3. TxOK'
  BY <1>1, <1>2 DEF IInv, TxOK, Begin
<1>4. UNCHANGED <<finding, line, ep, kept, fixed, filled, owed, dropped, gap>>
  BY DEF Begin
<1>5. FindingOK' /\ HostsOK' /\ Bare'
  BY <1>4 DEF IInv, FindingOK, TrailUnbroken, HostsOK, HostOK, Functional, Bare
<1> QED
  BY <1>3, <1>5 DEF IInv

\* The finding and the hosts as they are.
LEMMA NothingWritten ==
  ASSUME IInv, UNCHANGED <<finding, line, ep, kept, fixed, filled, owed, dropped, gap>>, TxOK'
  PROVE  IInv'
  BY DEF IInv, FindingOK, TrailUnbroken, HostsOK, HostOK, Functional, Bare

\* What is left to show of an action that ends its transaction.
LEMMA Committed ==
  ASSUME IInv, NEW u \in Actors, End(u), begun' = begun,
         FindingOK', Functional', finding'.id # 0 \/ UNCHANGED <<finding, ep, owed>>,
         \A g \in Hosts : HostOK(g)'
  PROVE  IInv'
<1>1. Bare'
  BY DEF IInv, Bare
<1> QED
  BY <1>1, EndKeeps DEF IInv, HostsOK

\* A first promotion inserts the finding and attaches its hosts.
LEMMA CreateKeeps ==
  ASSUME IInv, NEW u \in Actors, NEW S \in SUBSET Hosts, NEW status \in Statuses, Create(u, S, status)
  PROVE  IInv'
<1>1. tx[u].start \in Times /\ tx[u].start # 0
  BY UnderWay DEF Create, Promotes, IInv, Never
<1>2. FindingOK' /\ finding'.id # 0
  BY <1>1, NewFinding DEF Create
<1>3. Functional'
  BY DEF Create, Attached, IInv, HostsOK, Functional
<1>4. ASSUME NEW g \in Hosts PROVE HostOK(g)'
  <2>1. HostOK(g) /\ ~ep[g].on /\ owed[g] = Never
    BY DEF Create, IInv, HostsOK, Bare
  <2>2. dropped'[g] = Lost(S)[g]
    BY <2>1 DEF Create, Lost, HostOK
  <2> QED
    BY <2>1, <2>2, AttachKeeps DEF Create
<1> QED
  BY <1>2, <1>3, <1>4, Committed DEF Create

\* A promotion that joins changes the status if it may, and attaches hosts.
LEMMA JoinKeeps ==
  ASSUME IInv, NEW u \in Actors, NEW S \in SUBSET Hosts, NEW status \in Statuses,
         NEW here \in BOOLEAN, Join(u, S, status, here)
  PROVE  IInv'
<1>1. tx[u].start \in Times /\ tx[u].start # Never
  BY UnderWay DEF Join, Promotes, IInv
<1>2. FindingOK' /\ finding'.id # 0
  <2>1. finding.id # 0
    BY DEF Join, Joins
  <2>2. CASE SetTo(u, status)
    BY <2>1, <2>2, SetToKeeps DEF IInv, SetTo, FindingOK
  <2>3. CASE NoLine /\ UNCHANGED finding
    BY <2>1, <2>3 DEF IInv, NoLine, FindingOK, TrailUnbroken
  <2> QED
    BY <2>2, <2>3 DEF Join
<1>3. Functional'
  BY DEF Join, Lost, IInv, HostsOK, Functional
<1>4. ASSUME NEW g \in Hosts PROVE HostOK(g)'
  <2>1. HostOK(g)
    BY DEF IInv, HostsOK
  <2>2. CASE here /\ g \in S /\ ep[g].state = "false_positive"
    <3>1. ep[g].on /\ ep[g].asked = Never
      BY <2>1, <2>2, NewRows DEF HostOK
    <3>2. /\ ep'[g] \in Row /\ ep'[g].on /\ ep'[g].state = "open"
          /\ ep'[g].asked = Never
      <4>1. ep'[g] = Moved(ep[g], "open", tx[u].start) /\ "open" \in States /\ ep[g] \in Row
        BY <2>1, <2>2 DEF Join, HostOK, States
      <4> QED
        BY <1>1, <2>2, <3>1, <4>1, MovedRow
    <3>3. dropped'[g] = dropped[g]
      BY <2>1, <3>1 DEF Join, Lost, HostOK
    <3> QED
      BY <2>1, <3>1, <3>2, <3>3 DEF Join, HostOK
  <2>3. CASE ~(here /\ g \in S /\ ep[g].state = "false_positive")
    BY <2>1, <2>3, AttachKeeps DEF Join
  <2> QED
    BY <2>2, <2>3
<1> QED
  BY <1>2, <1>3, <1>4, Committed DEF Join

\* A dismissal on one host closes what is owed there.
LEMMA DismissKeeps ==
  ASSUME IInv, NEW u \in Actors, NEW h \in Hosts, DismissHere(u, h)
  PROVE  IInv'
<1>1. tx[u].start \in Times /\ tx[u].start # Never
  BY UnderWay DEF DismissHere, IInv
<1>2. FindingOK' /\ finding'.id # 0
  <2>1. CASE finding' = [id |-> tx[u].start, status |-> "false_positive"] /\ line' = "false_positive" /\ gap' = FALSE
    BY <1>1, <2>1, NewFinding DEF Statuses, Never
  <2>2. CASE Joins(u) /\ NoLine /\ UNCHANGED finding
    BY <2>2 DEF IInv, Joins, NoLine, FindingOK, TrailUnbroken
  <2> QED
    BY <2>1, <2>2 DEF DismissHere
<1>3. Functional'
  BY DEF DismissHere, StillDropped, IInv, HostsOK, Functional
<1>4. ASSUME NEW g \in Hosts PROVE HostOK(g)'
  <2>1. HostOK(g)
    BY DEF IInv, HostsOK
  <2>2. CASE g = h /\ ep[h].on
    <3>1. /\ ep'[h] = Moved(ep[h], "false_positive", tx[u].start)
          /\ owed'[h] = Owes(h, "false_positive", tx[u].start)
      BY <2>2 DEF DismissHere, Attached, IInv, HostsOK, Functional
    <3>2. /\ dropped'[h] = (dropped[h] /\ owed'[h] # Never /\ ep'[h].asked = Never)
          /\ kept'[h] = kept[h] /\ fixed'[h] = fixed[h] /\ filled'[h] \in BOOLEAN
          /\ "false_positive" \in States
      BY <2>1, <2>2 DEF DismissHere, StillDropped, States, HostOK
    <3> QED
      BY <1>1, <2>1, <2>2, <3>1, <3>2, MoveKeeps
  <2>3. CASE g = h /\ ~ep[h].on
    <3>1. /\ ep'[h] = Moved(Fresh, "false_positive", tx[u].start)
          /\ owed'[h] = Never
      BY <2>3 DEF DismissHere, Attached, Owes, IInv, HostsOK, Functional
    <3>2. ep'[h] \in Row /\ ep'[h].on /\ ep'[h].state = "false_positive" /\ ep'[h].asked = Never
      <4>1. "false_positive" \in States
        BY DEF States
      <4> QED
        BY <1>1, <3>1, <4>1, NewRows, MovedRow
    <3>3. dropped'[h] = FALSE
      BY <3>1 DEF DismissHere, StillDropped
    <3> QED
      BY <2>1, <2>3, <3>1, <3>2, <3>3, NewRows DEF DismissHere, HostOK
  <2>4. CASE g # h
    <3>1. /\ ep'[g] = ep[g] /\ kept'[g] = kept[g] /\ fixed'[g] = fixed[g] /\ filled'[g] = filled[g]
          /\ owed'[g] = owed[g]
      BY <2>4 DEF DismissHere, IInv, HostsOK, Functional
    <3>2. dropped'[g] = dropped[g] \/ dropped'[g] = (dropped[g] /\ owed'[g] # Never /\ ep'[g].asked = Never)
      BY DEF DismissHere, StillDropped
    <3> QED
      BY <2>1, <3>1, <3>2, LeftAlone
  <2> QED
    BY <2>2, <2>3, <2>4
<1> QED
  BY <1>2, <1>3, <1>4, Committed DEF DismissHere

\* A person's new status of the issue.
LEMMA SetStatusKeeps ==
  ASSUME IInv, NEW u \in Actors, NEW status \in Statuses, SetStatus(u, status)
  PROVE  IInv'
<1>1. FindingOK' /\ finding'.id # 0
  BY SetToKeeps DEF SetStatus, Holds, IInv, SetTo, FindingOK
<1>2. Functional' /\ \A g \in Hosts : HostOK(g)'
  BY DEF SetStatus, IInv, HostsOK, HostOK, Functional
<1> QED
  BY <1>1, <1>2, Committed DEF SetStatus

\* An action that writes hosts only, of a finding that is there.
LEMMA FindingStays ==
  ASSUME IInv, UNCHANGED <<finding, line, gap>>
  PROVE  FindingOK'
  BY DEF IInv, FindingOK, TrailUnbroken

\* Endpoints moved together.
LEMMA MoveEndpointsKeeps ==
  ASSUME IInv, NEW u \in Actors, NEW S \in SUBSET Hosts, NEW state \in States, MoveEndpoints(u, S, state)
  PROVE  IInv'
<1>1. tx[u].start \in Times /\ tx[u].start # Never
  BY UnderWay DEF MoveEndpoints, IInv
<1>2. FindingOK' /\ finding'.id # 0
  BY FindingStays DEF MoveEndpoints, Holds
<1>3. Functional'
  BY DEF MoveEndpoints, StillDropped, IInv, HostsOK, Functional
<1>4. ASSUME NEW g \in Hosts PROVE HostOK(g)'
  <2>1. HostOK(g) /\ kept'[g] = kept[g] /\ fixed'[g] = fixed[g] /\ filled'[g] = filled[g]
    BY DEF IInv, HostsOK, MoveEndpoints
  <2>2. dropped'[g] = (dropped[g] /\ owed'[g] # Never /\ ep'[g].asked = Never)
    BY DEF MoveEndpoints, StillDropped
  <2>3. CASE g \in S
    <3>1. /\ ep'[g] = Moved(ep[g], state, tx[u].start) /\ ep[g].on
          /\ owed'[g] = Owes(g, state, tx[u].start) /\ filled'[g] \in BOOLEAN
      BY <2>1, <2>3 DEF MoveEndpoints, HostOK
    <3> QED
      BY <1>1, <2>1, <2>2, <3>1, MoveKeeps
  <2>4. CASE g \notin S
    BY <2>1, <2>2, <2>4, LeftAlone DEF MoveEndpoints
  <2> QED
    BY <2>3, <2>4
<1> QED
  BY <1>2, <1>3, <1>4, Committed DEF MoveEndpoints

\* A retest's result closes the request.
LEMMA RecordRetestKeeps ==
  ASSUME IInv, NEW u \in Actors, NEW h \in Hosts, NEW found \in BOOLEAN, RecordRetest(u, h, found)
  PROVE  IInv'
<1> DEFINE result == IF found THEN fixed[h] ELSE Later(fixed[h], tx[u].start)
           state == IF found THEN "open" ELSE "remediated"
<1>1. tx[u].start \in Times /\ tx[u].start # Never
  BY UnderWay DEF RecordRetest, IInv
<1>2. FindingOK' /\ finding'.id # 0
  BY FindingStays DEF RecordRetest, Holds
<1>3. Functional'
  BY DEF RecordRetest, StillDropped, IInv, HostsOK, Functional
<1>4. ASSUME NEW g \in Hosts PROVE HostOK(g)'
  <2>1. HostOK(g) /\ kept'[g] = kept[g] /\ filled'[g] = filled[g]
    BY DEF IInv, HostsOK, RecordRetest
  <2>2. dropped'[g] = (dropped[g] /\ owed'[g] # Never /\ ep'[g].asked = Never)
    BY DEF RecordRetest, StillDropped
  <2>3. CASE g = h
    <3>1. ep[h] \in Row /\ ep[h].on /\ state \in States
      BY <2>1, <2>3 DEF RecordRetest, HostOK, States
    <3>2. ep'[h] = [Moved(ep[h], state, tx[u].start) EXCEPT !.asked = Never]
      BY DEF RecordRetest, IInv, HostsOK, Functional
    <3>3. /\ Moved(ep[h], state, tx[u].start) \in Row /\ Moved(ep[h], state, tx[u].start).on
          /\ Moved(ep[h], state, tx[u].start).state = state
      BY <1>1, <3>1, MovedRow
    <3>4. ep'[h] \in Row /\ ep'[h].on /\ ep'[h].state = state /\ ep'[h].asked = Never
      BY <3>2, <3>3, NewRows DEF Row
    <3>5. fixed'[h] \in Times
      BY <1>1, <2>1, <2>3 DEF RecordRetest, IInv, HostsOK, Functional, HostOK, Later
    <3>6. owed'[h] = Never
      BY DEF RecordRetest, IInv, HostsOK, Functional
    <3> QED
      BY <2>1, <2>2, <2>3, <3>4, <3>5, <3>6, NewRows DEF HostOK
  <2>4. CASE g # h
    <3>1. /\ ep'[g] = ep[g] /\ kept'[g] = kept[g] /\ fixed'[g] = fixed[g] /\ filled'[g] = filled[g]
          /\ owed'[g] = owed[g]
      BY <2>4 DEF RecordRetest, IInv, HostsOK, Functional
    <3>2. dropped'[g] = dropped[g] \/ dropped'[g] = (dropped[g] /\ owed'[g] # Never /\ ep'[g].asked = Never)
      BY DEF RecordRetest, StillDropped
    <3> QED
      BY <2>1, <3>1, <3>2, LeftAlone
  <2> QED
    BY <2>3, <2>4
<1> QED
  BY <1>2, <1>3, <1>4, Committed DEF RecordRetest

\* An agent's result dates the row's, and decides nothing.
LEMMA AgentResultKeeps ==
  ASSUME IInv, NEW u \in Actors, NEW h \in Hosts, AgentResult(u, h)
  PROVE  IInv'
<1>1. tx[u].start \in Times
  BY UnderWay DEF AgentResult, IInv
<1>2. FindingOK'
  BY FindingStays DEF AgentResult
<1>3. Functional'
  BY DEF AgentResult, IInv, HostsOK, Functional
<1>4. ASSUME NEW g \in Hosts PROVE HostOK(g)'
  <2>1. HostOK(g) /\ Later(fixed[h], tx[u].start) \in Times
    BY <1>1 DEF IInv, HostsOK, HostOK, Later
  <2>2. fixed'[g] = IF g = h THEN Later(fixed[h], tx[u].start) ELSE fixed[g]
    BY DEF AgentResult, IInv, HostsOK, Functional
  <2> QED
    BY <2>1, <2>2 DEF AgentResult, HostOK
<1> QED
  BY <1>2, <1>3, <1>4, Committed DEF AgentResult

\* A contact's report asks for a retest, where one is to be asked for.
LEMMA ReportedFixedKeeps ==
  ASSUME IInv, NEW u \in Actors, NEW h \in Hosts, ReportedFixed(u, h)
  PROVE  IInv'
<1> DEFINE asks == ep[h].state = "open" /\ finding.status # "false_positive"
<1>1. tx[u].start \in Times /\ tx[u].start # Never
  BY UnderWay DEF ReportedFixed, IInv
<1>2. FindingOK' /\ finding'.id # 0
  BY FindingStays DEF ReportedFixed, Holds
<1>3. Functional'
  BY DEF ReportedFixed, StillDropped, IInv, HostsOK, Functional
<1>4. ASSUME NEW g \in Hosts PROVE HostOK(g)'
  <2>1. HostOK(g) /\ kept'[g] = kept[g] /\ fixed'[g] = fixed[g]
    BY DEF IInv, HostsOK, ReportedFixed
  <2>2. dropped'[g] = (dropped[g] /\ owed'[g] # Never /\ ep'[g].asked = Never)
    BY DEF ReportedFixed, StillDropped
  <2>3. filled'[g] = IF g = h THEN TRUE ELSE filled[g]
    BY DEF ReportedFixed, IInv, HostsOK, Functional
  <2>4. CASE g = h /\ asks
    <3>1. /\ ep'[h] = Moved(ep[h], "retest", tx[u].start) /\ ep[h].on
          /\ owed'[h] = Owes(h, "retest", tx[u].start) /\ "retest" \in States
      BY <2>4 DEF ReportedFixed, IInv, HostsOK, Functional, States
    <3> QED
      BY <1>1, <2>1, <2>2, <2>3, <2>4, <3>1, MoveKeeps
  <2>5. CASE ~(g = h /\ asks)
    <3>1. ep'[g] = ep[g] /\ owed'[g] = owed[g] /\ (g = h => ep[g].on)
      BY <2>5 DEF ReportedFixed, IInv, HostsOK, Functional
    <3> QED
      BY <2>1, <2>2, <2>3, <3>1, NewRows DEF HostOK
  <2> QED
    BY <2>4, <2>5
<1> QED
  BY <1>2, <1>3, <1>4, Committed DEF ReportedFixed

\* The same call with anything else only fills the record in.
LEMMA FillRecordKeeps ==
  ASSUME IInv, NEW u \in Actors, NEW h \in Hosts, FillRecord(u, h)
  PROVE  IInv'
<1>1. FindingOK' /\ finding'.id # 0
  BY FindingStays DEF FillRecord, Holds
<1>2. Functional'
  BY DEF FillRecord, IInv, HostsOK, Functional
<1>3. ASSUME NEW g \in Hosts PROVE HostOK(g)'
  <2>1. HostOK(g) /\ filled'[g] = IF g = h THEN TRUE ELSE filled[g]
    BY DEF FillRecord, IInv, HostsOK, Functional
  <2> QED
    BY <2>1 DEF FillRecord, HostOK
<1> QED
  BY <1>1, <1>2, <1>3, Committed DEF FillRecord

\* Hosts added are rows that are there, or fresh ones.
LEMMA AddHostsKeeps ==
  ASSUME IInv, NEW u \in Actors, NEW S \in SUBSET Hosts, AddHosts(u, S)
  PROVE  IInv'
<1>1. FindingOK' /\ finding'.id # 0
  BY FindingStays DEF AddHosts, Holds
<1>2. Functional'
  BY DEF AddHosts, Attached, Lost, IInv, HostsOK, Functional
<1>3. \A g \in Hosts : HostOK(g)'
  BY AttachKeeps DEF AddHosts, IInv, HostsOK
<1> QED
  BY <1>1, <1>2, <1>3, Committed DEF AddHosts

\* A removal moves the request from the row to its line.
LEMMA RemoveKeeps ==
  ASSUME IInv, NEW u \in Actors, NEW h \in Hosts, Remove(u, h)
  PROVE  IInv'
<1>1. FindingOK' /\ finding'.id # 0
  BY FindingStays DEF Remove, Holds
<1>2. Functional'
  BY DEF Remove, Unlinked, IInv, HostsOK, Functional
<1>3. ASSUME NEW g \in Hosts PROVE HostOK(g)'
  <2>1. HostOK(g)
    BY DEF IInv, HostsOK
  <2>2. CASE g = h
    <3>1. /\ ep'[h] = Detached /\ kept'[h] = ep[h].asked /\ fixed'[h] = Never /\ ~filled'[h]
          /\ filled'[h] \in BOOLEAN
      BY DEF Remove, Unlinked, IInv, HostsOK, Functional
    <3>2. ep[h].on /\ ep[h].asked \in Times
      BY <2>1, <2>2 DEF Remove, HostOK, Row
    <3>3. owed'[h] = owed[h] /\ dropped'[h] = dropped[h]
      BY DEF Remove
    <3> QED
      BY <2>1, <2>2, <3>1, <3>2, <3>3, NewRows DEF HostOK
  <2>3. CASE g # h
    <3>1. /\ ep'[g] = ep[g] /\ kept'[g] = kept[g] /\ fixed'[g] = fixed[g] /\ filled'[g] = filled[g]
          /\ owed'[g] = owed[g]
      BY <2>3 DEF Remove, Unlinked, IInv, HostsOK, Functional
    <3>2. dropped'[g] = dropped[g] \/ dropped'[g] = (dropped[g] /\ owed'[g] # Never /\ ep'[g].asked = Never)
      BY DEF Remove
    <3> QED
      BY <2>1, <3>1, <3>2, LeftAlone
  <2> QED
    BY <2>2, <2>3
<1> QED
  BY <1>1, <1>2, <1>3, Committed DEF Remove

\* A restore takes the kept request before the state is set.
LEMMA RestoreKeeps ==
  ASSUME IInv, NEW u \in Actors, NEW h \in Hosts, NEW state \in States, Restore(u, h, state)
  PROVE  IInv'
<1> DEFINE row == IF ep[h].on THEN ep[h] ELSE [Fresh EXCEPT !.asked = kept[h]]
<1>1. tx[u].start \in Times /\ tx[u].start # Never
  BY UnderWay DEF Restore, IInv
<1>2. FindingOK' /\ finding'.id # 0
  BY FindingStays DEF Restore, Holds
<1>3. Functional'
  BY DEF Restore, StillDropped, IInv, HostsOK, Functional
<1>4. ASSUME NEW g \in Hosts PROVE HostOK(g)'
  <2>1. HostOK(g) /\ kept'[g] = kept[g] /\ fixed'[g] = fixed[g] /\ filled'[g] = filled[g]
    BY DEF IInv, HostsOK, Restore
  <2>2. dropped'[g] = (dropped[g] /\ owed'[g] # Never /\ ep'[g].asked = Never)
    BY DEF Restore, StillDropped
  <2>3. CASE g = h
    <3>1. /\ row \in Row /\ row.on
          /\ owed[h] # Never => row.asked = owed[h] \/ dropped[h]
          /\ row.state = "retest" => row.asked # Never
          /\ row.asked # Never => row.state \in {"open", "retest"} /\ owed[h] = row.asked
      BY <2>1, <2>3, NewRows DEF HostOK
    <3>2. /\ ep'[h] = Moved(row, state, tx[u].start)
          /\ owed'[h] = IF row.state = state THEN owed[h]
                        ELSE IF state = "retest" THEN tx[u].start
                        ELSE IF state = "open" THEN owed[h] ELSE Never
      BY DEF Restore, AskedAgain, IInv, HostsOK, Functional
    <3> HIDE DEF row
    <3>3. /\ ep'[h] \in Row /\ ep'[h].on /\ ep'[h].state = state
          /\ ep'[h].asked = IF row.state = state THEN row.asked
                            ELSE IF state = "retest" THEN tx[u].start
                            ELSE IF state \in {"remediated", "false_positive"} THEN Never
                            ELSE row.asked
      BY <1>1, <3>1, <3>2, MovedRow
    <3>4. state \in {"open", "retest", "remediated", "false_positive"}
      BY DEF States
    <3>5. owed'[h] \in Times
      BY <1>1, <2>1, <2>3, <3>2, NewRows DEF HostOK
    <3> QED
      BY <1>1, <2>1, <2>2, <2>3, <3>1, <3>2, <3>3, <3>4, <3>5 DEF HostOK
  <2>4. CASE g # h
    <3>1. /\ ep'[g] = ep[g] /\ kept'[g] = kept[g] /\ fixed'[g] = fixed[g] /\ filled'[g] = filled[g]
          /\ owed'[g] = owed[g]
      BY <2>4 DEF Restore, IInv, HostsOK, Functional
    <3>2. dropped'[g] = dropped[g] \/ dropped'[g] = (dropped[g] /\ owed'[g] # Never /\ ep'[g].asked = Never)
      BY DEF Restore, StillDropped
    <3> QED
      BY <2>1, <3>1, <3>2, LeftAlone
  <2> QED
    BY <2>3, <2>4
<1> QED
  BY <1>2, <1>3, <1>4, Committed DEF Restore

\* A deletion leaves nothing.
LEMMA DeleteKeeps ==
  ASSUME IInv, NEW u \in Actors, Delete(u)
  PROVE  IInv'
<1>1. FindingOK'
  BY NewRows DEF Delete, NoFinding, IInv, FindingOK, TrailUnbroken, Statuses, Never
<1>2. HostsOK' /\ Bare'
  BY NewRows DEF Delete, HostsOK, HostOK, Functional, Bare
<1>3. TxOK'
  BY EndKeeps DEF Delete, IInv
<1> QED
  BY <1>1, <1>2, <1>3 DEF IInv

\* Every step keeps the invariant.
LEMMA NextInv == IInv /\ [Next]_vars => IInv'
<1> SUFFICES ASSUME IInv, [Next]_vars PROVE IInv'
  OBVIOUS
<1>1. ASSUME NEW u \in Actors, NEW as \in {"person", "test", "bulk", "agent"}, Begin(u, as) PROVE IInv'
  BY <1>1, BeginKeeps DEF TxTypes
<1>2. ASSUME NEW u \in Actors, Abandon(u) PROVE IInv'
  BY <1>2, EndKeeps, NothingWritten DEF Abandon, IInv
<1>3. ASSUME NEW u \in Actors, Delete(u) PROVE IInv'
  BY <1>3, DeleteKeeps
<1>4. ASSUME NEW u \in Actors, NEW status \in Statuses, SetStatus(u, status) PROVE IInv'
  BY <1>4, SetStatusKeeps
<1>5. ASSUME NEW u \in Actors, NEW S \in SUBSET Hosts, AddHosts(u, S) PROVE IInv'
  BY <1>5, AddHostsKeeps
<1>6. ASSUME NEW u \in Actors, NEW S \in SUBSET Hosts, NEW state \in States, MoveEndpoints(u, S, state)
      PROVE IInv'
  BY <1>6, MoveEndpointsKeeps
<1>7. ASSUME NEW u \in Actors, NEW S \in SUBSET Hosts, NEW status \in Statuses, Create(u, S, status)
      PROVE IInv'
  BY <1>7, CreateKeeps
<1>8. ASSUME NEW u \in Actors, NEW S \in SUBSET Hosts, NEW status \in Statuses, NEW here \in BOOLEAN,
             Join(u, S, status, here)
      PROVE IInv'
  BY <1>8, JoinKeeps
<1>9. ASSUME NEW u \in Actors, NEW h \in Hosts, DismissHere(u, h) PROVE IInv'
  BY <1>9, DismissKeeps
<1>10. ASSUME NEW u \in Actors, NEW h \in Hosts, AgentResult(u, h) PROVE IInv'
  BY <1>10, AgentResultKeeps
<1>11. ASSUME NEW u \in Actors, NEW h \in Hosts, ReportedFixed(u, h) PROVE IInv'
  BY <1>11, ReportedFixedKeeps
<1>12. ASSUME NEW u \in Actors, NEW h \in Hosts, FillRecord(u, h) PROVE IInv'
  BY <1>12, FillRecordKeeps
<1>13. ASSUME NEW u \in Actors, NEW h \in Hosts, Remove(u, h) PROVE IInv'
  BY <1>13, RemoveKeeps
<1>14. ASSUME NEW u \in Actors, NEW h \in Hosts, NEW found \in BOOLEAN, RecordRetest(u, h, found) PROVE IInv'
  BY <1>14, RecordRetestKeeps
<1>15. ASSUME NEW u \in Actors, NEW h \in Hosts, NEW state \in States, Restore(u, h, state) PROVE IInv'
  BY <1>15, RestoreKeeps
<1>16. CASE UNCHANGED vars
  BY <1>16 DEF vars, IInv, TxOK, FindingOK, TrailUnbroken, HostsOK, HostOK, Functional, Bare
<1> QED
  BY <1>1, <1>2, <1>3, <1>4, <1>5, <1>6, <1>7, <1>8, <1>9, <1>10, <1>11, <1>12, <1>13, <1>14,
     <1>15, <1>16 DEF Next

---------------------------------------------------------------------------
(* What a step may not do.                                                 *)

\* A transaction that is over after a step is the one that took it.
LEMMA OwnEnd ==
  ASSUME IInv, NEW u \in Actors, NEW v \in Actors, End(v), tx[u].as # "none", tx'[u].as = "none"
  PROVE  u = v
  BY DEF IInv, TxOK, End

\* A test's evidence and the bulk promotion change a status by Join alone, and
\* that only from open to confirmed, as a test.
LEMMA StepJudges ==
  IInv /\ [Next]_vars =>
    \A u \in Actors :
       /\ tx[u].as \in {"test", "bulk"} /\ tx'[u].as = "none"
       /\ finding.id # 0 /\ finding'.status # finding.status
       => tx[u].as = "test" /\ finding.status = "open" /\ finding'.status = "confirmed"
<1> SUFFICES ASSUME IInv, [Next]_vars, NEW u \in Actors,
                    tx[u].as \in {"test", "bulk"}, tx'[u].as = "none",
                    finding.id # 0, finding'.status # finding.status
             PROVE  tx[u].as = "test" /\ finding.status = "open" /\ finding'.status = "confirmed"
  OBVIOUS
<1>1. finding' # finding
  OBVIOUS
<1>2. ASSUME NEW v \in Actors, Delete(v) \/ \E status \in Statuses : SetStatus(v, status)
      PROVE  FALSE
  <2>1. tx[v].as = "person" /\ End(v)
    BY <1>2 DEF Delete, SetStatus
  <2> QED
    BY <2>1, OwnEnd
<1>3. ASSUME NEW v \in Actors, NEW h \in Hosts, DismissHere(v, h)
      PROVE  FALSE
  BY <1>1, <1>3 DEF DismissHere
<1>4. ASSUME NEW v \in Actors, NEW S \in SUBSET Hosts, NEW status \in Statuses, Create(v, S, status)
      PROVE  FALSE
  BY <1>4 DEF Create
<1>5. ASSUME NEW v \in Actors, NEW S \in SUBSET Hosts, NEW status \in Statuses, NEW here \in BOOLEAN,
             Join(v, S, status, here)
      PROVE  tx[u].as = "test" /\ finding.status = "open" /\ finding'.status = "confirmed"
  <2>1. u = v /\ MayRestatus(v, status) /\ SetTo(v, status)
    BY <1>1, <1>5, OwnEnd DEF Join
  <2>2. finding \in [id: Times, status: Statuses]
    BY DEF IInv, FindingOK
  <2> QED
    BY <2>1, <2>2 DEF MayRestatus, SetTo, StatusUnderLock
<1>6. ASSUME NEW v \in Actors, NEW as, Begin(v, as) PROVE FALSE
  BY <1>1, <1>6 DEF Begin
<1>7. ASSUME NEW v \in Actors, Abandon(v) PROVE FALSE
  BY <1>1, <1>7 DEF Abandon
<1>8. ASSUME NEW v \in Actors, NEW S, AddHosts(v, S) PROVE FALSE
  BY <1>1, <1>8 DEF AddHosts
<1>9. ASSUME NEW v \in Actors, NEW S, NEW state, MoveEndpoints(v, S, state) PROVE FALSE
  BY <1>1, <1>9 DEF MoveEndpoints
<1>10. ASSUME NEW v \in Actors, NEW g, AgentResult(v, g) PROVE FALSE
  BY <1>1, <1>10 DEF AgentResult
<1>11. ASSUME NEW v \in Actors, NEW g, ReportedFixed(v, g) PROVE FALSE
  BY <1>1, <1>11 DEF ReportedFixed
<1>12. ASSUME NEW v \in Actors, NEW g, FillRecord(v, g) PROVE FALSE
  BY <1>1, <1>12 DEF FillRecord
<1>13. ASSUME NEW v \in Actors, NEW g, Remove(v, g) PROVE FALSE
  BY <1>1, <1>13 DEF Remove
<1>14. ASSUME NEW v \in Actors, NEW g, NEW found, RecordRetest(v, g, found) PROVE FALSE
  BY <1>1, <1>14 DEF RecordRetest
<1>15. ASSUME NEW v \in Actors, NEW g, NEW state, Restore(v, g, state) PROVE FALSE
  BY <1>1, <1>15 DEF Restore
<1>16. CASE UNCHANGED vars
  BY <1>1, <1>16 DEF vars
<1> QED
  BY <1>2, <1>3, <1>4, <1>5, <1>6, <1>7, <1>8, <1>9, <1>10, <1>11, <1>12, <1>13, <1>14, <1>15, <1>16 DEF Next

\* A row becomes remediated by a move, a retest's result or a restore, each of
\* which meets the request on it.
LEMMA StepAnswersRetest ==
  IInv /\ [Next]_vars =>
    \A h \in Hosts : BecomesRemediated(h) /\ ~dropped[h] => owed[h] <= fixed'[h]
<1> SUFFICES ASSUME IInv, [Next]_vars, NEW h \in Hosts, BecomesRemediated(h), ~dropped[h]
             PROVE  owed[h] <= fixed'[h]
  OBVIOUS
<1>1. /\ HostOK(h) /\ owed[h] # Never /\ finding.status # "false_positive"
      /\ ep'[h].on /\ ep'[h].state = "remediated" /\ ep'[h] # ep[h]
  BY DEF BecomesRemediated, IInv, HostsOK
<1>2. ep[h].on => ep[h].asked = owed[h] /\ ep[h].state # "remediated" /\ ep[h] \in Row
  BY <1>1 DEF HostOK, BecomesRemediated
<1>3. ASSUME NEW w \in Row, NEW state \in States, NEW now, w.state # "remediated",
             Moved(w, state, now).state = "remediated"
      PROVE  state = "remediated"
  BY <1>3 DEF Moved, Row
<1>4. ASSUME NEW u \in Actors, NEW S \in SUBSET Hosts, NEW state \in States, MoveEndpoints(u, S, state)
      PROVE  owed[h] <= fixed'[h]
  <2>1. h \in S /\ ep'[h] = Moved(ep[h], state, tx[u].start) /\ ep[h].on
    BY <1>1, <1>4 DEF MoveEndpoints
  <2>2. state = "remediated"
    BY <1>1, <1>2, <1>3, <2>1
  <2> QED
    BY <1>1, <1>2, <1>4, <2>1, <2>2 DEF MoveEndpoints, MayMove, RetestStands, ResultRecorded
<1>5. ASSUME NEW u \in Actors, NEW g \in Hosts, NEW found \in BOOLEAN, RecordRetest(u, g, found)
      PROVE  owed[h] <= fixed'[h]
  <2> DEFINE result == IF found THEN fixed[g] ELSE Later(fixed[g], tx[u].start)
             state == IF found THEN "open" ELSE "remediated"
  <2>1. g = h /\ ep[h].on /\ MayMove(ep[h], state, finding.status, result) /\ fixed'[h] = result
    BY <1>1, <1>5 DEF RecordRetest, IInv, HostsOK, Functional
  <2>2. ep'[h] = [Moved(ep[h], state, tx[u].start) EXCEPT !.asked = Never]
    BY <1>5, <2>1 DEF RecordRetest, IInv, HostsOK, Functional
  <2>3. state \in States /\ tx[u].start \in Times
    BY <1>5, UnderWay DEF States, RecordRetest, IInv
  <2>4. Moved(ep[h], state, tx[u].start) \in Row /\ Moved(ep[h], state, tx[u].start).state = state
    BY <1>2, <2>1, <2>3, MovedRow
  <2>5. state = "remediated"
    BY <1>1, <2>2, <2>4 DEF Row
  <2> HIDE DEF result, state
  <2> QED
    BY <1>1, <1>2, <2>1, <2>5 DEF MayMove, RetestStands, ResultRecorded
<1>6. ASSUME NEW u \in Actors, NEW g \in Hosts, NEW state \in States, Restore(u, g, state)
      PROVE  owed[h] <= fixed'[h]
  <2> DEFINE row == IF ep[h].on THEN ep[h] ELSE [Fresh EXCEPT !.asked = kept[h]]
  <2>1. g = h
    BY <1>1, <1>6 DEF Restore, IInv, HostsOK, Functional
  <2>2. /\ MayMove(row, state, finding.status, fixed[h]) /\ fixed'[h] = fixed[h]
        /\ ep'[h] = Moved(row, state, tx[u].start)
    BY <1>6, <2>1 DEF Restore, AskedAgain, IInv, HostsOK, Functional
  <2>3. row \in Row /\ row.state # "remediated" /\ row.asked = owed[h]
    BY <1>1, <1>2, NewRows DEF HostOK
  <2> HIDE DEF row
  <2>4. state = "remediated"
    BY <1>1, <1>3, <2>2, <2>3
  <2> QED
    BY <1>1, <2>2, <2>3, <2>4 DEF MayMove, RetestStands, ResultRecorded
<1>7. ASSUME NEW S \in SUBSET Hosts, ep'[h] = Attached(S)[h]
      PROVE  FALSE
  BY <1>1, <1>7, NewRows DEF Attached
<1>8. ASSUME NEW u \in Actors, NEW S \in SUBSET Hosts, NEW status \in Statuses, NEW here \in BOOLEAN,
             Join(u, S, status, here)
      PROVE  FALSE
  <2>1. CASE here /\ h \in S /\ ep[h].state = "false_positive"
    <3>1. ep'[h] = Moved(ep[h], "open", tx[u].start) /\ "open" \in States /\ ep[h] \in Row
      BY <1>1, <1>8, <2>1 DEF Join, States, HostOK
    <3> QED
      BY <1>1, <1>3, <2>1, <3>1
  <2>2. CASE ~(here /\ h \in S /\ ep[h].state = "false_positive")
    BY <1>7, <1>8, <2>2 DEF Join
  <2> QED
    BY <2>1, <2>2
<1>9. ASSUME NEW u \in Actors, NEW g \in Hosts, DismissHere(u, g)
      PROVE  FALSE
  <2>1. g = h /\ ep'[h] = Moved(Attached({h})[h], "false_positive", tx[u].start)
    BY <1>1, <1>9 DEF DismissHere, IInv, HostsOK, Functional
  <2>2. Attached({h})[h] \in Row /\ Attached({h})[h].state # "remediated" /\ "false_positive" \in States
    BY <1>1, <1>2, NewRows DEF Attached, States, HostOK
  <2> QED
    BY <1>1, <1>3, <2>1, <2>2
<1>10. ASSUME NEW u \in Actors, NEW g \in Hosts, ReportedFixed(u, g)
      PROVE  FALSE
  <2>1. g = h /\ ep'[h] = Moved(ep[h], "retest", tx[u].start) /\ ep[h].on /\ "retest" \in States
    BY <1>1, <1>10 DEF ReportedFixed, States, IInv, HostsOK, Functional
  <2> QED
    BY <1>1, <1>2, <1>3, <2>1
<1>11. ASSUME NEW u \in Actors, NEW g \in Hosts, Remove(u, g)
       PROVE  FALSE
  <2>1. ep'[h] = ep[h] \/ ep'[h] = Detached
    BY <1>11 DEF Remove, IInv, HostsOK, Functional
  <2> QED
    BY <1>1, <2>1, NewRows
<1>12. ASSUME NEW u \in Actors, NEW S \in SUBSET Hosts, NEW status \in Statuses, Create(u, S, status)
       PROVE  FALSE
  BY <1>7, <1>12 DEF Create
<1>13. ASSUME NEW u \in Actors, NEW S \in SUBSET Hosts, AddHosts(u, S)
       PROVE  FALSE
  BY <1>7, <1>13 DEF AddHosts
<1>14. ep' # ep
  BY <1>1
<1>15. ASSUME NEW u \in Actors, Delete(u) PROVE FALSE
  <2>1. ep'[h] = Detached
    BY <1>15 DEF Delete
  <2> QED
    BY <1>1, <2>1, NewRows
<1>16. ASSUME NEW u \in Actors, NEW as, Begin(u, as) PROVE FALSE
  BY <1>14, <1>16 DEF Begin
<1>17. ASSUME NEW u \in Actors, Abandon(u) PROVE FALSE
  BY <1>14, <1>17 DEF Abandon
<1>18. ASSUME NEW u \in Actors, NEW status, SetStatus(u, status) PROVE FALSE
  BY <1>14, <1>18 DEF SetStatus
<1>19. ASSUME NEW u \in Actors, NEW g, AgentResult(u, g) PROVE FALSE
  BY <1>14, <1>19 DEF AgentResult
<1>20. ASSUME NEW u \in Actors, NEW g, FillRecord(u, g) PROVE FALSE
  BY <1>14, <1>20 DEF FillRecord
<1>21. CASE UNCHANGED vars
  BY <1>14, <1>21 DEF vars
<1> QED
  BY <1>4, <1>5, <1>6, <1>8, <1>9, <1>10, <1>11, <1>12, <1>13, <1>15, <1>16, <1>17, <1>18, <1>19, <1>20, <1>21 DEF Next

\* A record is unfilled by a removal and a deletion only, which ask for an admin.
LEMMA StepKeepsRecords ==
  IInv /\ [Next]_vars =>
    \A h \in Hosts : filled[h] /\ ~filled'[h] => \E u \in Admins : tx[u].as # "none" /\ tx'[u].as = "none"
<1> SUFFICES ASSUME IInv, [Next]_vars, NEW h \in Hosts, filled[h], ~filled'[h]
             PROVE  \E u \in Admins : tx[u].as # "none" /\ tx'[u].as = "none"
  OBVIOUS
<1>1. ASSUME NEW u \in Actors, End(u), tx[u].as # "none", u \in Admins
      PROVE  \E v \in Admins : tx[v].as # "none" /\ tx'[v].as = "none"
  BY <1>1 DEF End, Idle, IInv, TxOK
<1>2. ASSUME NEW u \in Actors, Delete(u)
      PROVE  \E v \in Admins : tx[v].as # "none" /\ tx'[v].as = "none"
  BY <1>1, <1>2 DEF Delete, MayDropRecords
<1>3. ASSUME NEW u \in Actors, NEW g \in Hosts, Remove(u, g)
      PROVE  \E v \in Admins : tx[v].as # "none" /\ tx'[v].as = "none"
  <2>1. g = h
    BY <1>3 DEF Remove, IInv, HostsOK, Functional
  <2> QED
    BY <1>1, <1>3, <2>1 DEF Remove, MayDropRecords
<1>4. ASSUME NEW u \in Actors, NEW g \in Hosts, ReportedFixed(u, g) \/ FillRecord(u, g)
      PROVE  FALSE
  BY <1>4 DEF ReportedFixed, FillRecord, IInv, HostsOK, Functional
<1>5. filled' # filled
  OBVIOUS
<1>6. ASSUME NEW u \in Actors, NEW as, Begin(u, as) PROVE FALSE
  BY <1>5, <1>6 DEF Begin
<1>7. ASSUME NEW u \in Actors, Abandon(u) PROVE FALSE
  BY <1>5, <1>7 DEF Abandon
<1>8. ASSUME NEW u \in Actors, NEW status, SetStatus(u, status) PROVE FALSE
  BY <1>5, <1>8 DEF SetStatus
<1>9. ASSUME NEW u \in Actors, NEW S, AddHosts(u, S) PROVE FALSE
  BY <1>5, <1>9 DEF AddHosts
<1>10. ASSUME NEW u \in Actors, NEW S, NEW state, MoveEndpoints(u, S, state) PROVE FALSE
  BY <1>5, <1>10 DEF MoveEndpoints
<1>11. ASSUME NEW u \in Actors, NEW S, NEW status, Create(u, S, status) PROVE FALSE
  BY <1>5, <1>11 DEF Create
<1>12. ASSUME NEW u \in Actors, NEW S, NEW status, NEW here, Join(u, S, status, here) PROVE FALSE
  BY <1>5, <1>12 DEF Join
<1>13. ASSUME NEW u \in Actors, NEW g, DismissHere(u, g) PROVE FALSE
  BY <1>5, <1>13 DEF DismissHere
<1>14. ASSUME NEW u \in Actors, NEW g, AgentResult(u, g) PROVE FALSE
  BY <1>5, <1>14 DEF AgentResult
<1>15. ASSUME NEW u \in Actors, NEW g, NEW found, RecordRetest(u, g, found) PROVE FALSE
  BY <1>5, <1>15 DEF RecordRetest
<1>16. ASSUME NEW u \in Actors, NEW g, NEW state, Restore(u, g, state) PROVE FALSE
  BY <1>5, <1>16 DEF Restore
<1>17. CASE UNCHANGED vars
  BY <1>5, <1>17 DEF vars
<1> QED
  BY <1>2, <1>3, <1>4, <1>6, <1>7, <1>8, <1>9, <1>10, <1>11, <1>12, <1>13, <1>14, <1>15, <1>16, <1>17 DEF Next

---------------------------------------------------------------------------
(* The theorems.                                                           *)

\* The functions of TypeOK, from what is said of each host.
LEMMA Typed == IInv => TypeOK
<1> SUFFICES ASSUME IInv PROVE TypeOK
  OBVIOUS
<1>1. /\ ep \in [Hosts -> Row] /\ kept \in [Hosts -> Times] /\ fixed \in [Hosts -> Times]
      /\ owed \in [Hosts -> Times] /\ filled \in [Hosts -> BOOLEAN] /\ dropped \in [Hosts -> BOOLEAN]
      /\ \A h \in Hosts : ~ep[h].on => ep[h] = Detached /\ fixed[h] = Never /\ ~filled[h]
  BY DEF IInv, HostsOK, HostOK, Functional
<1>2. gap \in BOOLEAN
  BY DEF IInv, FindingOK
<1> QED
  BY <1>1, <1>2 DEF TypeOK, IInv, TxOK, TxTypes, FindingOK

\* Every variable keeps its type, and what goes with a row goes.
THEOREM TypeCorrect == Spec => []TypeOK
  BY InitInv, NextInv, Typed, PTL DEF Spec

\* However transactions interleave, the history's newest line is the status
\* the finding has: the status is read again under the lock.
THEOREM TrailTrue == Spec => []TrailUnbroken
<1>1. IInv => TrailUnbroken
  BY DEF IInv, FindingOK
<1> QED
  BY <1>1, InitInv, NextInv, PTL DEF Spec

\* An owed retest is on its row whenever the row is there, unless the host was
\* attached afresh after its removal.
THEOREM RetestsStay == Spec => []RetestOnItsRow
<1>1. IInv => RetestOnItsRow
  BY DEF IInv, HostsOK, HostOK, RetestOnItsRow
<1> QED
  BY <1>1, InitInv, NextInv, PTL DEF Spec

\* An endpoint becomes remediated against an owed retest only by a result
\* recorded since it was asked for.
THEOREM RetestsAnswered == Spec => NoWayRound
  BY InitInv, NextInv, StepAnswersRetest, PTL DEF Spec, NoWayRound

\* Evidence and bulk promotion re-judge no issue.
THEOREM EvidenceOnly == Spec => ResultsDoNotJudge
  BY InitInv, NextInv, StepJudges, PTL DEF Spec, ResultsDoNotJudge

\* A filled-in remediation record goes only in an admin's transaction.
THEOREM RecordsGuarded == Spec => RecordsKept
  BY InitInv, NextInv, StepKeepsRecords, PTL DEF Spec, RecordsKept
=============================================================================
