----------------------------- MODULE ScanRelease -----------------------------
(***************************************************************************)
(* What several scans reported of one host, and what goes when one of the  *)
(* scans is deleted.  Hosts, ports and the things on them are one row      *)
(* each, overwritten by every scan that reports them; which scans did is   *)
(* spread over history rows, sightings, first-recorder pointers, "last     *)
(* updated by" pointers and a creation stamp.  Two paths delete a scan:    *)
(* the cleanup of an import that failed (delete_partial_scan) and an       *)
(* administrator (DELETE /scans/{id}).  They run the same release step at  *)
(* different places, and people and agents put work on the host meanwhile. *)
(*                                                                         *)
(* The instance is one host, one port on it, one script and one scanner    *)
(* observation on the port, one attribute on the host: every condition of  *)
(* the code is correlated to one host or port row.  Scans are numbered as  *)
(* their rows are, and one import runs at a time, so the order of          *)
(* discovered_at, seen_at and history ids is the order of scan numbers.    *)
(* A transaction's steps write db directly: whoever could see the rows it  *)
(* has not committed waits for its locks instead.                          *)
(***************************************************************************)
EXTENDS Naturals, FiniteSets

CONSTANT MaxScan          \* bound: scans ever started
CONSTANT MaxReports       \* bound: batches one scan writes

ASSUME ScanBounds == MaxScan \in Nat /\ MaxReports \in Nat

VARIABLES db,       \* the rows about the host
          scan,     \* per scan: new, importing, done, failed or gone
          batches,  \* per scan: how many batches it has committed
          doing,    \* the scan delete under way, one per project
          told,     \* history: what each scan has reported, as committed
          worked    \* history: work was put on the host or its observation

vars == <<db, scan, batches, doing, told, worked>>

Scans == 1..MaxScan
NoScan == 0               \* a pointer that is NULL
Earliest(S) == CHOOSE s \in S : \A t \in S : s <= t
Newest(S) == CHOOSE s \in S : \A t \in S : t <= s

Thing == [on: BOOLEAN, first: Scans \cup {NoScan}, seen: SUBSET Scans]
Observation == [on: BOOLEAN, first: Scans \cup {NoScan}, last: Scans \cup {NoScan},
                seen: SUBSET Scans]
Place == [on: BOOLEAN, last: Scans \cup {NoScan}, stamp: Scans \cup {NoScan},
          hist: SUBSET Scans, intro: SUBSET Scans]
Rows == [host: Place, port: Place, script: Thing, attr: Thing, vuln: Observation,
         web: SUBSET Scans, note: BOOLEAN, finding: BOOLEAN]

NoThing == [on |-> FALSE, first |-> NoScan, seen |-> {}]
NoObservation == [on |-> FALSE, first |-> NoScan, last |-> NoScan, seen |-> {}]
NoPlace == [on |-> FALSE, last |-> NoScan, stamp |-> NoScan, hist |-> {}, intro |-> {}]
NoRows == [host |-> NoPlace, port |-> NoPlace, script |-> NoThing, attr |-> NoThing,
           vuln |-> NoObservation, web |-> {}, note |-> FALSE, finding |-> FALSE]

Idle == [kind |-> "none", scan |-> NoScan, step |-> "none", host |-> FALSE,
         vuln |-> FALSE, confirmed |-> FALSE]

(* A note, or the finding whose endpoint the host is. *)
HasWork(d) == d.note \/ d.finding

Init == /\ db = NoRows
        /\ scan = [s \in Scans |-> "new"]
        /\ batches = [s \in Scans |-> 0]
        /\ doing = Idle
        /\ told = [s \in Scans |-> {}]
        /\ worked = FALSE

-----------------------------------------------------------------------------
(* Writers.  One batch of an import: one transaction.                      *)

(* find_or_create_host and find_or_create_port: both stamped, both with a  *)
(* history row that says whether this scan created them.                   *)
SeePlace(p, s) ==
  [on |-> TRUE, last |-> s,
   stamp |-> IF p.on THEN p.stamp ELSE s,
   hist |-> p.hist \cup {s},
   intro |-> IF p.on THEN p.intro ELSE p.intro \cup {s}]

(* Nessus's _get_or_create_port: a stamp and no history row.               *)
TouchPort(p, s) == IF p.on THEN [p EXCEPT !.last = s]
                   ELSE [NoPlace EXCEPT !.on = TRUE, !.last = s, !.stamp = s]

(* A web parser's host: in the scan's history, its updater left alone.     *)
NoteHost(p, s) == [SeePlace(p, s) EXCEPT !.last = p.last, !.stamp = p.stamp]

SeeThing(t, s) == [on |-> TRUE, first |-> IF t.on THEN t.first ELSE s, seen |-> t.seen \cup {s}]

SeeObservation(v, s) == [on |-> TRUE, first |-> IF v.on THEN v.first ELSE s,
                         last |-> s, seen |-> v.seen \cup {s}]

(* What one batch holds: a port scan (with a script or without), a Nessus  *)
(* host with a finding, one with informational items only, a web page.     *)
Reports == {"ports", "scripts", "nessus", "informational", "web"}

Reported(d, s, what) ==
  CASE what = "ports" ->
         [d EXCEPT !.host = SeePlace(@, s), !.port = SeePlace(@, s)]
    [] what = "scripts" ->
         [d EXCEPT !.host = SeePlace(@, s), !.port = SeePlace(@, s), !.script = SeeThing(@, s)]
    [] what = "nessus" ->
         [d EXCEPT !.host = SeePlace(@, s), !.port = TouchPort(@, s),
                   !.attr = SeeThing(@, s), !.vuln = SeeObservation(@, s)]
    [] what = "informational" ->
         [d EXCEPT !.host = SeePlace(@, s), !.port = TouchPort(@, s), !.attr = SeeThing(@, s)]
    [] what = "web" ->
         [d EXCEPT !.host = NoteHost(@, s), !.web = @ \cup {s}]

(* The rows a report is about; a port known from informational items alone *)
(* is "bare port".                                                         *)
About(what) == CASE what = "ports" -> {"host", "port"}
                 [] what = "scripts" -> {"host", "port", "script"}
                 [] what = "nessus" -> {"host", "port", "attr", "vuln"}
                 [] what = "informational" -> {"host", "bare port", "attr"}
                 [] what = "web" -> {"host"}

(* An import starts: its scan row is inserted.                             *)
Start(s) ==
  /\ scan[s] = "new"
  /\ \A t \in Scans : t < s => scan[t] # "new"
  /\ \A t \in Scans : scan[t] # "importing"
  /\ scan' = [scan EXCEPT ![s] = "importing"]
  /\ UNCHANGED <<db, batches, doing, told, worked>>

(* A batch commits under the shared project lock, which a delete holds     *)
(* exclusively.                                                            *)
Report(s, what) ==
  /\ scan[s] = "importing" /\ batches[s] < MaxReports
  /\ doing = Idle
  /\ db' = Reported(db, s, what)
  /\ batches' = [batches EXCEPT ![s] = @ + 1]
  /\ told' = [told EXCEPT ![s] = @ \cup About(what)]
  /\ UNCHANGED <<scan, doing, worked>>

(* The import ends, whole or cut off with what it has committed.           *)
End(s, as) ==
  /\ scan[s] = "importing"
  /\ scan' = [scan EXCEPT ![s] = as]
  /\ UNCHANGED <<db, batches, doing, told, worked>>

-----------------------------------------------------------------------------
(* release_scan: let go of what scan s reported.                           *)

(* Faulty: everything s recorded first goes; the pointer is left alone.    *)
ReleaseThingByFirst(t, s) == IF t.first \in {s, NoScan} THEN NoThing ELSE t
ReleaseThingNotMoved(t, s) == IF t.seen \ {s} = {} THEN NoThing ELSE t

ReleaseThing(t, s) ==
  LET others == t.seen \ {s} IN
  IF s \in t.seen /\ t.first \in {s, NoScan} /\ others = {} THEN NoThing
  ELSE IF t.first = s /\ others # {} THEN [t EXCEPT !.first = Earliest(others)]
  ELSE t

(* The pointers of an observation: first recorder to the earliest other    *)
(* sighting, else to the scan it was last seen by; last to the newest.     *)
MoveObservation(v, s) ==
  LET others == v.seen \ {s}
      toWitness == IF v.first = s /\ others # {} THEN [v EXCEPT !.first = Earliest(others)] ELSE v
      toLast == IF toWitness.first = s /\ v.last \notin {NoScan, s}
                THEN [toWitness EXCEPT !.first = v.last] ELSE toWitness
  IN IF v.last = s /\ others # {} THEN [toLast EXCEPT !.last = Newest(others)] ELSE toLast

OnlyThisScanSaw(v, s) == /\ v.on /\ v.first = s
                         /\ v.last \in {NoScan, s}
                         /\ v.seen \ {s} = {}

RemovedWithScan(d, s) == OnlyThisScanSaw(d.vuln, s) /\ ~d.finding

HandOverNothing(p, s) == p

HandOver(p, s) == IF s \in p.intro /\ p.hist \ {s} # {}
                  THEN [p EXCEPT !.intro = @ \cup {Earliest(p.hist \ {s})}] ELSE p

Repoint(p, s) ==
  IF p.last # s THEN p
  ELSE [p EXCEPT !.last = IF p.hist \ {s} # {} THEN Newest(p.hist \ {s}) ELSE NoScan]

(* Up to the statement that deletes observations, and from it on; struck   *)
(* says whether that statement removes the row.                            *)
ReleasePointers(d, s) == [d EXCEPT !.script = ReleaseThing(@, s), !.attr = ReleaseThing(@, s),
                                   !.vuln = MoveObservation(@, s)]
ReleaseRest(d, s, struck) ==
  [d EXCEPT !.vuln = IF struck THEN NoObservation ELSE @,
            !.finding = @ /\ ~struck,
            !.host = Repoint(HandOver(@, s), s),
            !.port = Repoint(HandOver(@, s), s)]
ReleaseScan(d, s) == LET moved == ReleasePointers(d, s)
                     IN ReleaseRest(moved, s, RemovedWithScan(moved, s))

-----------------------------------------------------------------------------
(* The guards of the two deletes.  before: asked before release_scan.      *)

SeenByAnotherScan(v, s) == v.on /\ (v.first # s \/ v.last \notin {NoScan, s})

FirstRecordedElsewhere(t, s) ==
  /\ t.on
  /\ \/ t.first \notin {s, NoScan}
     \/ t.first = NoScan /\ (s \notin t.seen \/ t.seen \ {s} # {})

HostProvenance(d, s, before) ==
  /\ d.host.hist \ {s} = {}
  /\ before => (d.vuln.seen \cup d.attr.seen \cup d.script.seen) \ {s} = {}
  /\ d.host.last \in {NoScan, s}
  /\ ~SeenByAnotherScan(d.vuln, s)
  /\ d.port.last \in {NoScan, s}
  /\ d.port.hist \ {s} = {}
  /\ ~FirstRecordedElsewhere(d.attr, s)
  /\ d.web \ {s} = {}

PortIsOnlyThisScans(d, s, before) ==
  /\ before => (d.vuln.seen \cup d.script.seen) \ {s} = {}
  /\ d.port.hist \ {s} = {}
  /\ d.port.last \in {NoScan, s}
  /\ ~d.finding
  /\ ~SeenByAnotherScan(d.vuln, s)
  /\ d.script.on => d.script.first = s

HostsScanBrought(d, s) == d.host.on /\ s \in d.host.hist /\ HostProvenance(d, s, TRUE)

HostsCleanupRemoves(d, s) == /\ d.host.on /\ s \in d.host.intro
                             /\ HostProvenance(d, s, FALSE) /\ ~HasWork(d)

DeletePort(d) == [d EXCEPT !.port = NoPlace, !.script = NoThing, !.vuln = NoObservation]

DeletePortsScanCreated(d, s, before) ==
  IF /\ d.port.on /\ (d.port.stamp = s \/ s \in d.port.intro)
     /\ PortIsOnlyThisScans(d, s, before)
  THEN DeletePort(d) ELSE d

(* The scan row: its history, sightings and web rows cascade, the pointers *)
(* that name it are set to NULL.                                           *)
ClearPlace(p, s) ==
  [p EXCEPT !.hist = @ \ {s}, !.intro = @ \ {s},
            !.last = IF @ = s THEN NoScan ELSE @, !.stamp = IF @ = s THEN NoScan ELSE @]
ClearThing(t, s) == [t EXCEPT !.seen = @ \ {s}, !.first = IF @ = s THEN NoScan ELSE @]
ClearObservation(v, s) == [v EXCEPT !.seen = @ \ {s}, !.first = IF @ = s THEN NoScan ELSE @,
                                    !.last = IF @ = s THEN NoScan ELSE @]
DeleteScanRow(d, s) ==
  [d EXCEPT !.host = ClearPlace(@, s), !.port = ClearPlace(@, s),
            !.script = ClearThing(@, s), !.attr = ClearThing(@, s),
            !.vuln = ClearObservation(@, s), !.web = @ \ {s}]

Gone(s) == /\ scan' = [scan EXCEPT ![s] = "gone"]
           /\ told' = [told EXCEPT ![s] = {}]
           /\ doing' = Idle

-----------------------------------------------------------------------------
(* delete_partial_scan, for the scan a failed import left.                 *)

(* The project lock, then release_scan up to its delete of observations,   *)
(* whose rows are chosen here and removed in the next step.                *)
CleanupRelease(s) ==
  /\ scan[s] = "failed" /\ doing = Idle
  /\ db' = ReleasePointers(db, s)
  /\ doing' = [Idle EXCEPT !.kind = "cleanup", !.scan = s, !.step = "released",
                           !.vuln = RemovedWithScan(db', s)]
  /\ UNCHANGED <<scan, batches, told, worked>>

(* The rest of release_scan; then the statement that deletes hosts chooses *)
(* them, and takes no lock on them until it deletes.                       *)
CleanupChoose(s) ==
  /\ doing.kind = "cleanup" /\ doing.scan = s /\ doing.step = "released"
  /\ db' = ReleaseRest(db, s, doing.vuln)
  /\ doing' = [doing EXCEPT !.step = "chosen", !.host = HostsCleanupRemoves(db', s)]
  /\ UNCHANGED <<scan, batches, told, worked>>

CleanupDelete(s) ==
  /\ doing.kind = "cleanup" /\ doing.scan = s /\ doing.step = "chosen"
  /\ db' = DeleteScanRow(DeletePortsScanCreated(IF doing.host THEN NoRows ELSE db, s, FALSE), s)
  /\ worked' = (worked /\ ~doing.host)
  /\ Gone(s)
  /\ UNCHANGED batches

-----------------------------------------------------------------------------
(* DELETE /scans/{id}.                                                     *)

(* Refused while an import runs; the hosts are chosen under the project    *)
(* lock, before anything is written.                                       *)
HandChoose(s, confirmed) ==
  /\ scan[s] \in {"done", "failed"} /\ doing = Idle
  /\ \A t \in Scans : scan[t] # "importing"
  /\ doing' = [Idle EXCEPT !.kind = "hand", !.scan = s, !.confirmed = confirmed,
                           !.host = HostsScanBrought(db, s),
                           !.step = IF confirmed THEN "agreed" ELSE "chosen"]
  /\ UNCHANGED <<db, scan, batches, told, worked>>

(* The rows are locked and then asked for work: 409 and nothing changed,   *)
(* or on with the rows locked.                                             *)
HandCheck(s) ==
  /\ doing.kind = "hand" /\ doing.scan = s /\ doing.step = "chosen"
  /\ doing' = IF doing.host /\ HasWork(db) THEN Idle ELSE [doing EXCEPT !.step = "agreed"]
  /\ UNCHANGED <<db, scan, batches, told, worked>>

HandDelete(s) ==
  /\ doing.kind = "hand" /\ doing.scan = s /\ doing.step = "agreed"
  /\ db' = ReleasePointers(IF doing.host THEN NoRows ELSE db, s)
  /\ worked' = (worked /\ ~doing.host)
  /\ doing' = [doing EXCEPT !.step = "released", !.vuln = RemovedWithScan(db', s)]
  /\ UNCHANGED <<scan, batches, told>>

HandFinish(s) ==
  /\ doing.kind = "hand" /\ doing.scan = s /\ doing.step = "released"
  /\ db' = DeleteScanRow(DeletePortsScanCreated(ReleaseRest(db, s, doing.vuln), s, TRUE), s)
  /\ Gone(s)
  /\ UNCHANGED <<batches, worked>>

-----------------------------------------------------------------------------
(* People and agents.  A row that names the host or the observation waits  *)
(* only for a lock on that row: FOR UPDATE, or a delete not yet committed. *)

HostRowRead == FALSE      \* Faulty: the rows are read, not locked.

HostRowLocked == /\ doing.kind = "hand" /\ ~doing.confirmed /\ doing.host
                 /\ doing.step = "agreed"

AddNote == /\ db.host.on /\ ~db.note /\ ~HostRowLocked
           /\ db' = [db EXCEPT !.note = TRUE]
           /\ worked' = TRUE
           /\ UNCHANGED <<scan, batches, doing, told>>

Promote == /\ db.vuln.on /\ ~db.finding /\ ~HostRowLocked
           /\ db' = [db EXCEPT !.finding = TRUE]
           /\ worked' = TRUE
           /\ UNCHANGED <<scan, batches, doing, told>>

DropFinding == /\ db.finding /\ ~HostRowLocked
               /\ db' = [db EXCEPT !.finding = FALSE]
               /\ UNCHANGED <<scan, batches, doing, told, worked>>

Next == \/ \E s \in Scans : \/ Start(s)
                            \/ \E what \in Reports : Report(s, what)
                            \/ \E as \in {"done", "failed"} : End(s, as)
                            \/ CleanupRelease(s) \/ CleanupChoose(s) \/ CleanupDelete(s)
                            \/ \E yes \in BOOLEAN : HandChoose(s, yes)
                            \/ HandCheck(s) \/ HandDelete(s) \/ HandFinish(s)
        \/ AddNote \/ Promote \/ DropFinding

Spec == Init /\ [][Next]_vars

-----------------------------------------------------------------------------
Live(s) == scan[s] \in {"importing", "done", "failed"} /\ doing.scan # s

(* Foreign keys: no row outlives the row it hangs on.                      *)
Hangs(d) == /\ d.port.on \/ d.attr.on \/ d.note => d.host.on
            /\ d.script.on \/ d.vuln.on => d.port.on
            /\ d.finding => d.vuln.on

(* Every row is well formed and none outlives the row it hangs on.         *)
TypeOK == /\ db \in Rows /\ Hangs(db)
          /\ scan \in [Scans -> {"new", "importing", "done", "failed", "gone"}]
          /\ batches \in [Scans -> 0..MaxReports]
          /\ doing \in [kind: {"none", "cleanup", "hand"}, scan: Scans \cup {NoScan},
                        step: {"none", "chosen", "agreed", "released"},
                        host: BOOLEAN, vuln: BOOLEAN, confirmed: BOOLEAN]
          /\ told \in [Scans -> SUBSET {"host", "port", "bare port", "script", "attr", "vuln"}]
          /\ worked \in BOOLEAN

(* What a scan that is still there reported is still there, whatever other *)
(* scans were deleted, by whichever path and in whatever order.            *)
OthersKeep ==
  \A s \in Scans : Live(s) =>
     /\ "host" \in told[s] => db.host.on
     /\ "port" \in told[s] => db.port.on
     /\ "script" \in told[s] => db.script.on /\ s \in db.script.seen
     /\ "attr" \in told[s] => db.attr.on /\ s \in db.attr.seen
     /\ "vuln" \in told[s] => db.vuln.on /\ s \in db.vuln.seen

(* A first-recorder pointer names a scan that has a sighting of the row;   *)
(* only an observation that was once kept for a finding alone names nobody *)
(* as its first, and whoever saw it since is its last.                     *)
FirstRecorderReal ==
  doing = Idle =>
    /\ db.script.on => db.script.first \in db.script.seen
    /\ db.attr.on => db.attr.first \in db.attr.seen
    /\ db.vuln.on => \/ db.vuln.first \in db.vuln.seen
                     \/ db.vuln.first = NoScan /\ worked
    /\ db.vuln.on /\ db.vuln.seen # {} => db.vuln.last \in db.vuln.seen

(* Nothing outlives the scans that brought it unless somebody worked on it *)
(* (a port Nessus alone created is the exception the code documents).      *)
NothingLeftBehind ==
  doing = Idle =>
    /\ db.host.on => db.host.hist # {} \/ worked
    /\ db.vuln.on => db.vuln.seen # {} \/ worked
    /\ db.host.on /\ db.host.hist # {} => db.host.intro # {} \/ worked

(* The two deletes agree: the guards asked before release_scan and after   *)
(* it have the same answer (for the port: the preview, the hand delete and *)
(* the cleanup), and on a host without work both remove it or neither does.*)
PathsAgree ==
  doing = Idle =>
    \A s \in Scans : scan[s] \in {"done", "failed"} =>
      LET after == ReleaseScan(db, s) IN
      /\ HostProvenance(db, s, TRUE) <=> HostProvenance(after, s, FALSE)
      /\ db.port.on => /\ PortIsOnlyThisScans(db, s, TRUE) <=> PortIsOnlyThisScans(after, s, TRUE)
                       /\ PortIsOnlyThisScans(after, s, TRUE) <=> PortIsOnlyThisScans(after, s, FALSE)
      /\ ~worked => (HostsScanBrought(db, s) <=> HostsCleanupRemoves(after, s))

(* A delete by hand that was not confirmed never removes a host with work, *)
(* not even work added after its hosts were chosen.                        *)
UnconfirmedSparesWork ==
  [][doing.kind = "hand" /\ ~doing.confirmed /\ HasWork(db) => db'.host.on = db.host.on]_vars

(* What delete_partial_scan says: work is never deleted to tidy an import. *)
CleanupSparesWork == [][doing.kind = "cleanup" /\ HasWork(db) => db'.host.on = db.host.on]_vars

(* What work_refers_to_it says: a finding is work a scan delete never      *)
(* removes (an administrator who confirmed removes it with its host).      *)
FindingsSurvive == [][doing # Idle /\ db.finding /\ db'.host.on => db'.finding]_<<db, doing>>

(* What _port_is_only_this_attempts says: a port another scan saw stays.   *)
PortsSeenStay == \A s \in Scans : Live(s) /\ "bare port" \in told[s] => db.port.on
=============================================================================
