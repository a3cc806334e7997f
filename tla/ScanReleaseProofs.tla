-------------------------- MODULE ScanReleaseProofs --------------------------
(***************************************************************************)
(* Proofs about ScanRelease, for any number of scans and of batches: rows  *)
(* are well formed and none outlives the row it hangs on (TypeOK), and     *)
(* what a scan that is still there reported is still there, whatever other *)
(* scans are deleted on whichever path (OthersKeep).                       *)
(*                                                                         *)
(* OthersKeep is not inductive: a row may be there and the evidence that   *)
(* protects it not.  Witnessed says which evidence every scan leaves (a    *)
(* port Nessus created has none of its own: its observation stands for     *)
(* it), for a scan whose delete may still be refused too, and DoingOK what *)
(* a delete under way has made sure of by the step it is at.               *)
(*                                                                         *)
(* The second half is about the pointers, and about what stays when nobody *)
(* reports it any more: FirstRecorderReal, NothingLeftBehind, PathsAgree   *)
(* and UnconfirmedSparesWork, from one invariant of the rows (Sound) that  *)
(* a delete breaks and restores (SInv).                                    *)
(***************************************************************************)
EXTENDS ScanRelease, WellFoundedInduction, TLAPS

Told == {"host", "port", "bare port", "script", "attr", "vuln"}

\* What a scan left behind of what it reported.
Witnessed(d, t, T) ==
  /\ T # {} => d.host.on /\ t \in d.host.hist
  /\ "port" \in T => d.port.on /\ (t \in d.port.hist \/ "vuln" \in T)
  /\ "script" \in T => d.script.on /\ t \in d.script.seen /\ d.port.on /\ t \in d.port.hist
  /\ "attr" \in T => d.attr.on /\ t \in d.attr.seen
  /\ "vuln" \in T => d.vuln.on /\ t \in d.vuln.seen

\* Its delete, if there is one, has written nothing yet.
Untouched(t) == /\ scan[t] \in {"importing", "done", "failed"}
                /\ doing.scan = t => doing.kind = "hand" /\ doing.step \in {"chosen", "agreed"}

\* What a delete under way chose, it was right to choose; and the cleanup's
\* guard of the port finds who else saw its observation.
DoingOK ==
  /\ doing.step \in {"chosen", "agreed"} /\ doing.host => db.host.hist \subseteq {doing.scan}
  /\ doing.step = "released" /\ doing.vuln => db.vuln.seen \subseteq {doing.scan}
  /\ doing.kind = "cleanup" /\ db.vuln.seen \ {doing.scan} # {} => db.vuln.first # doing.scan

ToldOK == /\ \A t \in Scans : Untouched(t) => Witnessed(db, t, told[t])
          /\ \A t \in Scans : scan[t] = "new" => told[t] = {}

IInv == TypeOK /\ DoingOK /\ ToldOK

---------------------------------------------------------------------------
(* The first and the last of some scans.                                   *)

\* A set of numbers has a least one.
LEMMA LeastNumber ==
  ASSUME NEW T \in SUBSET Nat, T # {}
  PROVE  \E x \in T : \A y \in T : x <= y
<1>1. IsWellFoundedOn(OpToRel(<, Nat), Nat)
  BY NatLessThanWellFounded
<1>2. PICK x \in T : \A y \in T : ~(<<y, x>> \in OpToRel(<, Nat))
  BY <1>1, WFMin
<1>3. \A y \in T : ~(y < x)
  BY <1>2 DEF OpToRel
<1> QED
  BY <1>3

\* The pointers' targets: the earliest and the newest of some scans.
LEMMA PointerTargets ==
  ASSUME NEW S \in SUBSET Scans, S # {}
  PROVE  Earliest(S) \in S /\ Newest(S) \in S
<1>1. S \subseteq Nat
  BY ScanBounds DEF Scans
<1>2. \E x \in S : \A y \in S : x <= y
  BY <1>1, LeastNumber
<1>3. \E x \in S : \A y \in S : y <= x
  <2> DEFINE T == {MaxScan - y : y \in S}
  <2>1. T \in SUBSET Nat /\ T # {}
    <3>1. \A y \in S : y \in Nat /\ MaxScan - y \in Nat
      BY ScanBounds DEF Scans
    <3> QED
      BY <3>1
  <2> HIDE DEF T
  <2>2. PICK m \in T : \A y \in T : m <= y
    BY <2>1, LeastNumber
  <2> USE DEF T
  <2>3. PICK x \in S : m = MaxScan - x
    BY <2>2
  <2>4. \A y \in S : MaxScan - x <= MaxScan - y
    BY <2>2, <2>3
  <2> QED
    BY <2>3, <2>4, ScanBounds DEF Scans
<1> QED
  BY <1>2, <1>3 DEF Earliest, Newest

---------------------------------------------------------------------------
(* What the operations make of one row.                                    *)

\* The shape of a row, for the provers.
PlaceShape(p) == /\ p = [on |-> p.on, last |-> p.last, stamp |-> p.stamp, hist |-> p.hist, intro |-> p.intro]
                 /\ p.on \in BOOLEAN /\ p.last \in Scans \cup {NoScan} /\ p.stamp \in Scans \cup {NoScan}
                 /\ p.hist \in SUBSET Scans /\ p.intro \in SUBSET Scans

\* A place that is seen is there and in the scan's history.
LEMMA Seen ==
  \A p \in Place, s \in Scans : SeePlace(p, s) \in Place /\ SeePlace(p, s).on /\ SeePlace(p, s).hist = p.hist \cup {s}
<1> SUFFICES ASSUME NEW p \in Place, NEW s \in Scans
             PROVE  SeePlace(p, s) \in Place /\ SeePlace(p, s).on /\ SeePlace(p, s).hist = p.hist \cup {s}
  OBVIOUS
<1>1. PlaceShape(p)
  BY DEF Place, PlaceShape
<1> QED
  BY <1>1 DEF PlaceShape, SeePlace, Place

\* So is one a web parser noted.
LEMMA Noted ==
  \A p \in Place, s \in Scans : NoteHost(p, s) \in Place /\ NoteHost(p, s).on /\ NoteHost(p, s).hist = p.hist \cup {s}
<1> SUFFICES ASSUME NEW p \in Place, NEW s \in Scans
             PROVE  NoteHost(p, s) \in Place /\ NoteHost(p, s).on /\ NoteHost(p, s).hist = p.hist \cup {s}
  OBVIOUS
<1>1. PlaceShape(p)
  BY DEF Place, PlaceShape
<1> QED
  BY <1>1, Seen DEF PlaceShape, NoteHost, Place

\* A port Nessus touches is there; its history stays as it was.
LEMMA Touched ==
  \A p \in Place, s \in Scans : TouchPort(p, s) \in Place /\ TouchPort(p, s).on /\ (p.on => TouchPort(p, s).hist = p.hist)
<1> SUFFICES ASSUME NEW p \in Place, NEW s \in Scans
             PROVE  TouchPort(p, s) \in Place /\ TouchPort(p, s).on /\ (p.on => TouchPort(p, s).hist = p.hist)
  OBVIOUS
<1>1. PlaceShape(p)
  BY DEF Place, PlaceShape
<1> QED
  BY <1>1 DEF PlaceShape, TouchPort, NoPlace, Place

\* Handing over and repointing move pointers only.
LEMMA HandedOver ==
  \A p \in Place, s \in Scans : HandOver(p, s) \in Place /\ HandOver(p, s).on = p.on /\ HandOver(p, s).hist = p.hist
<1> SUFFICES ASSUME NEW p \in Place, NEW s \in Scans
             PROVE  HandOver(p, s) \in Place /\ HandOver(p, s).on = p.on /\ HandOver(p, s).hist = p.hist
  OBVIOUS
<1>1. PlaceShape(p)
  BY DEF Place, PlaceShape
<1> QED
  BY <1>1, PointerTargets DEF PlaceShape, HandOver, Place

\* Repointing leaves the history.
LEMMA Repointed ==
  \A p \in Place, s \in Scans : Repoint(p, s) \in Place /\ Repoint(p, s).on = p.on /\ Repoint(p, s).hist = p.hist
<1> SUFFICES ASSUME NEW p \in Place, NEW s \in Scans
             PROVE  Repoint(p, s) \in Place /\ Repoint(p, s).on = p.on /\ Repoint(p, s).hist = p.hist
  OBVIOUS
<1>1. PlaceShape(p)
  BY DEF Place, PlaceShape
<1> QED
  BY <1>1, PointerTargets DEF PlaceShape, Repoint, Place

\* The scan row's cascade takes s out of the history.
LEMMA Cleared ==
  \A p \in Place, s \in Scans : ClearPlace(p, s) \in Place /\ ClearPlace(p, s).on = p.on /\ ClearPlace(p, s).hist = p.hist \ {s}
<1> SUFFICES ASSUME NEW p \in Place, NEW s \in Scans
             PROVE  ClearPlace(p, s) \in Place /\ ClearPlace(p, s).on = p.on /\ ClearPlace(p, s).hist = p.hist \ {s}
  OBVIOUS
<1>1. PlaceShape(p)
  BY DEF Place, PlaceShape
<1> QED
  BY <1>1 DEF PlaceShape, ClearPlace, Place

\* A script or an attribute that is seen is there.
LEMMA ThingSeen ==
  \A t \in Thing, s \in Scans :
     SeeThing(t, s) \in Thing /\ SeeThing(t, s).on /\ SeeThing(t, s).seen = t.seen \cup {s}
<1> SUFFICES ASSUME NEW t \in Thing, NEW s \in Scans
             PROVE  SeeThing(t, s) \in Thing /\ SeeThing(t, s).on /\ SeeThing(t, s).seen = t.seen \cup {s}
  OBVIOUS
<1>1. /\ t.on \in BOOLEAN /\ t.first \in Scans \cup {NoScan} /\ t.seen \in SUBSET Scans
      /\ t = [on |-> t.on, first |-> t.first, seen |-> t.seen]
  BY DEF Thing
<1> QED
  BY <1>1 DEF SeeThing, Thing

\* Released, it stays for whoever else saw it.
LEMMA ThingReleased ==
  \A t \in Thing, s \in Scans :
     ReleaseThing(t, s) \in Thing /\ (ReleaseThing(t, s).on => t.on)
     /\ \A u \in t.seen \ {s} : ReleaseThing(t, s).on = t.on /\ u \in ReleaseThing(t, s).seen
<1> SUFFICES ASSUME NEW t \in Thing, NEW s \in Scans
             PROVE  ReleaseThing(t, s) \in Thing /\ (ReleaseThing(t, s).on => t.on)
     /\ \A u \in t.seen \ {s} : ReleaseThing(t, s).on = t.on /\ u \in ReleaseThing(t, s).seen
  OBVIOUS
<1>1. /\ t.on \in BOOLEAN /\ t.first \in Scans \cup {NoScan} /\ t.seen \in SUBSET Scans
      /\ t = [on |-> t.on, first |-> t.first, seen |-> t.seen]
  BY DEF Thing
<1> QED
  BY <1>1, PointerTargets DEF ReleaseThing, NoThing, Thing

\* The cascade takes s's sighting.
LEMMA ThingCleared ==
  \A t \in Thing, s \in Scans :
     ClearThing(t, s) \in Thing /\ ClearThing(t, s).on = t.on /\ ClearThing(t, s).seen = t.seen \ {s}
<1> SUFFICES ASSUME NEW t \in Thing, NEW s \in Scans
             PROVE  ClearThing(t, s) \in Thing /\ ClearThing(t, s).on = t.on /\ ClearThing(t, s).seen = t.seen \ {s}
  OBVIOUS
<1>1. /\ t.on \in BOOLEAN /\ t.first \in Scans \cup {NoScan} /\ t.seen \in SUBSET Scans
      /\ t = [on |-> t.on, first |-> t.first, seen |-> t.seen]
  BY DEF Thing
<1> QED
  BY <1>1 DEF ClearThing, Thing

\* An observation that is seen is there.
LEMMA ObservationSeen ==
  \A v \in Observation, s \in Scans :
     SeeObservation(v, s) \in Observation /\ SeeObservation(v, s).on
     /\ SeeObservation(v, s).seen = v.seen \cup {s}
<1> SUFFICES ASSUME NEW v \in Observation, NEW s \in Scans
             PROVE  SeeObservation(v, s) \in Observation /\ SeeObservation(v, s).on
     /\ SeeObservation(v, s).seen = v.seen \cup {s}
  OBVIOUS
<1>1. /\ v.on \in BOOLEAN /\ v.first \in Scans \cup {NoScan} /\ v.last \in Scans \cup {NoScan}
      /\ v.seen \in SUBSET Scans
  BY DEF Observation
<1> QED
  BY <1>1 DEF SeeObservation, Observation

\* Its pointers move to whoever else saw it.
LEMMA ObservationMoved ==
  \A v \in Observation, s \in Scans :
     MoveObservation(v, s) \in Observation /\ MoveObservation(v, s).on = v.on
     /\ MoveObservation(v, s).seen = v.seen
     /\ (v.seen \ {s} # {} => MoveObservation(v, s).first # s)
<1> SUFFICES ASSUME NEW v \in Observation, NEW s \in Scans
             PROVE  MoveObservation(v, s) \in Observation /\ MoveObservation(v, s).on = v.on
     /\ MoveObservation(v, s).seen = v.seen
     /\ (v.seen \ {s} # {} => MoveObservation(v, s).first # s)
  OBVIOUS
<1>1. /\ v.on \in BOOLEAN /\ v.first \in Scans \cup {NoScan} /\ v.last \in Scans \cup {NoScan}
      /\ v.seen \in SUBSET Scans
  BY DEF Observation
<1> DEFINE others == v.seen \ {s}
           w == IF v.first = s /\ others # {} THEN [v EXCEPT !.first = Earliest(others)] ELSE v
           x == IF w.first = s /\ v.last \notin {NoScan, s} THEN [w EXCEPT !.first = v.last] ELSE w
<1>2. others # {} => Earliest(others) \in others /\ Newest(others) \in others /\ others \subseteq Scans
  BY <1>1, PointerTargets
<1>3. w \in Observation /\ w.on = v.on /\ w.seen = v.seen /\ w.last = v.last /\ (others # {} => w.first # s)
  BY <1>1, <1>2 DEF Observation
<1>4. x \in Observation /\ x.on = v.on /\ x.seen = v.seen /\ (others # {} => x.first # s)
  BY <1>1, <1>3 DEF Observation
<1>5. MoveObservation(v, s) = IF v.last = s /\ others # {} THEN [x EXCEPT !.last = Newest(others)] ELSE x
  BY DEF MoveObservation
<1> HIDE DEF x, w
<1> QED
  BY <1>1, <1>2, <1>4, <1>5 DEF Observation

\* The cascade takes s's sighting of it.
LEMMA ObservationCleared ==
  \A v \in Observation, s \in Scans :
     ClearObservation(v, s) \in Observation /\ ClearObservation(v, s).on = v.on
     /\ ClearObservation(v, s).seen = v.seen \ {s}
<1> SUFFICES ASSUME NEW v \in Observation, NEW s \in Scans
             PROVE  ClearObservation(v, s) \in Observation /\ ClearObservation(v, s).on = v.on
     /\ ClearObservation(v, s).seen = v.seen \ {s}
  OBVIOUS
<1>1. /\ v.on \in BOOLEAN /\ v.first \in Scans \cup {NoScan} /\ v.last \in Scans \cup {NoScan}
      /\ v.seen \in SUBSET Scans
  BY DEF Observation
<1> QED
  BY <1>1 DEF ClearObservation, Observation

\* The rows that are not there.
LEMMA NoRow == /\ NoPlace \in Place /\ ~NoPlace.on
               /\ NoThing \in Thing /\ ~NoThing.on
               /\ NoObservation \in Observation /\ ~NoObservation.on /\ NoObservation.seen = {}
  BY DEF NoPlace, NoThing, NoObservation, Place, Thing, Observation

---------------------------------------------------------------------------
(* What they make of the rows about the host.                              *)

\* What is witnessed for a scan stays: what a step to e leaves of d's rows.
Spares(d, e, t) ==
  /\ d.host.on /\ t \in d.host.hist => e.host.on /\ t \in e.host.hist
  /\ d.port.on /\ (t \in d.port.hist \/ (d.vuln.on /\ t \in d.vuln.seen)) => e.port.on
  /\ d.port.on /\ t \in d.port.hist => t \in e.port.hist
  /\ d.port.on /\ t \in d.port.hist /\ d.script.on /\ t \in d.script.seen => e.script.on /\ t \in e.script.seen
  /\ d.attr.on /\ t \in d.attr.seen => e.attr.on /\ t \in e.attr.seen
  /\ d.vuln.on /\ t \in d.vuln.seen => e.vuln.on /\ t \in e.vuln.seen

\* Spared is witnessed still.
LEMMA SparedIsWitnessed ==
  ASSUME NEW d, NEW e, NEW t, NEW T, Spares(d, e, t), Witnessed(d, t, T)
  PROVE  Witnessed(e, t, T)
  BY DEF Spares, Witnessed

\* The rows' fields, and the rows of a host that is not there.
LEMMA RowFields ==
  /\ \A d \in Rows : /\ d.host \in Place /\ d.port \in Place /\ d.script \in Thing /\ d.attr \in Thing
                     /\ d.vuln \in Observation /\ d.web \in SUBSET Scans
                     /\ d.note \in BOOLEAN /\ d.finding \in BOOLEAN
  /\ NoRows \in Rows /\ Hangs(NoRows) /\ NoRows.vuln.seen = {} /\ ~NoRows.host.on
<1>1. NoPlace \in Place /\ NoThing \in Thing /\ NoObservation \in Observation
  BY DEF NoPlace, NoThing, NoObservation, Place, Thing, Observation
<1>2. NoRows \in Rows /\ NoRows.vuln.seen = {} /\ ~NoRows.host.on
  BY <1>1 DEF NoRows, Rows, NoObservation, NoPlace
<1>3. Hangs(NoRows)
  BY DEF NoRows, Hangs, NoPlace, NoThing, NoObservation
<1> QED
  BY <1>2, <1>3 DEF Rows

\* A batch adds to what is there, and is witnessed.
LEMMA BatchRows ==
  ASSUME NEW d \in Rows, Hangs(d), NEW s \in Scans, NEW what \in Reports
  PROVE  /\ Reported(d, s, what) \in Rows /\ Hangs(Reported(d, s, what))
         /\ \A t \in Scans : Spares(d, Reported(d, s, what), t)
         /\ \A T : Witnessed(d, s, T) => Witnessed(Reported(d, s, what), s, T \cup About(what))
<1> DEFINE e == Reported(d, s, what)
<1>1. /\ d.host \in Place /\ d.port \in Place /\ d.script \in Thing /\ d.attr \in Thing
      /\ d.vuln \in Observation /\ d.web \in SUBSET Scans
      /\ d.note \in BOOLEAN /\ d.finding \in BOOLEAN
  BY DEF Rows
<1>2. /\ e.host \in {SeePlace(d.host, s), NoteHost(d.host, s)}
      /\ e.port = IF what \in {"ports", "scripts"} THEN SeePlace(d.port, s)
                  ELSE IF what = "web" THEN d.port ELSE TouchPort(d.port, s)
      /\ e.script = IF what = "scripts" THEN SeeThing(d.script, s) ELSE d.script
      /\ e.attr = IF what \in {"nessus", "informational"} THEN SeeThing(d.attr, s) ELSE d.attr
      /\ e.vuln = IF what = "nessus" THEN SeeObservation(d.vuln, s) ELSE d.vuln
      /\ e.web \in SUBSET Scans /\ e.note = d.note /\ e.finding = d.finding
      /\ e = [host |-> e.host, port |-> e.port, script |-> e.script, attr |-> e.attr, vuln |-> e.vuln,
              web |-> e.web, note |-> e.note, finding |-> e.finding]
  <2>1. CASE what = "ports"
    BY <1>1, <2>1 DEF Reported, Rows
  <2>2. CASE what = "scripts"
    BY <1>1, <2>2 DEF Reported, Rows
  <2>3. CASE what = "nessus"
    BY <1>1, <2>3 DEF Reported, Rows
  <2>4. CASE what = "informational"
    BY <1>1, <2>4 DEF Reported, Rows
  <2>5. CASE what = "web"
    BY <1>1, <2>5 DEF Reported, Rows
  <2> QED
    BY <2>1, <2>2, <2>3, <2>4, <2>5 DEF Reports
<1> HIDE DEF e
<1>3. /\ e.host \in Place /\ e.host.on /\ e.host.hist = d.host.hist \cup {s}
      /\ e.port \in Place /\ (d.port.on => e.port.on /\ d.port.hist \subseteq e.port.hist)
      /\ (what # "web" => e.port.on)
      /\ (what \in {"ports", "scripts"} => s \in e.port.hist)
  <2>1. /\ SeePlace(d.host, s) \in Place /\ SeePlace(d.host, s).on /\ SeePlace(d.host, s).hist = d.host.hist \cup {s}
        /\ NoteHost(d.host, s) \in Place /\ NoteHost(d.host, s).on /\ NoteHost(d.host, s).hist = d.host.hist \cup {s}
    BY <1>1, Seen, Noted
  <2>2. /\ SeePlace(d.port, s) \in Place /\ SeePlace(d.port, s).on /\ SeePlace(d.port, s).hist = d.port.hist \cup {s}
        /\ TouchPort(d.port, s) \in Place /\ TouchPort(d.port, s).on
        /\ (d.port.on => TouchPort(d.port, s).hist = d.port.hist)
    BY <1>1, Seen, Touched
  <2> QED
    BY <1>1, <1>2, <2>1, <2>2
<1>4. /\ e.script \in Thing /\ d.script.seen \subseteq e.script.seen /\ (d.script.on => e.script.on)
      /\ (what = "scripts" => e.script.on /\ s \in e.script.seen)
      /\ (e.script.on => d.script.on \/ what = "scripts")
  <2>1. SeeThing(d.script, s) \in Thing /\ SeeThing(d.script, s).on /\ SeeThing(d.script, s).seen = d.script.seen \cup {s}
    BY <1>1, ThingSeen
  <2> QED
    BY <1>1, <1>2, <2>1
<1>5. /\ e.attr \in Thing /\ d.attr.seen \subseteq e.attr.seen /\ (d.attr.on => e.attr.on)
      /\ (what \in {"nessus", "informational"} => e.attr.on /\ s \in e.attr.seen)
  <2>1. SeeThing(d.attr, s) \in Thing /\ SeeThing(d.attr, s).on /\ SeeThing(d.attr, s).seen = d.attr.seen \cup {s}
    BY <1>1, ThingSeen
  <2> QED
    BY <1>1, <1>2, <2>1
<1>6. /\ e.vuln \in Observation /\ d.vuln.seen \subseteq e.vuln.seen /\ (d.vuln.on => e.vuln.on)
      /\ (what = "nessus" => e.vuln.on /\ s \in e.vuln.seen)
      /\ (e.vuln.on => d.vuln.on \/ what = "nessus")
  <2>1. /\ SeeObservation(d.vuln, s) \in Observation /\ SeeObservation(d.vuln, s).on
        /\ SeeObservation(d.vuln, s).seen = d.vuln.seen \cup {s}
    BY <1>1, ObservationSeen
  <2> QED
    BY <1>1, <1>2, <2>1
<1>7. e \in Rows
  BY <1>1, <1>2, <1>3, <1>4, <1>5, <1>6 DEF Rows
<1>8. Hangs(e)
  BY <1>2, <1>3, <1>4, <1>6 DEF Hangs
<1>9. \A t \in Scans : Spares(d, e, t)
  BY <1>3, <1>4, <1>5, <1>6 DEF Spares
<1>10. ASSUME NEW T, Witnessed(d, s, T)
       PROVE  Witnessed(e, s, T \cup About(what))
  <2>1. Witnessed(e, s, T)
    BY <1>9, <1>10, SparedIsWitnessed
  <2>2. /\ ("port" \in About(what) => what \in {"ports", "scripts", "nessus"})
        /\ ("script" \in About(what) => what = "scripts")
        /\ ("attr" \in About(what) => what \in {"nessus", "informational"})
        /\ ("vuln" \in About(what) => what = "nessus")
        /\ (what = "nessus" => "vuln" \in About(what))
    BY DEF About, Reports
  <2> QED
    BY <1>3, <1>4, <1>5, <1>6, <2>1, <2>2 DEF Witnessed
<1> QED
  BY <1>7, <1>8, <1>9, <1>10 DEF e

\* release_scan's pointers: rows go that only s saw.
LEMMA PointersReleased ==
  ASSUME NEW d \in Rows, Hangs(d), NEW s \in Scans
  PROVE  /\ ReleasePointers(d, s) \in Rows /\ Hangs(ReleasePointers(d, s))
         /\ \A t \in Scans \ {s} : Spares(d, ReleasePointers(d, s), t)
         /\ d.vuln.seen \ {s} # {} => ReleasePointers(d, s).vuln.first # s
         /\ ReleasePointers(d, s).vuln.seen = d.vuln.seen
         /\ ReleasePointers(d, s).host = d.host
<1> DEFINE e == ReleasePointers(d, s)
<1>1. /\ d.host \in Place /\ d.port \in Place /\ d.script \in Thing /\ d.attr \in Thing
      /\ d.vuln \in Observation /\ d.web \in SUBSET Scans
      /\ d.note \in BOOLEAN /\ d.finding \in BOOLEAN
  BY DEF Rows
<1>2. /\ e.host = d.host /\ e.port = d.port /\ e.web = d.web /\ e.note = d.note /\ e.finding = d.finding
      /\ e.script = ReleaseThing(d.script, s) /\ e.attr = ReleaseThing(d.attr, s)
      /\ e.vuln = MoveObservation(d.vuln, s)
  BY DEF ReleasePointers, Rows
<1> HIDE DEF e
<1>3. /\ e.script \in Thing /\ (e.script.on => d.script.on)
      /\ \A u \in d.script.seen \ {s} : e.script.on = d.script.on /\ u \in e.script.seen
  BY <1>1, <1>2, ThingReleased
<1>4. /\ e.attr \in Thing /\ (e.attr.on => d.attr.on)
      /\ \A u \in d.attr.seen \ {s} : e.attr.on = d.attr.on /\ u \in e.attr.seen
  BY <1>1, <1>2, ThingReleased
<1>5. /\ e.vuln \in Observation /\ e.vuln.on = d.vuln.on /\ e.vuln.seen = d.vuln.seen
      /\ (d.vuln.seen \ {s} # {} => e.vuln.first # s)
  BY <1>1, <1>2, ObservationMoved
<1>6. e \in Rows
  BY <1>1, <1>2, <1>3, <1>4, <1>5 DEF e, ReleasePointers, Rows
<1>7. Hangs(e)
  BY <1>2, <1>3, <1>4, <1>5 DEF Hangs
<1>8. \A t \in Scans \ {s} : Spares(d, e, t)
  BY <1>2, <1>3, <1>4, <1>5 DEF Spares
<1> QED
  BY <1>2, <1>5, <1>6, <1>7, <1>8 DEF e

\* The rest of it: an observation that is struck is s's alone.
LEMMA RestReleased ==
  ASSUME NEW d \in Rows, Hangs(d), NEW s \in Scans, NEW struck \in BOOLEAN,
         struck => d.vuln.seen \subseteq {s}
  PROVE  /\ ReleaseRest(d, s, struck) \in Rows /\ Hangs(ReleaseRest(d, s, struck))
         /\ \A t \in Scans \ {s} : Spares(d, ReleaseRest(d, s, struck), t)
         /\ ReleaseRest(d, s, struck).vuln \in {d.vuln, NoObservation}
<1> DEFINE e == ReleaseRest(d, s, struck)
<1>1. /\ d.host \in Place /\ d.port \in Place /\ d.script \in Thing /\ d.attr \in Thing
      /\ d.vuln \in Observation /\ d.web \in SUBSET Scans
      /\ d.note \in BOOLEAN /\ d.finding \in BOOLEAN
  BY DEF Rows
<1>2. /\ e.script = d.script /\ e.attr = d.attr /\ e.web = d.web /\ e.note = d.note
      /\ e.finding = (d.finding /\ ~struck)
      /\ e.vuln = IF struck THEN NoObservation ELSE d.vuln
      /\ e.host = Repoint(HandOver(d.host, s), s) /\ e.port = Repoint(HandOver(d.port, s), s)
  BY DEF ReleaseRest, Rows
<1> HIDE DEF e
<1>3. e.host \in Place /\ e.host.on = d.host.on /\ e.host.hist = d.host.hist
  <2>1. HandOver(d.host, s) \in Place /\ HandOver(d.host, s).on = d.host.on /\ HandOver(d.host, s).hist = d.host.hist
    BY <1>1, HandedOver
  <2> QED
    BY <1>2, <2>1, Repointed
<1>4. e.port \in Place /\ e.port.on = d.port.on /\ e.port.hist = d.port.hist
  <2>1. HandOver(d.port, s) \in Place /\ HandOver(d.port, s).on = d.port.on /\ HandOver(d.port, s).hist = d.port.hist
    BY <1>1, HandedOver
  <2> QED
    BY <1>2, <2>1, Repointed
<1>5. /\ e.vuln \in Observation /\ (struck => ~e.vuln.on) /\ (~struck => e.vuln = d.vuln)
      /\ (e.vuln.on => d.vuln.on) /\ e.vuln \in {d.vuln, NoObservation}
  BY <1>1, <1>2, NoRow
<1>6. e.finding \in BOOLEAN
  BY <1>1, <1>2
<1>7. e \in Rows
  BY <1>1, <1>2, <1>3, <1>4, <1>5, <1>6 DEF e, ReleaseRest, Rows
<1>8. Hangs(e)
  BY <1>2, <1>3, <1>4, <1>5 DEF Hangs
<1>9. \A t \in Scans \ {s} : Spares(d, e, t)
  BY <1>2, <1>3, <1>4, <1>5 DEF Spares
<1> QED
  BY <1>5, <1>7, <1>8, <1>9 DEF e

\* The ports: one another scan saw, itself or its observation, stays.
LEMMA PortsDeleted ==
  ASSUME NEW d \in Rows, Hangs(d), NEW s \in Scans, NEW before \in BOOLEAN,
         before \/ (d.vuln.seen \ {s} # {} => d.vuln.first # s)
  PROVE  /\ DeletePortsScanCreated(d, s, before) \in Rows /\ Hangs(DeletePortsScanCreated(d, s, before))
         /\ \A t \in Scans \ {s} : Spares(d, DeletePortsScanCreated(d, s, before), t)
<1> DEFINE e == DeletePortsScanCreated(d, s, before)
<1>1. CASE e = d
  BY <1>1 DEF Spares
<1>2. CASE e # d
  <2>1. e = DeletePort(d) /\ PortIsOnlyThisScans(d, s, before)
    BY <1>2 DEF DeletePortsScanCreated
  <2>2. /\ e.port = NoPlace /\ e.script = NoThing /\ e.vuln = NoObservation
        /\ e.host = d.host /\ e.attr = d.attr /\ e.note = d.note /\ e.finding = d.finding
    BY <2>1 DEF DeletePort, Rows
  <2>3. e \in Rows
    <3>1. NoPlace \in Place /\ NoThing \in Thing /\ NoObservation \in Observation
      BY DEF NoPlace, NoThing, NoObservation, Place, Thing, Observation
    <3> QED
      BY <2>1, <3>1 DEF DeletePort, Rows
  <2>4. ~d.finding /\ d.port.hist \ {s} = {}
    BY <2>1 DEF PortIsOnlyThisScans
  <2>5. d.vuln.on => d.vuln.seen \ {s} = {}
    BY <2>1 DEF PortIsOnlyThisScans, SeenByAnotherScan
  <2>6. Hangs(e)
    BY <2>2, <2>4 DEF Hangs, NoPlace, NoThing, NoObservation
  <2>7. \A t \in Scans \ {s} : Spares(d, e, t)
    BY <2>2, <2>4, <2>5 DEF Spares
  <2> QED
    BY <2>3, <2>6, <2>7
<1> QED
  BY <1>1, <1>2

\* The scan row: only what names s goes.
LEMMA ScanRowDeleted ==
  ASSUME NEW d \in Rows, Hangs(d), NEW s \in Scans
  PROVE  /\ DeleteScanRow(d, s) \in Rows /\ Hangs(DeleteScanRow(d, s))
         /\ \A t \in Scans \ {s} : Spares(d, DeleteScanRow(d, s), t)
<1> DEFINE e == DeleteScanRow(d, s)
           v == ClearObservation(d.vuln, s)
<1>1. /\ d.host \in Place /\ d.port \in Place /\ d.script \in Thing /\ d.attr \in Thing
      /\ d.vuln \in Observation /\ d.web \in SUBSET Scans
      /\ d.note \in BOOLEAN /\ d.finding \in BOOLEAN
  BY DEF Rows
<1>2. /\ e.host = ClearPlace(d.host, s) /\ e.port = ClearPlace(d.port, s)
      /\ e.script = ClearThing(d.script, s) /\ e.attr = ClearThing(d.attr, s) /\ e.vuln = v
      /\ e.web = d.web \ {s} /\ e.note = d.note /\ e.finding = d.finding
  BY DEF DeleteScanRow, Rows
<1>3. v \in Observation /\ v.on = d.vuln.on /\ v.seen = d.vuln.seen \ {s}
  BY <1>1, ObservationCleared
<1> HIDE DEF e, v
<1>4. /\ e.host \in Place /\ e.host.on = d.host.on /\ e.host.hist = d.host.hist \ {s}
      /\ e.port \in Place /\ e.port.on = d.port.on /\ e.port.hist = d.port.hist \ {s}
  BY <1>1, <1>2, Cleared
<1>5. /\ e.script \in Thing /\ e.script.on = d.script.on /\ e.script.seen = d.script.seen \ {s}
      /\ e.attr \in Thing /\ e.attr.on = d.attr.on /\ e.attr.seen = d.attr.seen \ {s}
  BY <1>1, <1>2, ThingCleared
<1>6. e \in Rows
  BY <1>1, <1>2, <1>3, <1>4, <1>5 DEF e, DeleteScanRow, Rows
<1>7. Hangs(e)
  BY <1>2, <1>3, <1>4, <1>5 DEF Hangs
<1>8. \A t \in Scans \ {s} : Spares(d, e, t)
  BY <1>2, <1>3, <1>4, <1>5 DEF Spares
<1> QED
  BY <1>6, <1>7, <1>8 DEF e

---------------------------------------------------------------------------
(* The steps.                                                              *)

LEMMA NoScanIsNone == NoScan \notin Scans
  BY ScanBounds DEF NoScan, Scans

\* Whose host only s saw: no other scan has reported anything of it.
LEMMA OnlyItsScan ==
  ASSUME ToldOK, NEW s \in Scans, db.host.hist \subseteq {s}
  PROVE  \A t \in Scans \ {s} : Untouched(t) => told[t] = {}
  BY DEF ToldOK, Witnessed

LEMMA NothingWitnessed ==
  ASSUME NEW d, NEW t
  PROVE  Witnessed(d, t, {})
  BY DEF Witnessed

LEMMA InitInv ==
  ASSUME Init
  PROVE  IInv
<1>1. TypeOK
  <2>1. db \in Rows /\ Hangs(db)
    BY RowFields DEF Init
  <2>2. /\ scan \in [Scans -> {"new", "importing", "done", "failed", "gone"}]
        /\ batches \in [Scans -> 0..MaxReports]
        /\ told \in [Scans -> SUBSET Told]
        /\ worked \in BOOLEAN
    <3>1. 0 \in 0..MaxReports
      BY ScanBounds
    <3>2. /\ scan = [s \in Scans |-> "new"] /\ batches = [s \in Scans |-> 0]
          /\ told = [s \in Scans |-> {}] /\ worked = FALSE
      BY DEF Init
    <3> QED
      BY <3>1, <3>2
  <2>3. doing \in [kind: {"none", "cleanup", "hand"}, scan: Scans \cup {NoScan},
                   step: {"none", "chosen", "agreed", "released"},
                   host: BOOLEAN, vuln: BOOLEAN, confirmed: BOOLEAN]
    BY DEF Init, Idle
  <2> QED
    BY <2>1, <2>2, <2>3 DEF TypeOK, Told
<1>2. DoingOK
  BY DEF Init, DoingOK, Idle
<1>3. ToldOK
  BY NothingWitnessed DEF Init, ToldOK
<1> QED
  BY <1>1, <1>2, <1>3 DEF IInv

\* An import starts with nothing reported.
LEMMA StepStart ==
  ASSUME IInv, NEW s \in Scans, Start(s)
  PROVE  IInv'
<1>1. TypeOK'
  BY DEF IInv, TypeOK, Start
<1>2. DoingOK'
  BY DEF IInv, DoingOK, Start
<1>3. ToldOK'
  <2>1. told[s] = {}
    BY DEF IInv, ToldOK, Start
  <2>2. \A t \in Scans \ {s} : (Untouched(t) <=> Untouched(t)') /\ scan'[t] = scan[t]
    BY DEF IInv, TypeOK, Start, Untouched
  <2>3. scan'[s] = "importing" /\ told' = told /\ db' = db
    BY DEF IInv, TypeOK, Start
  <2> QED
    BY <2>1, <2>2, <2>3, NothingWitnessed DEF IInv, ToldOK
<1> QED
  BY <1>1, <1>2, <1>3 DEF IInv

\* A batch is witnessed as it commits; no delete is under way.
LEMMA StepReport ==
  ASSUME IInv, NEW s \in Scans, NEW what \in Reports, Report(s, what)
  PROVE  IInv'
<1>1. /\ db' \in Rows /\ Hangs(db') /\ \A t \in Scans : Spares(db, db', t)
      /\ \A T : Witnessed(db, s, T) => Witnessed(db', s, T \cup About(what))
  BY BatchRows DEF IInv, TypeOK, Report
<1>2. TypeOK'
  <2>1. About(what) \subseteq Told
    <3>1. /\ (what = "ports" => About(what) = {"host", "port"})
          /\ (what = "scripts" => About(what) = {"host", "port", "script"})
          /\ (what = "nessus" => About(what) = {"host", "port", "attr", "vuln"})
          /\ (what = "informational" => About(what) = {"host", "bare port", "attr"})
          /\ (what = "web" => About(what) = {"host"})
      BY DEF About
    <3> QED
      BY <3>1 DEF Reports, Told
  <2>2. batches' \in [Scans -> 0..MaxReports]
    <3>1. batches \in [Scans -> 0..MaxReports] /\ batches[s] < MaxReports
          /\ batches' = [batches EXCEPT ![s] = batches[s] + 1]
      BY DEF IInv, TypeOK, Report
    <3>2. batches[s] + 1 \in 0..MaxReports
      BY <3>1, ScanBounds
    <3> QED
      BY <3>1, <3>2
  <2>3. told' \in [Scans -> SUBSET Told]
    BY <2>1 DEF IInv, TypeOK, Report, Told
  <2> QED
    BY <1>1, <2>2, <2>3 DEF IInv, TypeOK, Report, Told
<1>3. DoingOK'
  BY DEF Report, DoingOK, Idle
<1>4. ToldOK'
  <2>1. \A t \in Scans : Untouched(t) <=> Untouched(t)'
    BY DEF Report, Untouched
  <2>2. told'[s] = told[s] \cup About(what) /\ \A t \in Scans \ {s} : told'[t] = told[t]
    BY DEF IInv, TypeOK, Report
  <2>3. scan' = scan /\ scan[s] = "importing"
    BY DEF Report
  <2>4. ASSUME NEW t \in Scans, Untouched(t)
        PROVE  Witnessed(db', t, told'[t])
    <3>1. Witnessed(db, t, told[t])
      BY <2>4 DEF IInv, ToldOK
    <3>2. CASE t = s
      BY <1>1, <2>2, <3>1, <3>2
    <3>3. CASE t # s
      BY <1>1, <2>2, <3>1, <3>3, SparedIsWitnessed
    <3> QED
      BY <3>2, <3>3
  <2> QED
    BY <2>1, <2>2, <2>3, <2>4 DEF IInv, ToldOK
<1> QED
  BY <1>2, <1>3, <1>4 DEF IInv

\* An import that ends leaves the rows.
LEMMA StepEnd ==
  ASSUME IInv, NEW s \in Scans, NEW as \in {"done", "failed"}, End(s, as)
  PROVE  IInv'
<1>1. TypeOK'
  BY DEF IInv, TypeOK, End
<1>2. DoingOK'
  BY DEF IInv, DoingOK, End
<1>3. ToldOK'
  <2>1. \A t \in Scans : (Untouched(t) <=> Untouched(t)') /\ (scan'[t] = "new" => scan[t] = "new")
    BY DEF IInv, TypeOK, End, Untouched
  <2> QED
    BY <2>1 DEF IInv, ToldOK, End
<1> QED
  BY <1>1, <1>2, <1>3 DEF IInv

\* A delete's step that spares what other scans left, and is no longer s's
\* to undo.
LEMMA SparesOthers ==
  ASSUME IInv, NEW s \in Scans, scan' = scan, told' = told,
         \A t \in Scans \ {s} : (Untouched(t)' => Untouched(t)),
         \A t \in Scans \ {s} : Untouched(t) => Witnessed(db', t, told[t]),
         ~Untouched(s)'
  PROVE  ToldOK'
<1>1. \A t \in Scans : Untouched(t)' => t # s
  OBVIOUS
<1> QED
  BY <1>1 DEF IInv, ToldOK

\* The cleanup's first statements.
LEMMA StepCleanupRelease ==
  ASSUME IInv, NEW s \in Scans, CleanupRelease(s)
  PROVE  IInv'
<1>1. /\ db' = ReleasePointers(db, s) /\ scan' = scan /\ told' = told /\ batches' = batches /\ worked' = worked
      /\ doing = Idle
      /\ doing' = [Idle EXCEPT !.kind = "cleanup", !.scan = s, !.step = "released",
                               !.vuln = RemovedWithScan(db', s)]
  BY DEF CleanupRelease
<1>2. db \in Rows /\ Hangs(db)
  BY DEF IInv, TypeOK
<1>3. /\ db' \in Rows /\ Hangs(db')
      /\ \A t \in Scans \ {s} : Spares(db, db', t)
      /\ (db.vuln.seen \ {s} # {} => db'.vuln.first # s)
      /\ db'.vuln.seen = db.vuln.seen
  BY <1>1, <1>2, PointersReleased
<1>4. RemovedWithScan(db', s) \in BOOLEAN /\ (RemovedWithScan(db', s) => db'.vuln.seen \subseteq {s})
  BY <1>3 DEF RemovedWithScan, OnlyThisScanSaw, Rows, Observation
<1>5. /\ doing'.kind = "cleanup" /\ doing'.scan = s /\ doing'.step = "released"
      /\ doing'.vuln = RemovedWithScan(db', s)
  BY <1>1 DEF Idle
<1>6. TypeOK'
  BY <1>1, <1>3, <1>4 DEF IInv, TypeOK, Idle, Told
<1>7. DoingOK'
  BY <1>3, <1>4, <1>5 DEF DoingOK
<1>8. ToldOK'
  <2>1. ~Untouched(s)'
    BY <1>5 DEF Untouched
  <2>2. \A t \in Scans \ {s} : Untouched(t)' => Untouched(t)
    BY <1>1, NoScanIsNone DEF Untouched, Idle
  <2>3. \A t \in Scans \ {s} : Untouched(t) => Witnessed(db', t, told[t])
    BY <1>3, SparedIsWitnessed DEF IInv, ToldOK
  <2> QED
    BY <1>1, <2>1, <2>2, <2>3, SparesOthers
<1> QED
  BY <1>6, <1>7, <1>8 DEF IInv

\* The rest of the cleanup's release, and its choice of hosts.
LEMMA StepCleanupChoose ==
  ASSUME IInv, NEW s \in Scans, CleanupChoose(s)
  PROVE  IInv'
<1>1. /\ doing.kind = "cleanup" /\ doing.scan = s /\ doing.step = "released"
      /\ db' = ReleaseRest(db, s, doing.vuln) /\ scan' = scan /\ told' = told /\ batches' = batches
      /\ worked' = worked
      /\ doing' = [doing EXCEPT !.step = "chosen", !.host = HostsCleanupRemoves(db', s)]
  BY DEF CleanupChoose
<1>2. db \in Rows /\ Hangs(db) /\ doing.vuln \in BOOLEAN /\ (doing.vuln => db.vuln.seen \subseteq {s})
  BY <1>1 DEF IInv, TypeOK, DoingOK
<1>3. /\ db' \in Rows /\ Hangs(db')
      /\ \A t \in Scans \ {s} : Spares(db, db', t)
      /\ db'.vuln \in {db.vuln, NoObservation}
  BY <1>1, <1>2, RestReleased
<1>4. /\ HostsCleanupRemoves(db', s) \in BOOLEAN
      /\ (HostsCleanupRemoves(db', s) => db'.host.hist \subseteq {s})
  BY <1>3 DEF HostsCleanupRemoves, HostProvenance, Rows, Place
<1>5. /\ doing'.kind = "cleanup" /\ doing'.scan = s /\ doing'.step = "chosen"
      /\ doing'.host = HostsCleanupRemoves(db', s)
  BY <1>1 DEF IInv, TypeOK
<1>6. TypeOK'
  BY <1>1, <1>3, <1>4 DEF IInv, TypeOK
<1>7. DoingOK'
  <2>1. db'.vuln.seen \ {s} # {} => db'.vuln = db.vuln
    BY <1>3, NoRow
  <2> QED
    BY <1>1, <1>4, <1>5, <2>1 DEF IInv, DoingOK
<1>8. ToldOK'
  <2>1. ~Untouched(s)'
    BY <1>5 DEF Untouched
  <2>2. \A t \in Scans \ {s} : Untouched(t)' => Untouched(t)
    BY <1>1 DEF Untouched
  <2>3. \A t \in Scans \ {s} : Untouched(t) => Witnessed(db', t, told[t])
    BY <1>3, SparedIsWitnessed DEF IInv, ToldOK
  <2> QED
    BY <1>1, <2>1, <2>2, <2>3, SparesOthers
<1> QED
  BY <1>6, <1>7, <1>8 DEF IInv

\* A delete that commits: the scan is gone, and others' witness stands.
LEMMA ScanGone ==
  ASSUME IInv, NEW s \in Scans, doing.scan = s, Gone(s), db' \in Rows, Hangs(db'),
         batches' = batches, worked' \in BOOLEAN,
         \A t \in Scans \ {s} : Untouched(t) => Witnessed(db', t, told[t])
  PROVE  IInv'
<1>1. /\ scan' = [scan EXCEPT ![s] = "gone"] /\ told' = [told EXCEPT ![s] = {}] /\ doing' = Idle
  BY DEF Gone
<1>2. /\ scan'[s] = "gone" /\ told'[s] = {}
      /\ \A t \in Scans \ {s} : scan'[t] = scan[t] /\ told'[t] = told[t]
  BY <1>1 DEF IInv, TypeOK
<1>3. TypeOK'
  <2>1. doing' \in [kind: {"none", "cleanup", "hand"}, scan: Scans \cup {NoScan},
                    step: {"none", "chosen", "agreed", "released"},
                    host: BOOLEAN, vuln: BOOLEAN, confirmed: BOOLEAN]
    BY <1>1 DEF Idle
  <2>2. /\ scan' \in [Scans -> {"new", "importing", "done", "failed", "gone"}]
        /\ told' \in [Scans -> SUBSET Told]
    BY <1>1 DEF IInv, TypeOK, Told
  <2> QED
    BY <2>1, <2>2 DEF IInv, TypeOK, Told
<1>4. DoingOK'
  BY <1>1 DEF DoingOK, Idle
<1>5. ToldOK'
  <2>1. \A t \in Scans : Untouched(t)' => t # s /\ Untouched(t)
    BY <1>2 DEF Untouched
  <2> QED
    BY <1>2, <2>1 DEF IInv, ToldOK
<1> QED
  BY <1>3, <1>4, <1>5 DEF IInv

\* The cleanup's host goes only if s alone saw it; so does its port.
LEMMA StepCleanupDelete ==
  ASSUME IInv, NEW s \in Scans, CleanupDelete(s)
  PROVE  IInv'
<1> DEFINE c == IF doing.host THEN NoRows ELSE db
           e == DeletePortsScanCreated(c, s, FALSE)
<1>1. /\ doing.kind = "cleanup" /\ doing.scan = s /\ doing.step = "chosen"
      /\ db' = DeleteScanRow(e, s) /\ Gone(s) /\ batches' = batches
      /\ worked' = (worked /\ ~doing.host)
  BY DEF CleanupDelete
<1>2. /\ db \in Rows /\ Hangs(db) /\ (doing.host => db.host.hist \subseteq {s})
      /\ (db.vuln.seen \ {s} # {} => db.vuln.first # s)
  BY <1>1 DEF IInv, TypeOK, DoingOK
<1>3. c \in Rows /\ Hangs(c) /\ (c.vuln.seen \ {s} # {} => c.vuln.first # s)
  BY <1>2, RowFields
<1> HIDE DEF c
<1>4. e \in Rows /\ Hangs(e) /\ \A t \in Scans \ {s} : Spares(c, e, t)
  BY <1>3, PortsDeleted
<1> HIDE DEF e
<1>5. db' \in Rows /\ Hangs(db') /\ \A t \in Scans \ {s} : Spares(e, db', t)
  BY <1>1, <1>4, ScanRowDeleted
<1>6. \A t \in Scans \ {s} : Untouched(t) => Witnessed(c, t, told[t])
  <2>1. CASE doing.host
    BY <1>2, <2>1, OnlyItsScan, NothingWitnessed DEF IInv
  <2>2. CASE ~doing.host
    BY <2>2 DEF IInv, ToldOK, c
  <2> QED
    BY <2>1, <2>2
<1>7. \A t \in Scans \ {s} : Untouched(t) => Witnessed(db', t, told[t])
  <2> SUFFICES ASSUME NEW t \in Scans \ {s}, Untouched(t)
               PROVE  Witnessed(db', t, told[t])
    OBVIOUS
  <2>1. Witnessed(e, t, told[t])
    BY <1>4, <1>6, SparedIsWitnessed
  <2> QED
    BY <1>5, <2>1, SparedIsWitnessed
<1>8. worked' \in BOOLEAN
  BY <1>1
<1> QED
  BY <1>1, <1>5, <1>7, <1>8, ScanGone

\* The administrator's choice writes nothing.
LEMMA StepHandChoose ==
  ASSUME IInv, NEW s \in Scans, NEW confirmed \in BOOLEAN, HandChoose(s, confirmed)
  PROVE  IInv'
<1>1. /\ doing = Idle /\ db' = db /\ scan' = scan /\ told' = told /\ batches' = batches /\ worked' = worked
      /\ doing' = [Idle EXCEPT !.kind = "hand", !.scan = s, !.confirmed = confirmed,
                               !.host = HostsScanBrought(db, s),
                               !.step = IF confirmed THEN "agreed" ELSE "chosen"]
  BY DEF HandChoose
<1>2. /\ doing'.kind = "hand" /\ doing'.scan = s /\ doing'.step \in {"chosen", "agreed"}
      /\ doing'.host = HostsScanBrought(db, s)
  BY <1>1 DEF Idle
<1>3. HostsScanBrought(db, s) \in BOOLEAN /\ (HostsScanBrought(db, s) => db.host.hist \subseteq {s})
  BY DEF HostsScanBrought, HostProvenance, IInv, TypeOK, Rows, Place
<1>4. TypeOK'
  BY <1>1, <1>3 DEF IInv, TypeOK, Idle
<1>5. DoingOK'
  BY <1>1, <1>2, <1>3 DEF DoingOK
<1>6. ToldOK'
  <2>1. \A t \in Scans : Untouched(t)' => Untouched(t)
    BY <1>1, NoScanIsNone DEF Untouched, Idle
  <2> QED
    BY <1>1, <2>1 DEF IInv, ToldOK
<1> QED
  BY <1>4, <1>5, <1>6 DEF IInv

\* Refused, the scan stands as it did; agreed, nothing is written yet.
LEMMA StepHandCheck ==
  ASSUME IInv, NEW s \in Scans, HandCheck(s)
  PROVE  IInv'
<1>1. /\ doing.kind = "hand" /\ doing.scan = s /\ doing.step = "chosen"
      /\ db' = db /\ scan' = scan /\ told' = told /\ batches' = batches /\ worked' = worked
      /\ doing' \in {Idle, [doing EXCEPT !.step = "agreed"]}
  BY DEF HandCheck
<1>2. TypeOK'
  <2> DEFINE D == [kind: {"none", "cleanup", "hand"}, scan: Scans \cup {NoScan},
                   step: {"none", "chosen", "agreed", "released"},
                   host: BOOLEAN, vuln: BOOLEAN, confirmed: BOOLEAN]
  <2>1. doing' \in D
    <3>1. Idle \in D
      BY DEF Idle
    <3>2. [doing EXCEPT !.step = "agreed"] \in D
      BY DEF IInv, TypeOK
    <3> QED
      BY <1>1, <3>1, <3>2
  <2> QED
    BY <1>1, <2>1 DEF IInv, TypeOK
<1>3. doing' = Idle \/ (/\ doing'.step = "agreed" /\ doing'.scan = s /\ doing'.kind = "hand"
                        /\ doing'.host = doing.host)
  BY <1>1 DEF IInv, TypeOK
<1>4. DoingOK'
  BY <1>1, <1>3 DEF IInv, DoingOK, Idle
<1>5. ToldOK'
  <2>1. \A t \in Scans : Untouched(t)' => Untouched(t)
    BY <1>1 DEF Untouched
  <2> QED
    BY <1>1, <2>1 DEF IInv, ToldOK
<1> QED
  BY <1>2, <1>4, <1>5 DEF IInv

\* The hand delete's host goes only if s alone saw it.
LEMMA StepHandDelete ==
  ASSUME IInv, NEW s \in Scans, HandDelete(s)
  PROVE  IInv'
<1> DEFINE c == IF doing.host THEN NoRows ELSE db
<1>1. /\ doing.kind = "hand" /\ doing.scan = s /\ doing.step = "agreed"
      /\ db' = ReleasePointers(c, s) /\ scan' = scan /\ told' = told /\ batches' = batches
      /\ worked' = (worked /\ ~doing.host)
      /\ doing' = [doing EXCEPT !.step = "released", !.vuln = RemovedWithScan(db', s)]
  BY DEF HandDelete
<1>2. db \in Rows /\ Hangs(db) /\ (doing.host => db.host.hist \subseteq {s})
  BY <1>1 DEF IInv, TypeOK, DoingOK
<1>3. c \in Rows /\ Hangs(c)
  BY <1>2, RowFields
<1>4. \A t \in Scans \ {s} : Untouched(t) => Witnessed(c, t, told[t])
  <2>1. CASE doing.host
    BY <1>2, <2>1, OnlyItsScan, NothingWitnessed DEF IInv
  <2>2. CASE ~doing.host
    BY <2>2 DEF IInv, ToldOK
  <2> QED
    BY <2>1, <2>2
<1> HIDE DEF c
<1>5. db' \in Rows /\ Hangs(db') /\ \A t \in Scans \ {s} : Spares(c, db', t)
  BY <1>1, <1>3, PointersReleased
<1>6. RemovedWithScan(db', s) \in BOOLEAN /\ (RemovedWithScan(db', s) => db'.vuln.seen \subseteq {s})
  BY <1>5 DEF RemovedWithScan, OnlyThisScanSaw, Rows, Observation
<1>7. /\ doing'.kind = "hand" /\ doing'.scan = s /\ doing'.step = "released"
      /\ doing'.vuln = RemovedWithScan(db', s)
  BY <1>1 DEF IInv, TypeOK
<1>8. TypeOK'
  BY <1>1, <1>5, <1>6 DEF IInv, TypeOK
<1>9. DoingOK'
  BY <1>6, <1>7 DEF DoingOK
<1>10. ToldOK'
  <2>1. ~Untouched(s)'
    BY <1>7 DEF Untouched
  <2>2. \A t \in Scans \ {s} : Untouched(t)' => Untouched(t)
    BY <1>1 DEF Untouched
  <2>3. \A t \in Scans \ {s} : Untouched(t) => Witnessed(db', t, told[t])
    BY <1>4, <1>5, SparedIsWitnessed
  <2> QED
    BY <1>1, <2>1, <2>2, <2>3, SparesOthers
<1> QED
  BY <1>8, <1>9, <1>10 DEF IInv

\* It finishes as the cleanup does.
LEMMA StepHandFinish ==
  ASSUME IInv, NEW s \in Scans, HandFinish(s)
  PROVE  IInv'
<1> DEFINE c == ReleaseRest(db, s, doing.vuln)
           e == DeletePortsScanCreated(c, s, TRUE)
<1>1. /\ doing.kind = "hand" /\ doing.scan = s /\ doing.step = "released"
      /\ db' = DeleteScanRow(e, s) /\ Gone(s) /\ batches' = batches /\ worked' = worked
  BY DEF HandFinish
<1>2. /\ db \in Rows /\ Hangs(db) /\ doing.vuln \in BOOLEAN /\ (doing.vuln => db.vuln.seen \subseteq {s})
      /\ worked \in BOOLEAN
  BY <1>1 DEF IInv, TypeOK, DoingOK
<1>3. c \in Rows /\ Hangs(c) /\ \A t \in Scans \ {s} : Spares(db, c, t)
  BY <1>2, RestReleased
<1> HIDE DEF c
<1>4. e \in Rows /\ Hangs(e) /\ \A t \in Scans \ {s} : Spares(c, e, t)
  BY <1>3, PortsDeleted
<1> HIDE DEF e
<1>5. db' \in Rows /\ Hangs(db') /\ \A t \in Scans \ {s} : Spares(e, db', t)
  BY <1>1, <1>4, ScanRowDeleted
<1>6. \A t \in Scans \ {s} : Untouched(t) => Witnessed(db', t, told[t])
  <2> SUFFICES ASSUME NEW t \in Scans \ {s}, Untouched(t)
               PROVE  Witnessed(db', t, told[t])
    OBVIOUS
  <2>1. Witnessed(db, t, told[t])
    BY DEF IInv, ToldOK
  <2>2. Witnessed(c, t, told[t])
    BY <1>3, <2>1, SparedIsWitnessed
  <2>3. Witnessed(e, t, told[t])
    BY <1>4, <2>2, SparedIsWitnessed
  <2> QED
    BY <1>5, <2>3, SparedIsWitnessed
<1> QED
  BY <1>1, <1>2, <1>5, <1>6, ScanGone

\* Work on the host changes nothing a scan left.
LEMMA StepWork ==
  ASSUME IInv, AddNote \/ Promote \/ DropFinding
  PROVE  IInv'
<1>1. /\ scan' = scan /\ batches' = batches /\ doing' = doing /\ told' = told
      /\ worked \in BOOLEAN /\ worked' \in BOOLEAN
  BY DEF IInv, TypeOK, AddNote, Promote, DropFinding
<1>2. /\ db'.host = db.host /\ db'.port = db.port /\ db'.script = db.script /\ db'.attr = db.attr
      /\ db'.vuln = db.vuln /\ db' \in Rows /\ Hangs(db')
  <2>1. CASE AddNote
    BY <2>1 DEF AddNote, IInv, TypeOK, Rows, Hangs
  <2>2. CASE Promote
    BY <2>2 DEF Promote, IInv, TypeOK, Rows, Hangs
  <2>3. CASE DropFinding
    BY <2>3 DEF DropFinding, IInv, TypeOK, Rows, Hangs
  <2> QED
    BY <2>1, <2>2, <2>3
<1>3. TypeOK'
  BY <1>1, <1>2 DEF IInv, TypeOK
<1>4. DoingOK'
  BY <1>1, <1>2 DEF IInv, DoingOK
<1>5. ToldOK'
  <2>1. \A t \in Scans : Untouched(t)' <=> Untouched(t)
    BY <1>1 DEF Untouched
  <2>2. \A t \in Scans : Witnessed(db, t, told[t]) => Witnessed(db', t, told[t])
    BY <1>2 DEF Witnessed
  <2> QED
    BY <1>1, <2>1, <2>2 DEF IInv, ToldOK
<1> QED
  BY <1>3, <1>4, <1>5 DEF IInv

---------------------------------------------------------------------------
\* Every step of the specification keeps the invariant.
LEMMA NextInv ==
  ASSUME IInv, [Next]_vars
  PROVE  IInv'
<1>1. CASE UNCHANGED vars
  BY <1>1 DEF IInv, TypeOK, DoingOK, ToldOK, Untouched, vars
<1>2. ASSUME NEW s \in Scans,
             \/ Start(s)
             \/ \E what \in Reports : Report(s, what)
             \/ \E as \in {"done", "failed"} : End(s, as)
             \/ CleanupRelease(s) \/ CleanupChoose(s) \/ CleanupDelete(s)
             \/ \E yes \in BOOLEAN : HandChoose(s, yes)
             \/ HandCheck(s) \/ HandDelete(s) \/ HandFinish(s)
      PROVE  IInv'
  <2>1. CASE Start(s) \/ \E what \in Reports : Report(s, what)
    BY <2>1, StepStart, StepReport
  <2>2. CASE \E as \in {"done", "failed"} : End(s, as)
    BY <2>2, StepEnd
  <2>3. CASE CleanupRelease(s) \/ CleanupChoose(s) \/ CleanupDelete(s)
    BY <2>3, StepCleanupRelease, StepCleanupChoose, StepCleanupDelete
  <2>4. CASE \E yes \in BOOLEAN : HandChoose(s, yes)
    BY <2>4, StepHandChoose
  <2>5. CASE HandCheck(s) \/ HandDelete(s) \/ HandFinish(s)
    BY <2>5, StepHandCheck, StepHandDelete, StepHandFinish
  <2> QED
    BY <1>2, <2>1, <2>2, <2>3, <2>4, <2>5
<1>3. CASE AddNote \/ Promote \/ DropFinding
  BY <1>3, StepWork
<1> QED
  BY <1>1, <1>2, <1>3 DEF Next

\* What the invariant says of a scan that is still there.
LEMMA InvKeeps ==
  ASSUME IInv
  PROVE  OthersKeep
<1>1. \A s \in Scans : Live(s) => Witnessed(db, s, told[s])
  BY DEF Live, IInv, ToldOK, Untouched
<1> QED
  BY <1>1 DEF OthersKeep, Witnessed

LEMMA Invariant == Spec => []IInv
  BY InitInv, NextInv, PTL DEF Spec

(* Every row is well formed and none outlives the row it hangs on: no      *)
(* delete leaves a port, a note, a script, an observation or a finding     *)
(* without the host, port or observation it belongs to.                    *)
THEOREM TypeCorrect == Spec => []TypeOK
<1>1. IInv => TypeOK
  BY DEF IInv
<1> QED
  BY <1>1, Invariant, PTL

(* What a scan that is still there reported is still there, whatever other *)
(* scans were deleted by release_scan's two callers, in whatever order and *)
(* with whatever work people put on the host meanwhile.                    *)
THEOREM OthersStand == Spec => []OthersKeep
  BY InvKeeps, Invariant, PTL
---------------------------------------------------------------------------
(* What the rows are like when no delete is under way: first-recorder      *)
(* pointers are real, nothing is left without a scan or somebody's work,   *)
(* and every row's witnesses are among the host's.  A delete breaks that   *)
(* and has it back at its end: SInv says, for each step it may be at, what *)
(* is left to do.                                                          *)

ThingOK(t) == IF t.on THEN t.first \in t.seen ELSE t = NoThing

VulnOK(v, w) ==
  IF v.on THEN /\ v.first \in v.seen \/ (v.first = NoScan /\ w)
               /\ IF v.seen = {} THEN v.last = NoScan /\ w ELSE v.last \in v.seen
  ELSE v = NoObservation

HostOK(p, w) ==
  IF p.on THEN /\ p.last \in p.hist \cup {NoScan} /\ p.intro \subseteq p.hist
               /\ p.intro # {} \/ w
  ELSE p = NoPlace

\* Every scan that saw something on the host is in the host's history.
Within(d) ==
  /\ d.port.hist \subseteq d.host.hist /\ d.port.last \in d.host.hist \cup {NoScan}
  /\ d.script.seen \subseteq d.port.hist
  /\ d.attr.seen \cup d.vuln.seen \cup d.web \subseteq d.host.hist

Sound(d, w) == /\ ThingOK(d.script) /\ ThingOK(d.attr) /\ VulnOK(d.vuln, w) /\ HostOK(d.host, w)
               /\ Within(d) /\ (HasWork(d) => w)

\* The pointers have been moved: what the rest and the cascade will leave.
Pointed(d, s, struck, w) ==
  /\ ThingOK(ClearThing(d.script, s)) /\ ThingOK(ClearThing(d.attr, s))
  /\ struck \/ VulnOK(ClearObservation(d.vuln, s), w)
  /\ HostOK(d.host, w) /\ Within(d) /\ (HasWork(d) => w)

\* A host that s alone brought, and nobody worked on: it must go with s.
Brought(d, s, w) == d.host.on /\ d.host.hist \subseteq {s} /\ ~w

Waiting == doing.kind = "hand" /\ doing.step \in {"chosen", "agreed"}

\* A delete under way is of a scan.
NamedScan == doing.kind = "cleanup" => doing.scan \in Scans

SInv ==
  /\ NamedScan
  /\ doing = Idle \/ Waiting => Sound(db, worked)
  /\ Waiting => doing.host = HostsScanBrought(db, doing.scan)
  /\ doing.step = "released" => /\ Pointed(db, doing.scan, doing.vuln, worked)
                                /\ doing.kind = "hand" => ~Brought(db, doing.scan, worked)
  /\ doing.kind = "cleanup" /\ doing.step = "chosen" /\ ~doing.host =>
       Sound(DeleteScanRow(db, doing.scan), worked)
  /\ HostRowLocked => ~HasWork(db)

\* The fields of the rows after each operation.
LEMMA Fields ==
  ASSUME NEW d \in Rows, NEW s \in Scans, NEW struck \in BOOLEAN
  PROVE  /\ LET e == ReleasePointers(d, s) IN
              /\ e.host = d.host /\ e.port = d.port /\ e.web = d.web /\ e.note = d.note
              /\ e.finding = d.finding /\ e.script = ReleaseThing(d.script, s)
              /\ e.attr = ReleaseThing(d.attr, s) /\ e.vuln = MoveObservation(d.vuln, s)
         /\ LET e == ReleaseRest(d, s, struck) IN
              /\ e.script = d.script /\ e.attr = d.attr /\ e.web = d.web /\ e.note = d.note
              /\ e.finding = (d.finding /\ ~struck)
              /\ e.vuln = IF struck THEN NoObservation ELSE d.vuln
              /\ e.host = Repoint(HandOver(d.host, s), s) /\ e.port = Repoint(HandOver(d.port, s), s)
         /\ LET e == DeletePort(d) IN
              /\ e.port = NoPlace /\ e.script = NoThing /\ e.vuln = NoObservation
              /\ e.host = d.host /\ e.attr = d.attr /\ e.web = d.web /\ e.note = d.note
              /\ e.finding = d.finding
         /\ LET e == DeleteScanRow(d, s) IN
              /\ e.host = ClearPlace(d.host, s) /\ e.port = ClearPlace(d.port, s)
              /\ e.script = ClearThing(d.script, s) /\ e.attr = ClearThing(d.attr, s)
              /\ e.vuln = ClearObservation(d.vuln, s)
              /\ e.web = d.web \ {s} /\ e.note = d.note /\ e.finding = d.finding
<1>1. DOMAIN d = {"host", "port", "script", "attr", "vuln", "web", "note", "finding"}
  BY DEF Rows
<1> QED
  BY <1>1 DEF ReleasePointers, ReleaseRest, DeletePort, DeleteScanRow

---------------------------------------------------------------------------
(* One row at a time.                                                      *)

\* A row that is not there names no scan.
LEMMA NothingToClear ==
  ASSUME NEW s \in Scans
  PROVE  /\ ClearThing(NoThing, s) = NoThing /\ ReleaseThing(NoThing, s) = NoThing
         /\ ClearObservation(NoObservation, s) = NoObservation
         /\ ClearPlace(NoPlace, s) = NoPlace
         /\ Repoint(HandOver(NoPlace, s), s) = NoPlace
<1>1. s # NoScan /\ {} \ {s} = {}
  BY NoScanIsNone
<1>2. NoThing \in Thing /\ NoThing.seen = {} /\ NoThing.first = NoScan /\ NoThing.on = FALSE
  BY DEF NoThing, Thing
<1>3. /\ NoObservation \in Observation /\ NoObservation.seen = {} /\ NoObservation.on = FALSE
      /\ NoObservation.first = NoScan /\ NoObservation.last = NoScan
  BY DEF NoObservation, Observation
<1>4. /\ NoPlace \in Place /\ NoPlace.hist = {} /\ NoPlace.intro = {} /\ NoPlace.on = FALSE
      /\ NoPlace.last = NoScan /\ NoPlace.stamp = NoScan
  BY DEF NoPlace, Place
<1>5. ClearThing(NoThing, s) = NoThing
  <2> DEFINE t == ClearThing(NoThing, s)
  <2>1. t \in Thing /\ t.on = FALSE /\ t.first = NoScan /\ t.seen = {}
    BY <1>1, <1>2, ThingCleared DEF ClearThing, Thing
  <2>2. t = [on |-> t.on, first |-> t.first, seen |-> t.seen]
    BY <2>1 DEF Thing
  <2> QED
    BY <2>1, <2>2 DEF NoThing
<1>6. ReleaseThing(NoThing, s) = NoThing
  BY <1>1, <1>2 DEF ReleaseThing
<1>7. ClearObservation(NoObservation, s) = NoObservation
  <2> DEFINE v == ClearObservation(NoObservation, s)
  <2>1. v \in Observation /\ v.on = FALSE /\ v.first = NoScan /\ v.last = NoScan /\ v.seen = {}
    BY <1>1, <1>3, ObservationCleared DEF ClearObservation, Observation
  <2>2. v = [on |-> v.on, first |-> v.first, last |-> v.last, seen |-> v.seen]
    BY <2>1 DEF Observation
  <2> QED
    BY <2>1, <2>2 DEF NoObservation
<1>8. ClearPlace(NoPlace, s) = NoPlace
  <2> DEFINE p == ClearPlace(NoPlace, s)
  <2>1. /\ p \in Place /\ p.on = FALSE /\ p.last = NoScan /\ p.stamp = NoScan
        /\ p.hist = {} /\ p.intro = {}
    BY <1>1, <1>4, Cleared DEF ClearPlace, Place
  <2>2. p = [on |-> p.on, last |-> p.last, stamp |-> p.stamp, hist |-> p.hist, intro |-> p.intro]
    BY <2>1 DEF Place
  <2> QED
    BY <2>1, <2>2 DEF NoPlace
<1>9. Repoint(HandOver(NoPlace, s), s) = NoPlace
  BY <1>1, <1>4 DEF Repoint, HandOver
<1> QED
  BY <1>5, <1>6, <1>7, <1>8, <1>9

\* A scan that sees a script or an attribute first is its first recorder.
LEMMA SeenThingOK ==
  ASSUME NEW t \in Thing, NEW s \in Scans, ThingOK(t)
  PROVE  ThingOK(SeeThing(t, s))
  BY DEF ThingOK, SeeThing

\* Released and cleared, it is somebody else's or gone.
LEMMA ReleasedThingOK ==
  ASSUME NEW t \in Thing, NEW s \in Scans, ThingOK(t)
  PROVE  /\ ThingOK(ClearThing(ReleaseThing(t, s), s))
         /\ ReleaseThing(t, s).seen \subseteq t.seen
         /\ ReleaseThing(t, s).on => ReleaseThing(t, s).first \in t.seen \ {s}
         /\ ReleaseThing(t, s).on <=> t.on /\ t.seen \ {s} # {}
         /\ ReleaseThing(t, s).seen = (IF ReleaseThing(t, s).on THEN t.seen ELSE {})
         /\ ~t.on => t.seen = {}
<1>1. /\ t.on \in BOOLEAN /\ t.first \in Scans \cup {NoScan} /\ t.seen \in SUBSET Scans
      /\ t = [on |-> t.on, first |-> t.first, seen |-> t.seen]
  BY DEF Thing
<1>2. t.seen \ {s} # {} => Earliest(t.seen \ {s}) \in t.seen \ {s}
  BY <1>1, PointerTargets
<1>3. CASE ~t.on
  <2>1. t = NoThing
    BY <1>3 DEF ThingOK
  <2>2. ReleaseThing(t, s) = NoThing /\ ClearThing(NoThing, s) = NoThing
    BY <2>1, NothingToClear
  <2> QED
    <3>1. NoThing.on = FALSE /\ NoThing.seen = {}
      BY DEF NoThing
    <3>2. ThingOK(NoThing)
      BY <3>1 DEF ThingOK
    <3> QED
      BY <1>3, <2>1, <2>2, <3>1, <3>2
<1>4. CASE t.on /\ t.seen \ {s} = {}
  <2>1. t.first = s /\ s \in t.seen
    BY <1>4 DEF ThingOK
  <2>2. ReleaseThing(t, s) = NoThing /\ ClearThing(NoThing, s) = NoThing
    BY <1>4, <2>1, NothingToClear DEF ReleaseThing
  <2> QED
    BY <1>4, <2>2 DEF NoThing, ThingOK
<1>5. CASE t.on /\ t.seen \ {s} # {}
  <2>1. t.first \in t.seen
    BY <1>5 DEF ThingOK
  <2>2. /\ ReleaseThing(t, s).on /\ ReleaseThing(t, s).seen = t.seen
        /\ ReleaseThing(t, s).first \in t.seen \ {s}
    BY <1>1, <1>2, <1>5, <2>1 DEF ReleaseThing
  <2>3. ReleaseThing(t, s) \in Thing
    BY ThingReleased
  <2>4. /\ ClearThing(ReleaseThing(t, s), s).on /\ ClearThing(ReleaseThing(t, s), s).seen = t.seen \ {s}
        /\ ClearThing(ReleaseThing(t, s), s).first \in t.seen \ {s}
    BY <2>2, <2>3 DEF ClearThing, Thing
  <2> QED
    BY <1>5, <2>2, <2>4 DEF ThingOK
<1> QED
  BY <1>1, <1>3, <1>4, <1>5

\* A scan that sees an observation is its last, and its first if it is new.
LEMMA SeenVulnOK ==
  ASSUME NEW v \in Observation, NEW s \in Scans, NEW w, VulnOK(v, w)
  PROVE  VulnOK(SeeObservation(v, s), w)
  BY DEF VulnOK, SeeObservation

\* Where the pointers of an observation point once they are moved.
LEMMA MovedTo ==
  ASSUME NEW v \in Observation, NEW s \in Scans, NEW w, VulnOK(v, w), v.on
  PROVE  LET m == MoveObservation(v, s)
             others == v.seen \ {s}
         IN /\ m.on /\ m.seen = v.seen /\ m \in Observation
            /\ others # {} => /\ m.first \in others \/ (m.first = NoScan /\ w)
                              /\ m.last \in others
            /\ others = {} => m = v
<1> DEFINE m == MoveObservation(v, s)
           others == v.seen \ {s}
<1>1. /\ v.on \in BOOLEAN /\ v.first \in Scans \cup {NoScan} /\ v.last \in Scans \cup {NoScan}
      /\ v.seen \in SUBSET Scans /\ DOMAIN v = {"on", "first", "last", "seen"}
  BY DEF Observation
<1>2. others # {} => Earliest(others) \in others /\ Newest(others) \in others
  BY <1>1, PointerTargets
<1>3. m \in Observation /\ m.on = v.on /\ m.seen = v.seen
  BY ObservationMoved
<1>4. CASE others = {}
  <2>1. v.first = s => v.last \in {NoScan, s}
    BY <1>4 DEF VulnOK
  <2>2. m = v
    BY <1>4, <2>1 DEF MoveObservation
  <2> QED
    BY <1>3, <1>4, <2>2
<1>5. CASE others # {}
  <2>1. /\ v.first \in v.seen \/ (v.first = NoScan /\ w)
        /\ v.last \in v.seen
    BY <1>5 DEF VulnOK
  <2> DEFINE f == IF v.first = s THEN [v EXCEPT !.first = Earliest(others)] ELSE v
  <2>2. /\ f.first \in others \/ (f.first = NoScan /\ w)
        /\ f.first # s /\ f.last = v.last /\ DOMAIN f = {"on", "first", "last", "seen"}
    BY <1>1, <1>2, <1>5, <2>1, NoScanIsNone
  <2>3. m = IF v.last = s THEN [f EXCEPT !.last = Newest(others)] ELSE f
    BY <1>5, <2>2 DEF MoveObservation
  <2> HIDE DEF f
  <2>4. m.first = f.first /\ m.last \in others
    BY <1>2, <1>5, <2>1, <2>2, <2>3
  <2> QED
    BY <1>3, <1>5, <2>2, <2>4
<1> QED
  BY <1>4, <1>5

\* What is not removed with the scan is somebody else's, or worked on.
LEMMA MovedVulnOK ==
  ASSUME NEW v \in Observation, NEW s \in Scans, NEW w \in BOOLEAN, VulnOK(v, w),
         ~OnlyThisScanSaw(MoveObservation(v, s), s) \/ w
  PROVE  VulnOK(ClearObservation(MoveObservation(v, s), s), w)
<1> DEFINE m == MoveObservation(v, s)
           c == ClearObservation(m, s)
<1>1. m \in Observation /\ m.on = v.on /\ m.seen = v.seen
  BY ObservationMoved
<1>2. /\ c.on = v.on /\ c.seen = v.seen \ {s}
      /\ c.first = (IF m.first = s THEN NoScan ELSE m.first)
      /\ c.last = (IF m.last = s THEN NoScan ELSE m.last)
  BY <1>1 DEF ClearObservation, Observation
<1>3. CASE ~v.on
  <2>1. v = NoObservation
    BY <1>3 DEF VulnOK
  <2>2. m = NoObservation
    BY <2>1, NoScanIsNone DEF MoveObservation, NoObservation
  <2>3. c = NoObservation
    BY <2>2, NothingToClear
  <2> QED
    BY <2>3 DEF VulnOK, NoObservation
<1>4. CASE v.on /\ v.seen \ {s} # {}
  <2>1. /\ m.first \in v.seen \ {s} \/ (m.first = NoScan /\ w)
        /\ m.last \in v.seen \ {s}
    BY <1>4, MovedTo
  <2> HIDE DEF c, m
  <2>2. VulnOK(c, w)
    BY <1>2, <1>4, <2>1, NoScanIsNone DEF VulnOK
  <2> QED
    BY <2>2 DEF c, m
<1>5. CASE v.on /\ v.seen \ {s} = {}
  <2>1. m = v
    BY <1>5, MovedTo
  <2>2. v.first \in {s, NoScan} /\ v.last \in {s, NoScan}
    BY <1>5 DEF VulnOK
  <2>3. v.first = s => w
    BY <1>5, <2>1, <2>2 DEF OnlyThisScanSaw
  <2>4. w
    BY <1>5, <2>2, <2>3, NoScanIsNone DEF VulnOK, Observation
  <2> HIDE DEF c, m
  <2>5. VulnOK(c, w)
    BY <1>2, <1>5, <2>1, <2>2, <2>4 DEF VulnOK
  <2> QED
    BY <2>5 DEF c, m
<1> QED
  BY <1>3, <1>4, <1>5 DEF Observation
\* A place that is seen is in the scan's history, which created it or not.
LEMMA SeenHostOK ==
  ASSUME NEW p \in Place, NEW s \in Scans, NEW w, HostOK(p, w)
  PROVE  HostOK(SeePlace(p, s), w) /\ HostOK(NoteHost(p, s), w)
<1>1. PlaceShape(p)
  BY DEF Place, PlaceShape
<1>2. /\ SeePlace(p, s).on /\ SeePlace(p, s).last = s /\ SeePlace(p, s).hist = p.hist \cup {s}
      /\ SeePlace(p, s).intro = IF p.on THEN p.intro ELSE p.intro \cup {s}
  BY <1>1 DEF SeePlace, PlaceShape
<1>3. /\ NoteHost(p, s).on /\ NoteHost(p, s).last = p.last /\ NoteHost(p, s).hist = p.hist \cup {s}
      /\ NoteHost(p, s).intro = IF p.on THEN p.intro ELSE p.intro \cup {s}
  BY <1>1 DEF NoteHost, SeePlace, PlaceShape
<1>4. ~p.on => p.last = NoScan /\ p.intro = {} /\ p.hist = {}
  BY DEF HostOK, NoPlace
<1> QED
  BY <1>1, <1>2, <1>3, <1>4 DEF HostOK, PlaceShape

\* Released: the pointers name who is left, the history stays.
MovedAs(r, p, others, s) ==
  /\ r \in Place /\ r.on = p.on /\ r.hist = p.hist
  /\ r.last = (IF p.last # s THEN p.last ELSE IF others = {} THEN NoScan ELSE Newest(others))
  /\ r.intro = p.intro \cup (IF s \in p.intro /\ others # {} THEN {Earliest(others)} ELSE {})

LEMMA MovedPlace ==
  \A p \in Place, s \in Scans : MovedAs(Repoint(HandOver(p, s), s), p, p.hist \ {s}, s)
<1> SUFFICES ASSUME NEW p \in Place, NEW s \in Scans, NEW r, r = Repoint(HandOver(p, s), s),
                    NEW others, others = p.hist \ {s}
             PROVE  MovedAs(r, p, others, s)
  OBVIOUS
<1> DEFINE h == HandOver(p, s)
<1>1. PlaceShape(p)
  BY DEF Place, PlaceShape
<1>2. h \in Place /\ h.on = p.on /\ h.hist = p.hist
  BY HandedOver
<1>3. /\ h.last = p.last
      /\ h.intro = p.intro \cup (IF s \in p.intro /\ others # {} THEN {Earliest(others)} ELSE {})
  BY <1>1 DEF HandOver, PlaceShape
<1>4. r \in Place /\ r.on = p.on /\ r.hist = p.hist
  BY <1>2, Repointed
<1> HIDE DEF h
<1>5. r = Repoint(h, s)
  BY DEF h
<1>6. /\ r.last = (IF p.last # s THEN p.last ELSE IF others = {} THEN NoScan ELSE Newest(others))
      /\ r.intro = h.intro
  BY <1>2, <1>3, <1>5 DEF Repoint, Place
<1> QED
  BY <1>3, <1>4, <1>6 DEF MovedAs

\* And cleared, where that does not name the scan that goes.
LeftAs(c, p, others, s) ==
  /\ c \in Place /\ c.on = p.on /\ c.hist = others
  /\ c.last = (IF p.last # s THEN p.last ELSE IF others = {} THEN NoScan ELSE Newest(others))
  /\ c.intro = (p.intro \ {s}) \cup (IF s \in p.intro /\ others # {} THEN {Earliest(others)} ELSE {})

LEMMA ReleasedPlace ==
  \A p \in Place, s \in Scans : LeftAs(ClearPlace(Repoint(HandOver(p, s), s), s), p, p.hist \ {s}, s)
<1> SUFFICES ASSUME NEW p \in Place, NEW s \in Scans, NEW c, c = ClearPlace(Repoint(HandOver(p, s), s), s),
                    NEW others, others = p.hist \ {s}
             PROVE  LeftAs(c, p, others, s)
  OBVIOUS
<1> DEFINE r == Repoint(HandOver(p, s), s)
<1>1. PlaceShape(p)
  BY DEF Place, PlaceShape
<1>2. others # {} => Earliest(others) \in others /\ Newest(others) \in others
  BY <1>1, PointerTargets DEF PlaceShape
<1>3. /\ r \in Place /\ r.on = p.on /\ r.hist = p.hist
      /\ r.last = (IF p.last # s THEN p.last ELSE IF others = {} THEN NoScan ELSE Newest(others))
      /\ r.intro = p.intro \cup (IF s \in p.intro /\ others # {} THEN {Earliest(others)} ELSE {})
  <2>1. r = Repoint(HandOver(p, s), s)
    OBVIOUS
  <2> HIDE DEF r
  <2> QED
    BY <2>1, MovedPlace DEF MovedAs
<1> HIDE DEF r
<1>4. c = ClearPlace(r, s)
  BY DEF r
<1>5. c \in Place /\ c.on = p.on /\ c.hist = others
  BY <1>3, <1>4, Cleared
<1>6. c.last = (IF r.last = s THEN NoScan ELSE r.last) /\ c.intro = r.intro \ {s}
  BY <1>3, <1>4 DEF ClearPlace, Place
<1>7. c.last = r.last
  BY <1>1, <1>2, <1>3, <1>6, NoScanIsNone DEF PlaceShape
<1>8. c.intro = (p.intro \ {s}) \cup (IF s \in p.intro /\ others # {} THEN {Earliest(others)} ELSE {})
  BY <1>2, <1>3, <1>6
<1> QED
  BY <1>3, <1>5, <1>7, <1>8 DEF LeftAs

\* The host is somebody else's still, or somebody worked on it.
LEMMA ReleasedHostOK ==
  ASSUME NEW p \in Place, NEW s \in Scans, NEW w \in BOOLEAN, HostOK(p, w),
         p.on /\ ~w => p.hist \ {s} # {}
  PROVE  HostOK(ClearPlace(Repoint(HandOver(p, s), s), s), w)
<1> DEFINE c == ClearPlace(Repoint(HandOver(p, s), s), s)
           others == p.hist \ {s}
<1>1. PlaceShape(p)
  BY DEF Place, PlaceShape
<1>2. others # {} => Earliest(others) \in others /\ Newest(others) \in others
  BY <1>1, PointerTargets DEF PlaceShape
<1>3. /\ c \in Place /\ c.on = p.on /\ c.hist = others
      /\ c.last = IF p.last # s THEN p.last ELSE IF others = {} THEN NoScan ELSE Newest(others)
      /\ c.intro = (p.intro \ {s}) \cup (IF s \in p.intro /\ others # {} THEN {Earliest(others)} ELSE {})
  <2>1. LeftAs(c, p, others, s)
    BY ReleasedPlace
  <2> HIDE DEF c, others
  <2> QED
    BY <2>1 DEF LeftAs
<1>4. CASE ~p.on
  <2>1. p = NoPlace
    BY <1>4 DEF HostOK
  <2>2. c = NoPlace
    BY <2>1, NothingToClear
  <2> QED
    BY <2>2 DEF HostOK, NoPlace
<1>5. CASE p.on
  <2>1. p.last \in p.hist \cup {NoScan} /\ p.intro \subseteq p.hist /\ (p.intro # {} \/ w)
    BY <1>5 DEF HostOK
  <2> HIDE DEF c
  <2>2. c.last \in c.hist \cup {NoScan} /\ c.intro \subseteq c.hist
    BY <1>2, <1>3, <2>1
  <2>3. ~w => c.intro # {}
    BY <1>2, <1>3, <1>5, <2>1
  <2>4. HostOK(c, w)
    BY <1>3, <1>5, <2>2, <2>3 DEF HostOK
  <2> QED
    BY <2>4 DEF c
<1> QED
  BY <1>4, <1>5

---------------------------------------------------------------------------
(* The rows together.                                                      *)

LEMMA NoRowsSound ==
  ASSUME NEW w
  PROVE  Sound(NoRows, w)
  BY DEF Sound, NoRows, ThingOK, VulnOK, HostOK, Within, HasWork, NoPlace, NoThing, NoObservation

\* A batch leaves them sound.
LEMMA ReportSound ==
  ASSUME NEW d \in Rows, Hangs(d), NEW s \in Scans, NEW what \in Reports, NEW w, Sound(d, w)
  PROVE  Sound(Reported(d, s, what), w)
<1> DEFINE e == Reported(d, s, what)
<1>1. /\ d.host \in Place /\ d.port \in Place /\ d.script \in Thing /\ d.attr \in Thing
      /\ d.vuln \in Observation /\ d.web \in SUBSET Scans
      /\ DOMAIN d = {"host", "port", "script", "attr", "vuln", "web", "note", "finding"}
  BY DEF Rows
<1>2. /\ e.host \in {SeePlace(d.host, s), NoteHost(d.host, s)}
      /\ e.port = IF what \in {"ports", "scripts"} THEN SeePlace(d.port, s)
                  ELSE IF what = "web" THEN d.port ELSE TouchPort(d.port, s)
      /\ e.script = IF what = "scripts" THEN SeeThing(d.script, s) ELSE d.script
      /\ e.attr = IF what \in {"nessus", "informational"} THEN SeeThing(d.attr, s) ELSE d.attr
      /\ e.vuln = IF what = "nessus" THEN SeeObservation(d.vuln, s) ELSE d.vuln
      /\ e.web \subseteq d.web \cup {s} /\ e.note = d.note /\ e.finding = d.finding
  <2>1. CASE what = "ports"
    BY <1>1, <2>1 DEF Reported
  <2>2. CASE what = "scripts"
    BY <1>1, <2>2 DEF Reported
  <2>3. CASE what = "nessus"
    BY <1>1, <2>3 DEF Reported
  <2>4. CASE what = "informational"
    BY <1>1, <2>4 DEF Reported
  <2>5. CASE what = "web"
    BY <1>1, <2>5 DEF Reported
  <2> QED
    BY <2>1, <2>2, <2>3, <2>4, <2>5 DEF Reports
<1> HIDE DEF e
<1>3. HostOK(e.host, w) /\ e.host.hist = d.host.hist \cup {s}
  BY <1>1, <1>2, SeenHostOK, Seen, Noted DEF Sound
<1>4. ThingOK(e.script) /\ ThingOK(e.attr)
  BY <1>1, <1>2, SeenThingOK DEF Sound
<1>5. VulnOK(e.vuln, w)
  BY <1>1, <1>2, SeenVulnOK DEF Sound
<1>6. /\ e.port.hist \subseteq d.port.hist \cup {s} /\ e.port.last \in {d.port.last, s}
      /\ (d.script.seen \subseteq d.port.hist => e.script.seen \subseteq e.port.hist)
  <2>1. /\ SeePlace(d.port, s).hist = d.port.hist \cup {s} /\ SeePlace(d.port, s).last = s
    BY DEF SeePlace
  <2>2. TouchPort(d.port, s).last = s /\ TouchPort(d.port, s).hist = IF d.port.on THEN d.port.hist ELSE {}
    BY <1>1 DEF TouchPort, NoPlace, Place
  <2>3. SeeThing(d.script, s).seen = d.script.seen \cup {s}
    BY DEF SeeThing
  <2>4. CASE what \in {"ports", "scripts"}
    BY <1>2, <2>1, <2>3, <2>4
  <2>5. CASE what = "web"
    BY <1>2, <2>5
  <2>6. CASE what \in {"nessus", "informational"}
    <3>1. ~d.port.on => d.script.seen = {}
      BY <1>1 DEF Hangs, Sound, ThingOK, NoThing
    <3> QED
      BY <1>2, <2>2, <2>6, <3>1
  <2> QED
    BY <2>4, <2>5, <2>6 DEF Reports
<1>7. e.attr.seen \subseteq d.attr.seen \cup {s} /\ e.vuln.seen \subseteq d.vuln.seen \cup {s}
  BY <1>2 DEF SeeThing, SeeObservation
<1>8. Within(e)
  BY <1>2, <1>3, <1>6, <1>7 DEF Sound, Within
<1>9. HasWork(e) => w
  BY <1>2 DEF Sound, HasWork
<1> QED
  BY <1>3, <1>4, <1>5, <1>8, <1>9 DEF Sound, e
\* The pointers moved: what is not removed now will be somebody else's.
LEMMA PointersPointed ==
  ASSUME NEW d \in Rows, NEW s \in Scans, NEW w \in BOOLEAN, Sound(d, w),
         NEW e, e = ReleasePointers(d, s)
  PROVE  Pointed(e, s, RemovedWithScan(e, s), w)
<1>1. /\ d.host \in Place /\ d.port \in Place /\ d.script \in Thing /\ d.attr \in Thing
      /\ d.vuln \in Observation
  BY DEF Rows
<1>2. /\ e.host = d.host /\ e.port = d.port /\ e.web = d.web /\ e.note = d.note
      /\ e.finding = d.finding /\ e.script = ReleaseThing(d.script, s)
      /\ e.attr = ReleaseThing(d.attr, s) /\ e.vuln = MoveObservation(d.vuln, s)
  BY Fields
<1>3. /\ ThingOK(ClearThing(e.script, s)) /\ e.script.seen \subseteq d.script.seen
      /\ ThingOK(ClearThing(e.attr, s)) /\ e.attr.seen \subseteq d.attr.seen
  BY <1>1, <1>2, ReleasedThingOK DEF Sound
<1>4. RemovedWithScan(e, s) \/ VulnOK(ClearObservation(e.vuln, s), w)
  <2> SUFFICES ASSUME ~RemovedWithScan(e, s)
               PROVE  VulnOK(ClearObservation(e.vuln, s), w)
    OBVIOUS
  <2>1. ~OnlyThisScanSaw(e.vuln, s) \/ w
    BY <1>2 DEF RemovedWithScan, Sound, HasWork
  <2> QED
    BY <1>1, <1>2, <2>1, MovedVulnOK DEF Sound
<1>5. e.vuln.seen = d.vuln.seen
  BY <1>1, <1>2, ObservationMoved
<1>6. Within(e)
  BY <1>2, <1>3, <1>5 DEF Sound, Within
<1> QED
  BY <1>2, <1>3, <1>4, <1>6 DEF Pointed, Sound, HasWork

\* The rest and the cascade make them sound again.
LEMMA RestSound ==
  ASSUME NEW d \in Rows, NEW s \in Scans, NEW struck \in BOOLEAN, NEW w \in BOOLEAN,
         Pointed(d, s, struck, w), ~Brought(d, s, w),
         NEW r \in Rows, r = ReleaseRest(d, s, struck)
  PROVE  Sound(DeleteScanRow(r, s), w)
<1> DEFINE e == DeleteScanRow(r, s)
<1>1. d.host \in Place /\ d.port \in Place /\ d.script \in Thing /\ d.attr \in Thing /\ d.vuln \in Observation
  BY DEF Rows
<1>2. /\ r.script = d.script /\ r.attr = d.attr /\ r.web = d.web /\ r.note = d.note
      /\ r.finding = (d.finding /\ ~struck)
      /\ r.vuln = IF struck THEN NoObservation ELSE d.vuln
      /\ r.host = Repoint(HandOver(d.host, s), s) /\ r.port = Repoint(HandOver(d.port, s), s)
  BY Fields
<1>3. /\ e.host = ClearPlace(r.host, s) /\ e.port = ClearPlace(r.port, s)
      /\ e.script = ClearThing(d.script, s) /\ e.attr = ClearThing(d.attr, s)
      /\ e.vuln = ClearObservation(r.vuln, s)
      /\ e.web = d.web \ {s} /\ e.note = d.note /\ e.finding = r.finding
  BY <1>2, Fields
<1> HIDE DEF e
<1>4. HostOK(e.host, w)
  BY <1>1, <1>2, <1>3, ReleasedHostOK DEF Pointed, Brought
<1>5. /\ e.host.hist = d.host.hist \ {s} /\ e.port.hist = d.port.hist \ {s}
      /\ e.port.last \in {d.port.last, NoScan} \cup (d.port.hist \ {s}) /\ e.port.last # s
  <2>1. LeftAs(e.host, d.host, d.host.hist \ {s}, s) /\ LeftAs(e.port, d.port, d.port.hist \ {s}, s)
    BY <1>1, <1>2, <1>3, ReleasedPlace
  <2>2. /\ e.host.hist = d.host.hist \ {s} /\ e.port.hist = d.port.hist \ {s}
        /\ e.port.last = (IF d.port.last # s THEN d.port.last
                          ELSE IF d.port.hist \ {s} = {} THEN NoScan ELSE Newest(d.port.hist \ {s}))
    BY <2>1 DEF LeftAs
  <2>3. d.port.hist \ {s} # {} => Newest(d.port.hist \ {s}) \in d.port.hist \ {s}
    BY <1>1, PointerTargets DEF Place
  <2> QED
    BY <2>1, <2>2, <2>3, NoScanIsNone
<1>6. VulnOK(e.vuln, w) /\ e.vuln.seen \subseteq d.vuln.seen \ {s}
  <2>1. CASE struck
    <3>1. e.vuln = NoObservation
      BY <1>2, <1>3, <2>1, NothingToClear
    <3>2. NoObservation.on = FALSE /\ NoObservation.seen = {}
      BY DEF NoObservation
    <3> QED
      BY <3>1, <3>2 DEF VulnOK
  <2>2. CASE ~struck
    BY <1>1, <1>2, <1>3, <2>2, ObservationCleared DEF Pointed
  <2> QED
    BY <2>1, <2>2
<1>7. e.script.seen = d.script.seen \ {s} /\ e.attr.seen = d.attr.seen \ {s}
  BY <1>1, <1>3, ThingCleared
<1>8. Within(e)
  BY <1>3, <1>5, <1>6, <1>7 DEF Pointed, Within
<1>9. HasWork(e) => w
  BY <1>2, <1>3 DEF Pointed, HasWork
<1>10. ThingOK(e.script) /\ ThingOK(e.attr)
  BY <1>3 DEF Pointed
<1> QED
  BY <1>4, <1>6, <1>8, <1>9, <1>10 DEF Sound, e

\* A host that s alone brought is one the cleanup's guards let go.
LEMMA BroughtGoes ==
  ASSUME NEW d \in Rows, NEW s \in Scans, NEW struck \in BOOLEAN, NEW w \in BOOLEAN,
         Pointed(d, s, struck, w), Brought(d, s, w),
         NEW e, e = ReleaseRest(d, s, struck)
  PROVE  HostsCleanupRemoves(e, s)
<1>1. d.host \in Place /\ d.port \in Place /\ d.script \in Thing /\ d.attr \in Thing /\ d.vuln \in Observation
  BY DEF Rows
<1>2. /\ e.script = d.script /\ e.attr = d.attr /\ e.web = d.web /\ e.note = d.note
      /\ e.finding = (d.finding /\ ~struck)
      /\ e.vuln = IF struck THEN NoObservation ELSE d.vuln
      /\ e.host = Repoint(HandOver(d.host, s), s) /\ e.port = Repoint(HandOver(d.port, s), s)
  BY Fields
<1>3. /\ d.host.on /\ d.host.hist \subseteq {s} /\ ~w
      /\ d.host.last \in {s, NoScan} /\ d.host.intro = {s}
  BY DEF Brought, Pointed, HostOK
<1>4. /\ d.port.hist \subseteq {s} /\ d.port.last \in {s, NoScan}
      /\ d.attr.seen \subseteq {s} /\ d.vuln.seen \subseteq {s} /\ d.web \subseteq {s}
  BY <1>3 DEF Pointed, Within
<1>5. e.host.on /\ e.host.hist \ {s} = {} /\ e.host.last = NoScan /\ s \in e.host.intro
  <2>1. d.host.hist \ {s} = {}
    BY <1>3
  <2> QED
    <3>1. MovedAs(e.host, d.host, d.host.hist \ {s}, s)
      BY <1>1, <1>2, MovedPlace
    <3> QED
      BY <1>3, <2>1, <3>1 DEF MovedAs
<1>6. e.port.hist \ {s} = {} /\ e.port.last = NoScan
  <2>1. d.port.hist \ {s} = {}
    BY <1>4
  <2> QED
    <3>1. MovedAs(e.port, d.port, d.port.hist \ {s}, s)
      BY <1>1, <1>2, MovedPlace
    <3> QED
      BY <1>4, <2>1, <3>1 DEF MovedAs
<1>7. ~e.attr.on
  <2>1. ClearThing(d.attr, s).on = d.attr.on /\ ClearThing(d.attr, s).seen = {}
    BY <1>1, <1>4, ThingCleared
  <2> QED
    BY <1>2, <2>1 DEF Pointed, ThingOK, NoThing
<1>8. ~e.vuln.on
  <2>1. CASE struck
    BY <1>2, <2>1 DEF NoObservation
  <2>2. CASE ~struck
    <3>1. ClearObservation(d.vuln, s).on = d.vuln.on /\ ClearObservation(d.vuln, s).seen = {}
      BY <1>1, <1>4, ObservationCleared
    <3> QED
      BY <1>2, <1>3, <2>2, <3>1 DEF Pointed, VulnOK, NoObservation
  <2> QED
    BY <2>1, <2>2
<1>9. HostProvenance(e, s, FALSE)
  BY <1>2, <1>4, <1>5, <1>6, <1>7, <1>8 DEF HostProvenance, SeenByAnotherScan, FirstRecordedElsewhere
<1>10. ~HasWork(e)
  BY <1>2, <1>3 DEF HasWork, Pointed
<1> QED
  BY <1>5, <1>9, <1>10 DEF HostsCleanupRemoves

\* And one the delete by hand chooses.
LEMMA BroughtChosen ==
  ASSUME NEW d \in Rows, NEW s \in Scans, NEW w, Sound(d, w), Brought(d, s, w)
  PROVE  HostsScanBrought(d, s)
<1>1. /\ d.host.on /\ d.host.hist \subseteq {s} /\ ~w
      /\ d.host.last \in {s, NoScan} /\ d.host.intro = {s} /\ s \in d.host.hist
  BY DEF Brought, Sound, HostOK
<1>2. /\ d.port.hist \subseteq {s} /\ d.port.last \in {s, NoScan} /\ d.script.seen \subseteq {s}
      /\ d.attr.seen \subseteq {s} /\ d.vuln.seen \subseteq {s} /\ d.web \subseteq {s}
  BY <1>1 DEF Sound, Within
<1>3. ~FirstRecordedElsewhere(d.attr, s)
  BY <1>2 DEF FirstRecordedElsewhere, Sound, ThingOK
<1>4. ~SeenByAnotherScan(d.vuln, s)
  BY <1>1, <1>2 DEF SeenByAnotherScan, Sound, VulnOK
<1> QED
  BY <1>1, <1>2, <1>3, <1>4 DEF HostsScanBrought, HostProvenance

\* A port that goes takes nothing else with it.
LEMMA PortsSound ==
  ASSUME NEW d \in Rows, NEW s \in Scans, NEW before \in BOOLEAN, NEW w,
         NEW e \in Rows, e = DeletePortsScanCreated(d, s, before), Sound(DeleteScanRow(d, s), w)
  PROVE  Sound(DeleteScanRow(e, s), w)
<1> DEFINE a == DeleteScanRow(d, s)
           b == DeleteScanRow(e, s)
<1>1. CASE e = d
  BY <1>1
<1>2. CASE e # d
  <2>1. /\ e.port = NoPlace /\ e.script = NoThing /\ e.vuln = NoObservation
        /\ e.host = d.host /\ e.attr = d.attr /\ e.web = d.web /\ e.note = d.note
        /\ e.finding = d.finding
    BY <1>2, Fields DEF DeletePortsScanCreated
  <2>2. /\ b.host = a.host /\ b.attr = a.attr /\ b.web = a.web /\ b.note = a.note
        /\ b.finding = a.finding
        /\ b.port = ClearPlace(NoPlace, s) /\ b.script = ClearThing(NoThing, s)
        /\ b.vuln = ClearObservation(NoObservation, s)
    <3>1. /\ a.host = ClearPlace(d.host, s) /\ a.attr = ClearThing(d.attr, s)
          /\ a.web = d.web \ {s} /\ a.note = d.note /\ a.finding = d.finding
      BY Fields
    <3>2. /\ b.host = ClearPlace(e.host, s) /\ b.port = ClearPlace(e.port, s)
          /\ b.script = ClearThing(e.script, s) /\ b.attr = ClearThing(e.attr, s)
          /\ b.vuln = ClearObservation(e.vuln, s)
          /\ b.web = e.web \ {s} /\ b.note = e.note /\ b.finding = e.finding
      BY Fields
    <3> QED
      BY <2>1, <3>1, <3>2
  <2>3. b.port = NoPlace /\ b.script = NoThing /\ b.vuln = NoObservation
    BY <2>2, NothingToClear
  <2> HIDE DEF a, b
  <2>4. Sound(a, w)
    BY DEF a
  <2>5. ThingOK(b.script) /\ VulnOK(b.vuln, w)
    BY <2>3 DEF ThingOK, VulnOK, NoThing, NoObservation
  <2>6. Within(b)
    BY <2>2, <2>3, <2>4 DEF Sound, Within, NoPlace, NoThing, NoObservation
  <2>7. Sound(b, w)
    BY <2>2, <2>4, <2>5, <2>6 DEF Sound, HasWork
  <2> QED
    BY <2>7 DEF b
<1> QED
  BY <1>1, <1>2
---------------------------------------------------------------------------
(* The steps.                                                              *)

LEMMA IdleIsNot == Idle.kind = "none" /\ Idle.step = "none" /\ Idle.host = FALSE /\ Idle.confirmed = FALSE
  BY DEF Idle

\* Once no delete is under way, sound rows are all there is to say.
LEMMA SettledS ==
  ASSUME doing' = Idle, Sound(db', worked')
  PROVE  SInv'
  BY IdleIsNot DEF SInv, NamedScan, Waiting, HostRowLocked

LEMMA InitS ==
  ASSUME Init
  PROVE  SInv
  BY IdleIsNot, NoRowsSound DEF Init, SInv, NamedScan, Waiting, HostRowLocked

\* Imports write only while no delete is under way.
LEMMA ImportS ==
  ASSUME IInv, SInv, NEW s \in Scans,
         Start(s) \/ (\E what \in Reports : Report(s, what)) \/ (\E as \in {"done", "failed"} : End(s, as))
  PROVE  SInv'
<1>1. CASE \E what \in Reports : Report(s, what)
  <2>1. PICK what \in Reports : Report(s, what)
    BY <1>1
  <2>2. doing = Idle /\ doing' = Idle /\ worked' = worked /\ db' = Reported(db, s, what)
    BY <2>1 DEF Report
  <2>3. Sound(db', worked')
    BY <2>2, ReportSound DEF IInv, TypeOK, SInv
  <2> QED
    BY <2>2, <2>3, SettledS
<1>2. CASE Start(s) \/ \E as \in {"done", "failed"} : End(s, as)
  <2>1. db' = db /\ doing' = doing /\ worked' = worked
    BY <1>2 DEF Start, End
  <2> QED
    BY <2>1 DEF SInv, NamedScan, Waiting, HostRowLocked
<1> QED
  BY <1>1, <1>2

\* The cleanup moves the pointers, then chooses its host.
LEMMA CleanupReleaseS ==
  ASSUME IInv, SInv, NEW s \in Scans, CleanupRelease(s)
  PROVE  SInv'
<1>1. /\ doing = Idle /\ db' = ReleasePointers(db, s) /\ worked' = worked
      /\ doing'.kind = "cleanup" /\ doing'.step = "released" /\ doing'.scan = s
      /\ doing'.vuln = RemovedWithScan(db', s)
  BY DEF CleanupRelease, Idle
<1>2. db \in Rows /\ worked \in BOOLEAN /\ Sound(db, worked)
  BY <1>1 DEF IInv, TypeOK, SInv
<1>3. Pointed(db', s, doing'.vuln, worked')
  BY <1>1, <1>2, PointersPointed
<1>4. doing' # Idle
  BY <1>1, IdleIsNot
<1> QED
  BY <1>1, <1>3, <1>4 DEF SInv, NamedScan, Waiting, HostRowLocked

LEMMA CleanupChooseS ==
  ASSUME IInv, SInv, NEW s \in Scans, CleanupChoose(s)
  PROVE  SInv'
<1>1. /\ doing.kind = "cleanup" /\ doing.scan = s /\ doing.step = "released"
      /\ db' = ReleaseRest(db, s, doing.vuln) /\ worked' = worked
      /\ doing'.kind = "cleanup" /\ doing'.step = "chosen" /\ doing'.scan = s
      /\ doing'.host = HostsCleanupRemoves(db', s)
  BY DEF CleanupChoose, IInv, TypeOK
<1>2. db \in Rows /\ worked \in BOOLEAN /\ doing.vuln \in BOOLEAN /\ Pointed(db, s, doing.vuln, worked)
  BY <1>1 DEF IInv, TypeOK, SInv
<1>3. db' \in Rows
  BY <1>1, <1>2, RestReleased DEF IInv, TypeOK, DoingOK
<1>4. ~doing'.host => Sound(DeleteScanRow(db', s), worked')
  <2>1. ~doing'.host => ~Brought(db, s, worked)
    BY <1>1, <1>2, BroughtGoes
  <2> QED
    BY <1>1, <1>2, <1>3, <2>1, RestSound
<1>5. doing' # Idle
  BY <1>1, IdleIsNot
<1> QED
  BY <1>1, <1>4, <1>5 DEF SInv, NamedScan, Waiting, HostRowLocked

LEMMA CleanupDeleteS ==
  ASSUME IInv, SInv, NEW s \in Scans, CleanupDelete(s)
  PROVE  SInv'
<1> DEFINE c == IF doing.host THEN NoRows ELSE db
           e == DeletePortsScanCreated(c, s, FALSE)
<1>1. /\ doing.kind = "cleanup" /\ doing.scan = s /\ doing.step = "chosen"
      /\ db' = DeleteScanRow(e, s) /\ doing' = Idle
      /\ worked' = (worked /\ ~doing.host)
  BY DEF CleanupDelete, Gone
<1>2. /\ db \in Rows /\ Hangs(db) /\ worked \in BOOLEAN /\ doing.host \in BOOLEAN
      /\ (db.vuln.seen \ {s} # {} => db.vuln.first # s)
  BY <1>1 DEF IInv, TypeOK, DoingOK
<1>3. c \in Rows /\ Hangs(c) /\ (c.vuln.seen \ {s} # {} => c.vuln.first # s)
  BY <1>2, RowFields
<1>4. Sound(DeleteScanRow(c, s), worked')
  <2>1. CASE doing.host
    <3>1. c = NoRows /\ DeleteScanRow(NoRows, s) = NoRows
      <4>1. NoRows \in Rows
        BY RowFields
      <4> DEFINE n == DeleteScanRow(NoRows, s)
      <4>2. /\ n.host = NoPlace /\ n.port = NoPlace /\ n.script = NoThing /\ n.attr = NoThing
            /\ n.vuln = NoObservation /\ n.web = {} /\ n.note = FALSE /\ n.finding = FALSE
        <5>1. /\ NoRows.host = NoPlace /\ NoRows.port = NoPlace /\ NoRows.script = NoThing
              /\ NoRows.attr = NoThing /\ NoRows.vuln = NoObservation /\ NoRows.web = {}
              /\ NoRows.note = FALSE /\ NoRows.finding = FALSE
          BY DEF NoRows
        <5>2. /\ n.host = ClearPlace(NoRows.host, s) /\ n.port = ClearPlace(NoRows.port, s)
              /\ n.script = ClearThing(NoRows.script, s) /\ n.attr = ClearThing(NoRows.attr, s)
              /\ n.vuln = ClearObservation(NoRows.vuln, s)
              /\ n.web = NoRows.web \ {s} /\ n.note = NoRows.note /\ n.finding = NoRows.finding
          BY <4>1, Fields
        <5> QED
          BY <5>1, <5>2, NothingToClear
      <4>3. n \in Rows
        BY <4>1, RowFields, ScanRowDeleted
      <4>4. n = [host |-> n.host, port |-> n.port, script |-> n.script, attr |-> n.attr,
                 vuln |-> n.vuln, web |-> n.web, note |-> n.note, finding |-> n.finding]
        BY <4>3 DEF Rows
      <4> HIDE DEF n
      <4>5. n = NoRows
        BY <4>2, <4>4 DEF NoRows
      <4> QED
        BY <2>1, <4>5 DEF n
    <3> QED
      BY <3>1, NoRowsSound
  <2>2. CASE ~doing.host
    BY <1>1, <1>2, <2>2 DEF SInv
  <2> QED
    BY <1>2, <2>1, <2>2
<1> HIDE DEF c
<1>5. e \in Rows
  BY <1>3, PortsDeleted
<1>6. Sound(db', worked')
  <2>1. e = DeletePortsScanCreated(c, s, FALSE) /\ FALSE \in BOOLEAN
    OBVIOUS
  <2> HIDE DEF e
  <2>2. Sound(DeleteScanRow(e, s), worked')
    BY <1>3, <1>4, <1>5, <2>1, PortsSound
  <2> QED
    BY <1>1, <2>2
<1> QED
  BY <1>1, <1>6, SettledS

\* The delete by hand chooses, asks, writes.
LEMMA HandChooseS ==
  ASSUME IInv, SInv, NEW s \in Scans, NEW confirmed \in BOOLEAN, HandChoose(s, confirmed)
  PROVE  SInv'
<1>1. /\ doing = Idle /\ db' = db /\ worked' = worked
      /\ doing'.kind = "hand" /\ doing'.scan = s /\ doing'.step \in {"chosen", "agreed"}
      /\ doing'.host = HostsScanBrought(db, s)
      /\ doing'.confirmed \/ doing'.step # "agreed"
  BY DEF HandChoose, Idle
<1>2. Sound(db', worked')
  BY <1>1 DEF SInv
<1> QED
  BY <1>1, <1>2 DEF SInv, NamedScan, Waiting, HostRowLocked

LEMMA HandCheckS ==
  ASSUME IInv, SInv, NEW s \in Scans, HandCheck(s)
  PROVE  SInv'
<1>1. /\ doing.kind = "hand" /\ doing.scan = s /\ doing.step = "chosen"
      /\ db' = db /\ worked' = worked
  BY DEF HandCheck
<1>2. Sound(db', worked') /\ doing.host = HostsScanBrought(db, s)
  BY <1>1 DEF SInv, Waiting
<1>3. CASE doing' = Idle
  BY <1>2, <1>3, SettledS
<1>4. CASE doing' # Idle
  <2>1. doing' = [doing EXCEPT !.step = "agreed"] /\ ~(doing.host /\ HasWork(db))
    BY <1>4 DEF HandCheck
  <2>2. doing'.kind = "hand" /\ doing'.scan = s /\ doing'.step = "agreed" /\ doing'.host = doing.host
    BY <1>1, <2>1 DEF IInv, TypeOK
  <2> QED
    BY <1>1, <1>2, <2>1, <2>2 DEF SInv, NamedScan, Waiting, HostRowLocked
<1> QED
  BY <1>3, <1>4

LEMMA HandDeleteS ==
  ASSUME IInv, SInv, NEW s \in Scans, HandDelete(s)
  PROVE  SInv'
<1> DEFINE c == IF doing.host THEN NoRows ELSE db
<1>1. /\ doing.kind = "hand" /\ doing.scan = s /\ doing.step = "agreed"
      /\ db' = ReleasePointers(c, s)
      /\ worked' = (worked /\ ~doing.host)
      /\ doing'.kind = "hand" /\ doing'.scan = s /\ doing'.step = "released"
      /\ doing'.vuln = RemovedWithScan(db', s)
  BY DEF HandDelete, IInv, TypeOK
<1>2. /\ db \in Rows /\ worked \in BOOLEAN /\ doing.host \in BOOLEAN
      /\ Sound(db, worked) /\ doing.host = HostsScanBrought(db, s)
  BY <1>1 DEF IInv, TypeOK, SInv, Waiting
<1>3. c \in Rows /\ worked' \in BOOLEAN
  BY <1>1, <1>2, RowFields
<1>4. Sound(c, worked')
  BY <1>1, <1>2, NoRowsSound
<1>5. ~Brought(c, s, worked')
  <2>1. CASE doing.host
    BY <2>1, RowFields DEF Brought
  <2>2. CASE ~doing.host
    BY <1>1, <1>2, <2>2, BroughtChosen
  <2> QED
    BY <1>2, <2>1, <2>2
<1> HIDE DEF c
<1>6. Pointed(db', s, doing'.vuln, worked')
  BY <1>1, <1>3, <1>4, PointersPointed
<1>7. ~Brought(db', s, worked')
  <2>1. db'.host = c.host
    BY <1>1, <1>3, Fields
  <2> QED
    BY <1>5, <2>1 DEF Brought
<1>8. doing' # Idle
  BY <1>1, IdleIsNot
<1> QED
  BY <1>1, <1>6, <1>7, <1>8 DEF SInv, NamedScan, Waiting, HostRowLocked

LEMMA HandFinishS ==
  ASSUME IInv, SInv, NEW s \in Scans, HandFinish(s)
  PROVE  SInv'
<1> DEFINE c == ReleaseRest(db, s, doing.vuln)
           e == DeletePortsScanCreated(c, s, TRUE)
<1>1. /\ doing.kind = "hand" /\ doing.scan = s /\ doing.step = "released"
      /\ db' = DeleteScanRow(e, s) /\ doing' = Idle /\ worked' = worked
  BY DEF HandFinish, Gone
<1>2. /\ db \in Rows /\ Hangs(db) /\ doing.vuln \in BOOLEAN /\ (doing.vuln => db.vuln.seen \subseteq {s})
      /\ worked \in BOOLEAN /\ Pointed(db, s, doing.vuln, worked) /\ ~Brought(db, s, worked)
  BY <1>1 DEF IInv, TypeOK, DoingOK, SInv
<1>3. c \in Rows /\ Hangs(c)
  BY <1>2, RestReleased
<1>4. Sound(DeleteScanRow(c, s), worked')
  BY <1>1, <1>2, <1>3, RestSound
<1> HIDE DEF c
<1>5. e \in Rows
  BY <1>3, PortsDeleted
<1>6. Sound(db', worked')
  BY <1>1, <1>3, <1>4, <1>5, PortsSound
<1> QED
  BY <1>1, <1>6, SettledS
\* Work that is put on the rows, or taken off, leaves them sound.
SameRows(d, e) == /\ e.host = d.host /\ e.port = d.port /\ e.script = d.script /\ e.attr = d.attr
                  /\ e.vuln = d.vuln /\ e.web = d.web

LEMMA WorkedSound ==
  ASSUME NEW d, NEW e, SameRows(d, e), NEW w \in BOOLEAN, NEW x \in BOOLEAN, w => x,
         HasWork(e) => x
  PROVE  /\ Sound(d, w) => Sound(e, x)
         /\ \A s, struck : Pointed(d, s, struck, w) => Pointed(e, s, struck, x)
<1>1. VulnOK(d.vuln, w) => VulnOK(e.vuln, x)
  BY DEF VulnOK, SameRows
<1>2. HostOK(d.host, w) => HostOK(e.host, x)
  BY DEF HostOK, SameRows
<1>3. Within(d) => Within(e)
  BY DEF Within, SameRows
<1>4. \A s : VulnOK(ClearObservation(d.vuln, s), w) => VulnOK(ClearObservation(e.vuln, s), x)
  BY DEF VulnOK, SameRows
<1> QED
  BY <1>1, <1>2, <1>3, <1>4 DEF Sound, Pointed, SameRows

LEMMA WorkS ==
  ASSUME IInv, SInv, AddNote \/ Promote \/ DropFinding
  PROVE  SInv'
<1>1. /\ doing' = doing /\ ~HostRowLocked
      /\ db' \in {[db EXCEPT !.note = TRUE], [db EXCEPT !.finding = TRUE], [db EXCEPT !.finding = FALSE]}
  BY DEF AddNote, Promote, DropFinding
<1>2. db \in Rows /\ worked \in BOOLEAN
  BY DEF IInv, TypeOK
<1>3. SameRows(db, db') /\ db' \in Rows
  BY <1>1, <1>2 DEF Rows, SameRows
<1>4. worked' \in BOOLEAN /\ (worked => worked') /\ (~worked' => (HasWork(db') => HasWork(db)))
  BY <1>2 DEF AddNote, Promote, DropFinding, HasWork, Rows
<1>5. ~HostRowLocked'
  BY <1>1 DEF HostRowLocked
<1>6. \A s : HostsScanBrought(db', s) = HostsScanBrought(db, s)
  BY <1>3 DEF HostsScanBrought, HostProvenance, SameRows
<1>7. ASSUME Sound(db, worked)
      PROVE  Sound(db', worked')
  <2>1. HasWork(db') => worked'
    BY <1>4, <1>7 DEF Sound
  <2> QED
    BY <1>2, <1>3, <1>4, <1>7, <2>1, WorkedSound
<1>8. ASSUME NEW s, NEW struck, Pointed(db, s, struck, worked)
      PROVE  Pointed(db', s, struck, worked')
  <2>1. HasWork(db') => worked'
    BY <1>4, <1>8 DEF Pointed
  <2> QED
    BY <1>2, <1>3, <1>4, <1>8, <2>1, WorkedSound
<1>9. ASSUME NEW s \in Scans, Sound(DeleteScanRow(db, s), worked)
      PROVE  Sound(DeleteScanRow(db', s), worked')
  <2> DEFINE a == DeleteScanRow(db, s)
             b == DeleteScanRow(db', s)
  <2>1. /\ a.host = ClearPlace(db.host, s) /\ a.port = ClearPlace(db.port, s)
        /\ a.script = ClearThing(db.script, s) /\ a.attr = ClearThing(db.attr, s)
        /\ a.vuln = ClearObservation(db.vuln, s)
        /\ a.web = db.web \ {s} /\ a.note = db.note /\ a.finding = db.finding
    BY <1>2, Fields
  <2>2. /\ b.host = ClearPlace(db'.host, s) /\ b.port = ClearPlace(db'.port, s)
        /\ b.script = ClearThing(db'.script, s) /\ b.attr = ClearThing(db'.attr, s)
        /\ b.vuln = ClearObservation(db'.vuln, s)
        /\ b.web = db'.web \ {s} /\ b.note = db'.note /\ b.finding = db'.finding
    BY <1>3, Fields
  <2> HIDE DEF a, b
  <2>3. SameRows(a, b)
    BY <1>3, <2>1, <2>2 DEF SameRows
  <2>4. Sound(a, worked)
    BY <1>9 DEF a
  <2>5. HasWork(b) => worked'
    BY <1>4, <2>1, <2>2, <2>4 DEF Sound, HasWork
  <2>6. Sound(b, worked')
    BY <1>2, <1>4, <2>3, <2>4, <2>5, WorkedSound
  <2> QED
    BY <2>6 DEF b
<1>10. \A s : Brought(db', s, worked') => Brought(db, s, worked)
  BY <1>3, <1>4 DEF Brought, SameRows
<1>11. NamedScan
  BY DEF SInv
<1> QED
  BY <1>1, <1>5, <1>6, <1>7, <1>8, <1>9, <1>10, <1>11 DEF SInv, Waiting, NamedScan
LEMMA NextS ==
  ASSUME IInv, SInv, [Next]_vars
  PROVE  SInv'
<1>1. CASE UNCHANGED vars
  BY <1>1 DEF vars, SInv, NamedScan, Waiting, HostRowLocked
<1>2. ASSUME NEW s \in Scans,
             \/ Start(s)
             \/ \E what \in Reports : Report(s, what)
             \/ \E as \in {"done", "failed"} : End(s, as)
             \/ CleanupRelease(s) \/ CleanupChoose(s) \/ CleanupDelete(s)
             \/ \E yes \in BOOLEAN : HandChoose(s, yes)
             \/ HandCheck(s) \/ HandDelete(s) \/ HandFinish(s)
      PROVE  SInv'
  <2>1. CASE Start(s) \/ (\E what \in Reports : Report(s, what))
             \/ (\E as \in {"done", "failed"} : End(s, as))
    BY <2>1, ImportS
  <2>2. CASE CleanupRelease(s) \/ CleanupChoose(s) \/ CleanupDelete(s)
    BY <2>2, CleanupReleaseS, CleanupChooseS, CleanupDeleteS
  <2>3. CASE \E yes \in BOOLEAN : HandChoose(s, yes)
    BY <2>3, HandChooseS
  <2>4. CASE HandCheck(s) \/ HandDelete(s) \/ HandFinish(s)
    BY <2>4, HandCheckS, HandDeleteS, HandFinishS
  <2> QED
    BY <1>2, <2>1, <2>2, <2>3, <2>4
<1>3. CASE AddNote \/ Promote \/ DropFinding
  BY <1>3, WorkS
<1> QED
  BY <1>1, <1>2, <1>3 DEF Next

LEMMA SettledInvariant == Spec => []SInv
  BY InitS, NextS, Invariant, PTL DEF Spec

---------------------------------------------------------------------------
(* The guards of the two deletes, before and after the pointers moved.     *)

\* An attribute: nobody else recorded it, asked before with its sightings.
LEMMA AttrAgrees ==
  ASSUME NEW t \in Thing, NEW s \in Scans, ThingOK(t), NEW r, r = ReleaseThing(t, s)
  PROVE  /\ t.seen \ {s} = {} /\ ~FirstRecordedElsewhere(t, s) <=> ~FirstRecordedElsewhere(r, s)
         /\ ~FirstRecordedElsewhere(r, s) => r.seen \ {s} = {}
<1>1. /\ r.on => r.first \in t.seen \ {s}
      /\ r.on <=> t.on /\ t.seen \ {s} # {}
      /\ r.seen = (IF r.on THEN t.seen ELSE {})
      /\ ~t.on => t.seen = {}
  BY ReleasedThingOK
<1>2. t.seen \subseteq Scans
  BY DEF Thing
<1>3. FirstRecordedElsewhere(r, s) <=> r.on
  BY <1>1, <1>2, NoScanIsNone DEF FirstRecordedElsewhere
<1>4. t.on /\ t.seen \ {s} = {} => t.first = s
  BY DEF ThingOK
<1>5. t.seen \ {s} = {} => ~FirstRecordedElsewhere(t, s)
  BY <1>2, <1>4, NoScanIsNone DEF FirstRecordedElsewhere
<1> QED
  BY <1>1, <1>3, <1>5

\* A script, likewise.
LEMMA ScriptAgrees ==
  ASSUME NEW t \in Thing, NEW s \in Scans, ThingOK(t), NEW r, r = ReleaseThing(t, s)
  PROVE  /\ t.seen \ {s} = {} <=> r.seen \ {s} = {}
         /\ t.seen \ {s} = {} => (t.on => t.first = s) /\ ~r.on
         /\ (r.on => r.first = s) => t.seen \ {s} = {}
<1>1. /\ r.on => r.first \in t.seen \ {s}
      /\ r.on <=> t.on /\ t.seen \ {s} # {}
      /\ r.seen = (IF r.on THEN t.seen ELSE {})
      /\ ~t.on => t.seen = {}
  BY ReleasedThingOK
<1>2. t.on /\ t.seen \ {s} = {} => t.first = s
  BY DEF ThingOK
<1> QED
  BY <1>1, <1>2

\* An observation, which is struck when s alone saw it and nobody reported it.
LEMMA VulnAgrees ==
  ASSUME NEW v \in Observation, NEW s \in Scans, NEW w, VulnOK(v, w),
         NEW m, m = MoveObservation(v, s), NEW struck \in BOOLEAN,
         struck => OnlyThisScanSaw(m, s), NEW r, r = (IF struck THEN NoObservation ELSE m)
  PROVE  /\ v.seen \ {s} = {} /\ ~SeenByAnotherScan(v, s) <=> ~SeenByAnotherScan(r, s)
         /\ ~SeenByAnotherScan(r, s) => r.seen \ {s} = {}
         /\ v.seen \ {s} = {} <=> r.seen \ {s} = {}
<1>1. NoObservation.on = FALSE /\ NoObservation.seen = {}
  BY DEF NoObservation
<1>2. m.on = v.on /\ m.seen = v.seen /\ v.seen \subseteq Scans
  BY ObservationMoved DEF Observation
<1>3. CASE ~v.on
  <2>1. v.seen = {} /\ ~SeenByAnotherScan(v, s)
    BY <1>1, <1>3 DEF VulnOK, SeenByAnotherScan
  <2>2. ~r.on /\ r.seen = {}
    BY <1>1, <1>2, <1>3, <2>1
  <2> QED
    BY <2>1, <2>2 DEF SeenByAnotherScan
<1>4. CASE v.on /\ v.seen \ {s} # {}
  <2>1. m.first \in v.seen \ {s} \/ m.first = NoScan
    BY <1>4, MovedTo
  <2>2. m.first # s
    BY <2>1, NoScanIsNone
  <2>3. r = m
    BY <2>2 DEF OnlyThisScanSaw
  <2>4. SeenByAnotherScan(r, s)
    BY <1>2, <1>4, <2>2, <2>3 DEF SeenByAnotherScan
  <2> QED
    BY <1>2, <1>4, <2>3, <2>4
<1>5. CASE v.on /\ v.seen \ {s} = {}
  <2>1. m = v
    BY <1>5, MovedTo
  <2>2. struck => ~SeenByAnotherScan(v, s)
    BY <2>1 DEF OnlyThisScanSaw, SeenByAnotherScan
  <2>3. ~SeenByAnotherScan(NoObservation, s)
    BY <1>1 DEF SeenByAnotherScan
  <2> QED
    BY <1>1, <1>5, <2>1, <2>2, <2>3
<1> QED
  BY <1>3, <1>4, <1>5 DEF Observation

\* A place that nobody else has in its history.
LEMMA PlaceAgrees ==
  ASSUME NEW p \in Place, NEW s \in Scans, NEW r, r = Repoint(HandOver(p, s), s)
  PROVE  /\ r.on = p.on /\ r.hist = p.hist
         /\ p.hist \ {s} = {} => /\ r.last \in {NoScan, s} <=> p.last \in {NoScan, s}
                                 /\ r.intro = p.intro
<1>1. MovedAs(r, p, p.hist \ {s}, s)
  BY MovedPlace
<1>2. p.intro \in SUBSET Scans
  BY DEF Place
<1> QED
  BY <1>1, <1>2 DEF MovedAs
\* The rows after release_scan.
LEMMA ReleasedFields ==
  ASSUME NEW d \in Rows, NEW s \in Scans, NEW e, e = ReleaseScan(d, s)
  PROVE  \E struck \in BOOLEAN :
           /\ struck => OnlyThisScanSaw(MoveObservation(d.vuln, s), s) /\ ~d.finding
           /\ e.script = ReleaseThing(d.script, s) /\ e.attr = ReleaseThing(d.attr, s)
           /\ e.vuln = (IF struck THEN NoObservation ELSE MoveObservation(d.vuln, s))
           /\ e.host = Repoint(HandOver(d.host, s), s) /\ e.port = Repoint(HandOver(d.port, s), s)
           /\ e.web = d.web /\ e.note = d.note /\ (e.finding <=> d.finding)
<1> DEFINE m == ReleasePointers(d, s)
           k == RemovedWithScan(m, s)
<1>1. /\ m.host = d.host /\ m.port = d.port /\ m.web = d.web /\ m.note = d.note
      /\ m.finding = d.finding /\ m.script = ReleaseThing(d.script, s)
      /\ m.attr = ReleaseThing(d.attr, s) /\ m.vuln = MoveObservation(d.vuln, s)
  BY Fields
<1>2. m \in Rows
  <2>1. /\ ReleaseThing(d.script, s) \in Thing /\ ReleaseThing(d.attr, s) \in Thing
        /\ MoveObservation(d.vuln, s) \in Observation
    BY RowFields, ThingReleased, ObservationMoved
  <2> QED
    BY <2>1 DEF ReleasePointers, Rows
<1>3. k \in BOOLEAN
  BY DEF RemovedWithScan
<1>4. e = ReleaseRest(m, s, k)
  BY DEF ReleaseScan
<1>5. k => OnlyThisScanSaw(MoveObservation(d.vuln, s), s) /\ ~d.finding
  BY <1>1 DEF RemovedWithScan
<1> HIDE DEF m, k
<1>6. /\ e.script = m.script /\ e.attr = m.attr /\ e.web = m.web /\ e.note = m.note
      /\ e.finding = (m.finding /\ ~k)
      /\ e.vuln = IF k THEN NoObservation ELSE m.vuln
      /\ e.host = Repoint(HandOver(m.host, s), s) /\ e.port = Repoint(HandOver(m.port, s), s)
  BY <1>2, <1>3, <1>4, Fields
<1>7. d.finding \in BOOLEAN
  BY RowFields
<1>8. e.finding <=> d.finding
  BY <1>1, <1>3, <1>5, <1>6, <1>7
<1> QED
  BY <1>1, <1>3, <1>5, <1>6, <1>8

\* The guards agree on rows that are sound.
LEMMA GuardsAgree ==
  ASSUME NEW d \in Rows, NEW s \in Scans, NEW w \in BOOLEAN, Sound(d, w),
         NEW e, e = ReleaseScan(d, s)
  PROVE  /\ HostProvenance(d, s, TRUE) <=> HostProvenance(e, s, FALSE)
         /\ PortIsOnlyThisScans(d, s, TRUE) <=> PortIsOnlyThisScans(e, s, TRUE)
         /\ PortIsOnlyThisScans(e, s, TRUE) <=> PortIsOnlyThisScans(e, s, FALSE)
         /\ ~w => (HostsScanBrought(d, s) <=> HostsCleanupRemoves(e, s))
<1>1. /\ d.host \in Place /\ d.port \in Place /\ d.script \in Thing /\ d.attr \in Thing
      /\ d.vuln \in Observation
  BY RowFields
<1>2. PICK struck \in BOOLEAN :
           /\ struck => OnlyThisScanSaw(MoveObservation(d.vuln, s), s) /\ ~d.finding
           /\ e.script = ReleaseThing(d.script, s) /\ e.attr = ReleaseThing(d.attr, s)
           /\ e.vuln = (IF struck THEN NoObservation ELSE MoveObservation(d.vuln, s))
           /\ e.host = Repoint(HandOver(d.host, s), s) /\ e.port = Repoint(HandOver(d.port, s), s)
           /\ e.web = d.web /\ e.note = d.note /\ (e.finding <=> d.finding)
  BY ReleasedFields
<1>3. /\ ThingOK(d.script) /\ ThingOK(d.attr) /\ VulnOK(d.vuln, w) /\ HostOK(d.host, w)
      /\ Within(d) /\ (HasWork(d) => w)
  BY DEF Sound
<1>4. /\ d.attr.seen \ {s} = {} /\ ~FirstRecordedElsewhere(d.attr, s)
           <=> ~FirstRecordedElsewhere(e.attr, s)
      /\ ~FirstRecordedElsewhere(e.attr, s) => e.attr.seen \ {s} = {}
  BY <1>1, <1>2, <1>3, AttrAgrees
<1>5. /\ d.script.seen \ {s} = {} <=> e.script.seen \ {s} = {}
      /\ d.script.seen \ {s} = {} => (d.script.on => d.script.first = s) /\ ~e.script.on
      /\ (e.script.on => e.script.first = s) => d.script.seen \ {s} = {}
  BY <1>1, <1>2, <1>3, ScriptAgrees
<1>6. /\ d.vuln.seen \ {s} = {} /\ ~SeenByAnotherScan(d.vuln, s) <=> ~SeenByAnotherScan(e.vuln, s)
      /\ ~SeenByAnotherScan(e.vuln, s) => e.vuln.seen \ {s} = {}
      /\ d.vuln.seen \ {s} = {} <=> e.vuln.seen \ {s} = {}
  BY <1>1, <1>2, <1>3, VulnAgrees
<1>7. /\ e.host.on = d.host.on /\ e.host.hist = d.host.hist
      /\ d.host.hist \ {s} = {} => /\ e.host.last \in {NoScan, s} <=> d.host.last \in {NoScan, s}
                                   /\ e.host.intro = d.host.intro
  BY <1>1, <1>2, PlaceAgrees
<1>8. /\ e.port.hist = d.port.hist
      /\ d.port.hist \ {s} = {} => (e.port.last \in {NoScan, s} <=> d.port.last \in {NoScan, s})
  BY <1>1, <1>2, PlaceAgrees
<1>9. d.port.hist \ {s} = {} => d.script.seen \ {s} = {}
  BY <1>3 DEF Within
<1>10. HostProvenance(d, s, TRUE) <=> HostProvenance(e, s, FALSE)
  <2>1. HostProvenance(d, s, TRUE) <=>
          /\ d.host.hist \ {s} = {} /\ d.host.last \in {NoScan, s}
          /\ d.port.hist \ {s} = {} /\ d.port.last \in {NoScan, s}
          /\ d.vuln.seen \ {s} = {} /\ ~SeenByAnotherScan(d.vuln, s)
          /\ d.attr.seen \ {s} = {} /\ ~FirstRecordedElsewhere(d.attr, s)
          /\ d.script.seen \ {s} = {} /\ d.web \ {s} = {}
    BY DEF HostProvenance
  <2>2. HostProvenance(e, s, FALSE) <=>
          /\ e.host.hist \ {s} = {} /\ e.host.last \in {NoScan, s}
          /\ e.port.hist \ {s} = {} /\ e.port.last \in {NoScan, s}
          /\ ~SeenByAnotherScan(e.vuln, s) /\ ~FirstRecordedElsewhere(e.attr, s)
          /\ e.web \ {s} = {}
    BY DEF HostProvenance
  <2> QED
    BY <1>2, <1>4, <1>6, <1>7, <1>8, <1>9, <2>1, <2>2
<1>11. /\ PortIsOnlyThisScans(d, s, TRUE) <=> PortIsOnlyThisScans(e, s, TRUE)
       /\ PortIsOnlyThisScans(e, s, TRUE) <=> PortIsOnlyThisScans(e, s, FALSE)
  <2>1. PortIsOnlyThisScans(d, s, TRUE) <=>
          /\ d.vuln.seen \ {s} = {} /\ d.script.seen \ {s} = {}
          /\ d.port.hist \ {s} = {} /\ d.port.last \in {NoScan, s} /\ ~d.finding
          /\ ~SeenByAnotherScan(d.vuln, s) /\ (d.script.on => d.script.first = s)
    BY DEF PortIsOnlyThisScans
  <2>2. PortIsOnlyThisScans(e, s, TRUE) <=>
          /\ e.vuln.seen \ {s} = {} /\ e.script.seen \ {s} = {}
          /\ PortIsOnlyThisScans(e, s, FALSE)
    BY DEF PortIsOnlyThisScans
  <2>3. PortIsOnlyThisScans(e, s, FALSE) <=>
          /\ e.port.hist \ {s} = {} /\ e.port.last \in {NoScan, s} /\ ~e.finding
          /\ ~SeenByAnotherScan(e.vuln, s) /\ (e.script.on => e.script.first = s)
    BY DEF PortIsOnlyThisScans
  <2> QED
    BY <1>2, <1>5, <1>6, <1>8, <2>1, <2>2, <2>3
<1>12. ASSUME ~w
       PROVE  HostsScanBrought(d, s) <=> HostsCleanupRemoves(e, s)
  <2>1. ~HasWork(e)
    BY <1>2, <1>3, <1>12 DEF HasWork
  <2>2. d.host.on => d.host.intro # {} /\ d.host.intro \subseteq d.host.hist
    BY <1>3, <1>12 DEF HostOK
  <2>3. HostProvenance(d, s, TRUE) => d.host.hist \ {s} = {}
    BY DEF HostProvenance
  <2>4. d.host.on /\ d.host.hist \ {s} = {} => (s \in d.host.hist <=> s \in e.host.intro)
    BY <1>7, <2>2
  <2> QED
    BY <1>7, <1>10, <2>1, <2>3, <2>4 DEF HostsScanBrought, HostsCleanupRemoves
<1> QED
  BY <1>10, <1>11, <1>12

---------------------------------------------------------------------------
(* A first-recorder pointer names a scan that has a sighting of the row:   *)
(* what release_scan moves it to, whatever was deleted before, unless work *)
(* kept an observation nobody else saw.                                    *)
THEOREM FirstRecorders == Spec => []FirstRecorderReal
<1>1. IInv /\ SInv => FirstRecorderReal
  BY DEF SInv, Sound, ThingOK, VulnOK, FirstRecorderReal
<1> QED
  BY <1>1, Invariant, SettledInvariant, PTL

(* Nothing outlives the scans that brought it unless somebody worked on    *)
(* it: every host and observation still has a scan that reported it, and   *)
(* every host one that is said to have brought it.                         *)
THEOREM NothingLeft == Spec => []NothingLeftBehind
<1>1. IInv /\ SInv => NothingLeftBehind
  BY DEF SInv, Sound, HostOK, VulnOK, NothingLeftBehind
<1> QED
  BY <1>1, Invariant, SettledInvariant, PTL

(* The two deletes agree: asked before release_scan or after it, the       *)
(* guards of the host and of the port have the same answer, so a failed    *)
(* import's cleanup and an administrator remove the same rows.             *)
THEOREM DeletesAgree == Spec => []PathsAgree
<1>1. IInv /\ SInv => PathsAgree
  <2> SUFFICES ASSUME IInv, SInv, doing = Idle, NEW s \in Scans
               PROVE  LET after == ReleaseScan(db, s) IN
                      /\ HostProvenance(db, s, TRUE) <=> HostProvenance(after, s, FALSE)
                      /\ db.port.on => /\ PortIsOnlyThisScans(db, s, TRUE) <=> PortIsOnlyThisScans(after, s, TRUE)
                                       /\ PortIsOnlyThisScans(after, s, TRUE) <=> PortIsOnlyThisScans(after, s, FALSE)
                      /\ ~worked => (HostsScanBrought(db, s) <=> HostsCleanupRemoves(after, s))
    BY DEF PathsAgree
  <2>1. db \in Rows /\ worked \in BOOLEAN /\ Sound(db, worked)
    BY DEF IInv, TypeOK, SInv
  <2> DEFINE after == ReleaseScan(db, s)
  <2>2. after = ReleaseScan(db, s)
    OBVIOUS
  <2> QED
    BY <2>1, <2>2, GuardsAgree
<1> QED
  BY <1>1, Invariant, SettledInvariant, PTL

(* A delete by hand that was not confirmed never removes a host with work: *)
(* whatever is put on it after the hosts were chosen is found by the check *)
(* that follows the lock, and nothing is put on it after that.             *)
THEOREM WorkSpared == Spec => UnconfirmedSparesWork
<1>1. IInv /\ SInv /\ [Next]_vars =>
        [doing.kind = "hand" /\ ~doing.confirmed /\ HasWork(db) => db'.host.on = db.host.on]_vars
  <2> SUFFICES ASSUME IInv, SInv, Next, doing.kind = "hand", ~doing.confirmed, HasWork(db)
               PROVE  db'.host.on = db.host.on
    OBVIOUS
  <2>1. db \in Rows /\ doing # Idle /\ doing.host \in BOOLEAN
    BY IdleIsNot DEF IInv, TypeOK
  <2>2. ASSUME NEW s \in Scans, HandDelete(s)
        PROVE  db'.host = db.host
    <3>1. ~doing.host
      BY <2>2 DEF HandDelete, SInv, HostRowLocked
    <3>2. db' = ReleasePointers(db, s)
      BY <2>2, <3>1 DEF HandDelete
    <3> QED
      BY <2>1, <3>2, Fields
  <2>3. ASSUME NEW s \in Scans, HandFinish(s)
        PROVE  db'.host.on = db.host.on
    <3> DEFINE c == ReleaseRest(db, s, doing.vuln)
               e == DeletePortsScanCreated(c, s, TRUE)
    <3>1. /\ Hangs(db) /\ doing.vuln \in BOOLEAN /\ (doing.vuln => db.vuln.seen \subseteq {s})
          /\ db' = DeleteScanRow(e, s)
      BY <2>3 DEF HandFinish, IInv, TypeOK, DoingOK
    <3>2. c \in Rows /\ Hangs(c)
      BY <2>1, <3>1, RestReleased
    <3>3. c.host.on = db.host.on
      <4>1. c.host = Repoint(HandOver(db.host, s), s)
        BY <2>1, <3>1, Fields
      <4> QED
        BY <2>1, <4>1, PlaceAgrees, RowFields
    <3> HIDE DEF c
    <3>4. e \in Rows /\ e.host = c.host
      <4>1. e \in Rows
        BY <3>2, PortsDeleted
      <4>2. DeletePort(c).host = c.host
        BY <3>2, Fields
      <4> QED
        BY <4>1, <4>2 DEF DeletePortsScanCreated
    <3> HIDE DEF e
    <3>5. db'.host = ClearPlace(e.host, s)
      BY <3>1, <3>4, Fields
    <3> QED
      BY <3>3, <3>4, <3>5, Cleared, RowFields
  <2>4. CASE AddNote \/ Promote \/ DropFinding
    BY <2>1, <2>4 DEF AddNote, Promote, DropFinding, Rows
  <2>5. ASSUME NEW s \in Scans,
               \/ Start(s)
               \/ \E what \in Reports : Report(s, what)
               \/ \E as \in {"done", "failed"} : End(s, as)
               \/ CleanupRelease(s) \/ CleanupChoose(s) \/ CleanupDelete(s)
               \/ \E yes \in BOOLEAN : HandChoose(s, yes)
               \/ HandCheck(s)
        PROVE  db'.host = db.host
    BY <2>1, <2>5 DEF Start, Report, End, CleanupRelease, CleanupChoose, CleanupDelete, HandChoose, HandCheck
  <2> QED
    BY <2>2, <2>3, <2>4, <2>5 DEF Next
<1> QED
  BY <1>1, Invariant, SettledInvariant, PTL DEF Spec, UnconfirmedSparesWork
=============================================================================
