------------------------- MODULE PresentationProofs -------------------------
(***************************************************************************)
(* Proofs about Presentation, for any tabs, requests in flight and bounds: *)
(* its variables keep their types, whoever follows the agenda looks at its *)
(* item (AgendaShows), and a move lands only on the screen it was checked  *)
(* against (MovesFit).                                                     *)
(*                                                                         *)
(* None of it is inductive alone: what a request was checked against is    *)
(* not what is there when its UPDATE runs.  What holds in between is that  *)
(* a revision only grows (Reads), that a position changes only with it     *)
(* (StillFits), and that an agenda a request pins stays while the request  *)
(* has it FOR SHARE (PinsStay, DeleteAlone).                               *)
(***************************************************************************)
EXTENDS Presentation, TLAPS

\* A request has its tab, and its presentation has been started.
Reads ==
  \A r \in Requests :
    /\ req[r].do \in {"start", "move", "take", "end"} => req[r].tab \in Tabs
    /\ req[r].do = "heartbeat" => req[r].tab \in Displays
    /\ req[r].do \in {"move", "take", "end", "heartbeat"} =>
         /\ req[r].p \in Rows /\ row[req[r].p].phase # "unused"
         /\ req[r].seen <= row[req[r].p].revision

\* The bound on revisions leaves room to end a live presentation.
RoomToEnd == \A p \in Rows : Live(p) => row[p].revision < MaxRevision

\* A delete of the agenda holds its row alone.
DeleteAlone == deleting => Share = {}

\* The version and the item a position pins are there.
PinThere(pin) == pin # NoPin => /\ pin.version \in DOMAIN versions
                                /\ pin.item \in DOMAIN versions[pin.version]

\* What a move asks for is in the filter and the agenda it names.
PinsStay ==
  \A r \in Requests : req[r].do = "move" =>
    /\ req[r].to.slide \in Listed(req[r].to.filter)
    /\ req[r].to.pin # NoPin => PinThere(req[r].to.pin) /\ ItemFits(req[r].to)

\* The relation of MovesFit between two positions.
Follows(now, to) ==
  /\ to.filter # now.filter => to.slide = FirstSlide(now.slide)
  /\ now.pin.mode = "explore" /\ to.pin.mode = "explore" /\ now.pin.version = to.pin.version
       => to.pin.item = now.pin.item

\* A move at the revision it saw still fits what is on the screen.
StillFits ==
  \A r \in Requests : req[r].do = "move" /\ row[req[r].p].revision = req[r].seen =>
    Follows(row[req[r].p].at, req[r].to)

\* What a screen shows is in its filter, its agenda and its item.
Shown(at) ==
  /\ at.slide \in Listed(at.filter)
  /\ PinThere(at.pin)
  /\ at.pin.mode = "agenda" =>
       /\ at.pin.version \in DOMAIN versions /\ at.pin.item \in DOMAIN versions[at.pin.version]
       /\ at.slide \in PagesAt(versions[at.pin.version][at.pin.item], at.filter)

IInv == TypeOK /\ Reads /\ RoomToEnd /\ DeleteAlone /\ PinsStay /\ StillFits /\ AgendaShows

---------------------------------------------------------------------------
(* The data of the model.                                                  *)

\* The first position, and one that loses its pin, are positions.
LEMMA PositionsClosed ==
  /\ Start \in Positions
  /\ \A at \in Positions : [at EXCEPT !.pin = NoPin] \in Positions
  BY DEF Start, Positions, Slides, Filters, Pins

\* A request that is idle, and a row not used, are well typed.
LEMMA FirstValues == Idle \in RequestType /\ Unused \in RowType
  BY BoundAssumption, PositionsClosed DEF Idle, Unused, RequestType, RowType

\* The fields the proofs reason about.
LEMMA Fields ==
  ASSUME TypeOK
  PROVE  /\ row \in [Rows -> RowType] /\ req \in [Requests -> RequestType]
         /\ \A p \in Rows : row[p].revision \in Nat /\ row[p].at \in Positions
         /\ \A r \in Requests : req[r].seen \in Nat /\ req[r].to \in Positions
  BY BoundAssumption DEF TypeOK, RowType, RequestType

\* Every screen is shown what the invariant says.
LEMMA ScreensShown ==
  ASSUME TypeOK, AgendaShows
  PROVE  \A p \in Rows : Shown(row[p].at)
  BY DEF TypeOK, AgendaShows, Shown, PinThere, Pinning

\* The initial state satisfies the invariant.
LEMMA InitInv == Init => IInv
<1> SUFFICES ASSUME Init PROVE IInv
  OBVIOUS
<1>1. TypeOK
  <2>1. row \in [Rows -> RowType] /\ req \in [Requests -> RequestType]
    BY FirstValues DEF Init
  <2>2. \A p \in Rows : ~Live(p) /\ ~Pinning(p) /\ row[p].phase # "ended"
    BY DEF Init, Live, Pinning, Unused, Start
  <2>3. versions \in Seq(Itineraries) /\ Len(versions) <= MaxVersions
    BY BoundAssumption DEF Init
  <2> QED
    BY <2>1, <2>2, <2>3 DEF Init, TypeOK
<1>2. Reads /\ PinsStay /\ StillFits
  BY DEF Init, Reads, PinsStay, StillFits, Idle
<1>3. RoomToEnd /\ DeleteAlone
  BY DEF Init, RoomToEnd, DeleteAlone, Live, Unused
<1>4. AgendaShows
  BY DEF Init, AgendaShows, Unused, Start, NoPin, None, Listed, Slides
<1> QED
  BY <1>1, <1>2, <1>3, <1>4 DEF IInv

---------------------------------------------------------------------------
(* What a change of one row, and of one request, keeps.                    *)

\* One row is written: well typed and shown, at a higher revision or for the
\* first time, and live only where no other is.
Written(e) ==
  /\ row' \in [Rows -> RowType] /\ \A p \in Rows \ {e} : row'[p] = row[p]
  /\ Shown(row'[e].at) /\ row'[e].phase # "unused"
  /\ row'[e].phase = "ended" => row'[e].driver = None
  /\ row'[e].phase = "live" => (Live(e) \/ ~SomeLive) /\ row'[e].revision < MaxRevision
  /\ row[e].phase = "unused" \/ row'[e].revision > row[e].revision

\* A row that is written keeps what is said of the rows.
LEMMA RowWritten ==
  ASSUME IInv, NEW e \in Rows, Written(e), versions' = versions
  PROVE  /\ (\A p, q \in Rows : Live(p) /\ Live(q) => p = q)'
         /\ \A p \in Rows : /\ row'[p].phase = "ended" => row'[p].driver = None
                            /\ Pinning(p)' => /\ row'[p].at.pin.version \in DOMAIN versions'
                                              /\ row'[p].at.pin.item \in DOMAIN versions'[row'[p].at.pin.version]
         /\ RoomToEnd' /\ AgendaShows'
<1>3. (\A p, q \in Rows : Live(p) /\ Live(q) => p = q)'
  BY DEF IInv, TypeOK, Live, SomeLive, Written
<1>4. \A p \in Rows : row'[p].phase = "ended" => row'[p].driver = None
  BY DEF IInv, TypeOK, Written
<1>5. \A p \in Rows : Shown(row'[p].at)
  BY ScreensShown DEF IInv, Written
<1>6. \A p \in Rows : Pinning(p)' => /\ row'[p].at.pin.version \in DOMAIN versions'
                                    /\ row'[p].at.pin.item \in DOMAIN versions'[row'[p].at.pin.version]
  BY <1>5 DEF Shown, Pinning, PinThere
<1>7. RoomToEnd'
  BY DEF IInv, RoomToEnd, Live, Written
<1>8. AgendaShows'
  BY <1>5 DEF AgendaShows, Shown
<1> QED
  BY <1>3, <1>4, <1>6, <1>7, <1>8

\* What is in flight keeps its facts when requests only go, and rows only
\* start or get a higher revision.
LEMMA RequestsOutlive ==
  ASSUME IInv, versions' = versions, deleting' = deleting,
         \A q \in Requests : req'[q] = req[q] \/ req'[q] = Idle,
         \A p \in Rows : \/ row'[p] = row[p]
                         \/ /\ row'[p].phase # "unused"
                            /\ \/ row[p].phase = "unused"
                               \/ row'[p].revision > row[p].revision /\ row'[p].revision \in Nat
  PROVE  Reads' /\ DeleteAlone' /\ PinsStay' /\ StillFits'
<1>1. /\ \A p \in Rows : row[p].revision \in Nat
      /\ \A q \in Requests : req[q].seen \in Nat
  BY Fields DEF IInv
<1>2. \A q \in Requests : req'[q].do # "idle" => req'[q] = req[q]
  BY DEF Idle
<1>3. Reads'
  BY <1>1, <1>2 DEF IInv, Reads
<1>4. DeleteAlone'
  BY <1>2 DEF IInv, DeleteAlone, Share
<1>5. PinsStay'
  BY <1>2 DEF IInv, PinsStay, PinThere, ItemFits
<1>6. StillFits'
  BY <1>1, <1>2 DEF IInv, StillFits, Reads
<1> QED
  BY <1>3, <1>4, <1>5, <1>6

\* A request that is answered is idle, and the others are what they were.
LEMMA Answered ==
  ASSUME IInv, NEW r \in Requests, Done(r)
  PROVE  /\ req' \in [Requests -> RequestType]
         /\ \A q \in Requests : req'[q] = req[q] \/ req'[q] = Idle
  BY Fields, FirstValues DEF IInv, Done

\* Nothing but requests, and what a row has of presence, changes.
LEMMA PresenceKeeps ==
  ASSUME IInv, UNCHANGED <<row, versions, deleting>>,
         req' \in [Requests -> RequestType],
         \A q \in Requests : req'[q] = req[q] \/ req'[q] = Idle,
         recent' \in [Rows -> BOOLEAN],
         viewers' \in [Rows -> SUBSET Displays]
  PROVE  IInv'
<1>1. TypeOK'
  BY DEF IInv, TypeOK, Live, Pinning
<1>2. RoomToEnd' /\ AgendaShows'
  BY DEF IInv, RoomToEnd, AgendaShows, Live
<1> QED
  BY <1>1, <1>2, RequestsOutlive DEF IInv

\* One row is written, and at most a request is answered.
LEMMA RowStepKeeps ==
  ASSUME IInv, NEW e \in Rows, Written(e), UNCHANGED <<versions, deleting>>,
         req' = req \/ \E r \in Requests : Done(r),
         recent' \in [Rows -> BOOLEAN],
         viewers' \in [Rows -> SUBSET Displays]
  PROVE  IInv'
<1>1. /\ req' \in [Requests -> RequestType]
      /\ \A q \in Requests : req'[q] = req[q] \/ req'[q] = Idle
  BY Answered, Fields DEF IInv
<1>2. row'[e].revision \in Nat
  BY BoundAssumption DEF RowType, Written
<1>3. Reads' /\ DeleteAlone' /\ PinsStay' /\ StillFits'
  BY <1>1, <1>2, RequestsOutlive DEF Written
<1>4. TypeOK'
  BY <1>1, RowWritten DEF TypeOK, IInv, Written
<1>5. RoomToEnd' /\ AgendaShows'
  BY RowWritten
<1> QED
  BY <1>3, <1>4, <1>5 DEF IInv

---------------------------------------------------------------------------
(* The actions.                                                            *)

\* The live presentation is one of the rows.
LEMMA OneLiveIsLive == SomeLive => OneLive \in Rows /\ Live(OneLive)
  BY DEF SomeLive, OneLive

\* A request that begins knows a live row and its revision; a move fits them.
LEMMA BeginKeeps ==
  ASSUME IInv, NEW r \in Requests, NEW t \in Tabs \cup Displays, NEW to \in Positions,
         NEW do \in {"move", "take", "end", "heartbeat"}, Begin(r, t, do, to),
         do = "heartbeat" => t \in Displays, do # "heartbeat" => t \in Tabs,
         do = "move" => /\ PositionFits(row[OneLive].at, to) /\ AgendaFits(row[OneLive].at, to)
                        /\ to.pin # NoPin => ~deleting
  PROVE  IInv'
<1> DEFINE q == [do |-> do, tab |-> t, p |-> OneLive, seen |-> row[OneLive].revision, to |-> to]
<1>1. /\ OneLive \in Rows /\ Live(OneLive)
      /\ row[OneLive].revision \in 0..MaxRevision /\ OneLive \in 0..MaxRows
  BY OneLiveIsLive, BoundAssumption DEF Begin, IInv, TypeOK, RowType, Rows
<1>2. q \in RequestType
  BY <1>1 DEF RequestType
<1>3. /\ req' = [req EXCEPT ![r] = q]
      /\ UNCHANGED <<row, viewers, recent, versions, deleting>>
  BY DEF Begin
<1>4. req' \in [Requests -> RequestType]
  BY <1>2, <1>3, Fields DEF IInv
<1>5. req'[r] = q /\ \A s \in Requests : s # r => req'[s] = req[s]
  BY <1>3, Fields DEF IInv
<1>6. TypeOK'
  BY <1>3, <1>4 DEF IInv, TypeOK, Live, Pinning
<1>7. Reads'
  BY <1>1, <1>3, <1>5 DEF IInv, Reads, Live
<1>8. RoomToEnd' /\ AgendaShows'
  BY <1>3 DEF IInv, RoomToEnd, AgendaShows, Live
<1>9. DeleteAlone'
  BY <1>3, <1>5 DEF IInv, DeleteAlone, Share
<1>10. PinsStay'
  <2>1. do = "move" => /\ to.slide \in Listed(to.filter)
                       /\ to.pin # NoPin => PinThere(to.pin) /\ ItemFits(to)
    BY DEF PositionFits, AgendaFits, PinThere
  <2>2. UNCHANGED versions
    BY <1>3
  <2> QED
    BY <1>5, <2>1, <2>2 DEF IInv, PinsStay, PinThere, ItemFits
<1>11. StillFits'
  <2>1. do = "move" => Follows(row[OneLive].at, to)
    BY DEF Follows, PositionFits, AgendaFits, NoPin, None
  <2> QED
    BY <1>3, <1>5, <2>1 DEF IInv, StillFits
<1> QED
  BY <1>6, <1>7, <1>8, <1>9, <1>10, <1>11 DEF IInv

\* A start that begins has only its tab.
LEMMA BeginStartKeeps ==
  ASSUME IInv, NEW r \in Requests, NEW t \in Tabs, BeginStart(r, t)
  PROVE  IInv'
<1>1. UNCHANGED <<row, viewers, recent, versions, deleting>>
  BY DEF BeginStart
<1>2. req' \in [Requests -> RequestType]
  <2>1. req \in [Requests -> RequestType] /\ req' = [req EXCEPT ![r] = [req[r] EXCEPT !.do = "start", !.tab = t]]
    BY Fields DEF IInv, BeginStart
  <2>2. [req[r] EXCEPT !.do = "start", !.tab = t] \in RequestType
    BY <2>1 DEF RequestType
  <2> QED
    BY <2>1, <2>2
<1>3. /\ req'[r].do = "start" /\ req'[r].tab = t
      /\ \A s \in Requests : s # r => req'[s] = req[s]
  BY Fields DEF IInv, BeginStart, RequestType
<1>4. TypeOK'
  BY <1>1, <1>2 DEF IInv, TypeOK, Live, Pinning
<1>5. Reads'
  BY <1>1, <1>3 DEF IInv, Reads
<1>6. RoomToEnd' /\ AgendaShows'
  BY <1>1 DEF IInv, RoomToEnd, AgendaShows, Live
<1>7. DeleteAlone'
  BY <1>1, <1>3 DEF IInv, DeleteAlone, Share
<1>8. PinsStay'
  BY <1>1, <1>3 DEF IInv, PinsStay, PinThere, ItemFits
<1>9. StillFits'
  BY <1>1, <1>3 DEF IInv, StillFits
<1> QED
  BY <1>4, <1>5, <1>6, <1>7, <1>8, <1>9 DEF IInv

\* A move writes the position it was checked against, at a new revision.
LEMMA MoveKeeps ==
  ASSUME IInv, NEW r \in Requests, Move(r)
  PROVE  IInv' /\ req[r].p \in Rows /\ row' = [row EXCEPT ![req[r].p] =
                         [row[req[r].p] EXCEPT !.at = req[r].to, !.revision = row[req[r].p].revision + 1]]
<1> DEFINE p == req[r].p
<1>1. p \in Rows /\ Live(p) /\ row[p] \in RowType /\ req[r].to \in Positions
  BY Fields DEF IInv, Reads, Move, Drives
<1>2. row[p].revision \in Nat /\ row[p].revision + 1 < MaxRevision
  BY <1>1, Fields, BoundAssumption DEF Move, IInv
<1>3. row' = [row EXCEPT ![p] = [row[p] EXCEPT !.at = req[r].to, !.revision = row[p].revision + 1]]
  BY <1>1, Fields DEF Move, IInv
<1>4. /\ row'[p] = [row[p] EXCEPT !.at = req[r].to, !.revision = row[p].revision + 1]
      /\ \A q \in Rows \ {p} : row'[q] = row[q]
  BY <1>1, <1>3, Fields DEF IInv
<1>5. /\ row'[p] \in RowType
      /\ row'[p].at = req[r].to /\ row'[p].phase = "live" /\ row'[p].revision = row[p].revision + 1
  <2>1. row'[p] = [phase |-> "live", revision |-> row[p].revision + 1,
                   at |-> req[r].to, driver |-> row[p].driver]
    BY <1>1, <1>4 DEF RowType, Live
  <2>2. row[p].revision + 1 \in 0..MaxRevision /\ row[p].at \in Positions /\ row[p].driver \in Tabs \cup {None}
    BY <1>1, <1>2, BoundAssumption DEF RowType
  <2> QED
    BY <1>1, <2>1, <2>2 DEF RowType
<1>6. row' \in [Rows -> RowType]
  BY <1>1, <1>3, <1>4, <1>5, Fields DEF IInv
<1>7. Shown(req[r].to)
  <2>1. req[r].to.pin.mode = "agenda" => req[r].to.pin # NoPin
    BY DEF NoPin, None
  <2> QED
    BY <2>1 DEF IInv, PinsStay, Move, Shown, PinThere, ItemFits
<1>8. Written(p)
  BY <1>1, <1>2, <1>4, <1>5, <1>6, <1>7 DEF Written
<1>9. recent' \in [Rows -> BOOLEAN] /\ viewers' \in [Rows -> SUBSET Displays]
  BY DEF Move, IInv, TypeOK
<1>10. UNCHANGED <<versions, deleting>> /\ Done(r)
  BY DEF Move
<1> QED
  BY <1>1, <1>3, <1>8, <1>9, <1>10, RowStepKeeps

\* Taking control changes the driver, at a new revision.
LEMMA TakeControlKeeps ==
  ASSUME IInv, NEW r \in Requests, TakeControl(r)
  PROVE  IInv' /\ \A q \in Rows : row'[q].at = row[q].at
<1> DEFINE p == req[r].p
<1>1. p \in Rows /\ Live(p) /\ row[p] \in RowType /\ req[r].tab \in Tabs
  BY Fields DEF IInv, Reads, TakeControl
<1>2. row[p].revision \in Nat /\ row[p].revision + 1 < MaxRevision
  BY <1>1, Fields, BoundAssumption DEF TakeControl, IInv
<1>3. row' = [row EXCEPT ![p] = [row[p] EXCEPT !.driver = req[r].tab, !.revision = row[p].revision + 1]]
  BY <1>1, Fields DEF TakeControl, IInv
<1>4. /\ row'[p] = [row[p] EXCEPT !.driver = req[r].tab, !.revision = row[p].revision + 1]
      /\ \A q \in Rows \ {p} : row'[q] = row[q]
  BY <1>1, <1>3, Fields DEF IInv
<1>5. /\ row'[p] \in RowType
      /\ row'[p].at = row[p].at /\ row'[p].phase = "live" /\ row'[p].revision = row[p].revision + 1
  <2>1. row'[p] = [phase |-> "live", revision |-> row[p].revision + 1,
                   at |-> row[p].at, driver |-> req[r].tab]
    BY <1>1, <1>4 DEF RowType, Live
  <2>2. row[p].revision + 1 \in 0..MaxRevision /\ row[p].at \in Positions /\ row[p].driver \in Tabs \cup {None}
    BY <1>1, <1>2, BoundAssumption DEF RowType
  <2> QED
    BY <1>1, <2>1, <2>2 DEF RowType
<1>6. row' \in [Rows -> RowType]
  BY <1>1, <1>3, <1>4, <1>5, Fields DEF IInv
<1>7. Shown(row[p].at)
  BY <1>1, ScreensShown DEF IInv
<1>8. Written(p)
  BY <1>1, <1>2, <1>4, <1>5, <1>6, <1>7 DEF Written
<1>9. recent' \in [Rows -> BOOLEAN] /\ viewers' \in [Rows -> SUBSET Displays]
  BY DEF TakeControl, IInv, TypeOK
<1>10. UNCHANGED <<versions, deleting>> /\ Done(r)
  BY DEF TakeControl
<1> QED
  BY <1>1, <1>4, <1>5, <1>8, <1>9, <1>10, RowStepKeeps

\* Ending a presentation frees its driver and leaves its position.
LEMMA EndRowKeeps ==
  ASSUME IInv, NEW p \in Rows, Live(p), EndRow(p), UNCHANGED <<versions, deleting>>,
         req' = req \/ \E r \in Requests : Done(r)
  PROVE  IInv' /\ \A q \in Rows : row'[q].at = row[q].at
<1>1. row[p] \in RowType /\ row[p].revision < MaxRevision /\ row[p].revision \in Nat
  BY Fields DEF IInv, RoomToEnd
<1>3. row' = [row EXCEPT ![p] = [row[p] EXCEPT !.phase = "ended", !.revision = row[p].revision + 1, !.driver = None]]
  BY Fields DEF EndRow, IInv
<1>4. /\ row'[p] = [row[p] EXCEPT !.phase = "ended", !.revision = row[p].revision + 1, !.driver = None]
      /\ \A q \in Rows \ {p} : row'[q] = row[q]
  BY <1>3, Fields DEF IInv
<1>5. /\ row'[p] \in RowType
      /\ row'[p].at = row[p].at /\ row'[p].phase = "ended" /\ row'[p].driver = None
      /\ row'[p].revision = row[p].revision + 1
  <2>1. row'[p] = [phase |-> "ended", revision |-> row[p].revision + 1,
                   at |-> row[p].at, driver |-> None]
    BY <1>1, <1>4 DEF RowType
  <2>2. row[p].revision + 1 \in 0..MaxRevision /\ row[p].at \in Positions
    BY <1>1, BoundAssumption DEF RowType
  <2> QED
    BY <2>1, <2>2 DEF RowType
<1>6. row' \in [Rows -> RowType]
  BY <1>3, <1>4, <1>5, Fields DEF IInv
<1>7. Shown(row[p].at)
  BY ScreensShown DEF IInv
<1>8. Written(p)
  BY <1>1, <1>4, <1>5, <1>6, <1>7 DEF Written
<1>9. recent' \in [Rows -> BOOLEAN] /\ viewers' \in [Rows -> SUBSET Displays]
  BY DEF EndRow, IInv, TypeOK
<1> QED
  BY <1>4, <1>5, <1>8, <1>9, RowStepKeeps

\* The start the unique index lets in makes an unused row live; another joins.
LEMMA InsertKeeps ==
  ASSUME IInv, NEW r \in Requests, Insert(r)
  PROVE  IInv' /\ \A q \in Rows : row'[q].at = row[q].at
<1>1. CASE UNCHANGED <<row, recent>>
  BY <1>1, Answered, PresenceKeeps DEF Insert, IInv, TypeOK
<1>2. ASSUME NEW p \in Rows, MayInsert(p), recent' = [recent EXCEPT ![p] = TRUE],
             row' = [row EXCEPT ![p] = [Unused EXCEPT !.phase = "live", !.revision = 1, !.driver = req[r].tab]]
      PROVE  IInv' /\ \A q \in Rows : row'[q].at = row[q].at
  <2>1. req[r].tab \in Tabs
    BY DEF IInv, Reads, Insert
  <2>2. row[p].at = Start /\ row[p].phase = "unused" /\ ~SomeLive
    BY <1>2 DEF MayInsert, Unused
  <2>3. Start \in Positions
    BY PositionsClosed
  <2>4. /\ row'[p] = [phase |-> "live", revision |-> 1, at |-> Start, driver |-> req[r].tab]
        /\ \A q \in Rows \ {p} : row'[q] = row[q]
    BY <1>2, Fields DEF IInv, Unused
  <2>5. row'[p] \in RowType
    BY <2>1, <2>3, <2>4, BoundAssumption DEF RowType
  <2>6. row' \in [Rows -> RowType]
    BY <1>2, <2>4, <2>5, Fields DEF IInv
  <2>7. Shown(Start)
    BY DEF Start, Shown, PinThere, NoPin, None, Listed, Slides
  <2>8. Written(p)
    BY <2>2, <2>4, <2>6, <2>7, BoundAssumption DEF Written
  <2>9. recent' \in [Rows -> BOOLEAN] /\ viewers' \in [Rows -> SUBSET Displays]
    BY <1>2 DEF Insert, IInv, TypeOK
  <2>10. UNCHANGED <<versions, deleting>> /\ Done(r)
    BY DEF Insert
  <2> QED
    BY <2>2, <2>4, <2>8, <2>9, <2>10, RowStepKeeps
<1> QED
  BY <1>1, <1>2 DEF Insert

\* A save adds a version, and no move that pins one is in flight.
LEMMA SaveAgendaKeeps ==
  ASSUME IInv, NEW items \in Itineraries, SaveAgenda(items)
  PROVE  IInv'
<1>1. /\ versions' \in Seq(Itineraries) /\ Len(versions') <= MaxVersions
      /\ DOMAIN versions \subseteq DOMAIN versions'
      /\ \A v \in DOMAIN versions : versions'[v] = versions[v]
  BY BoundAssumption DEF IInv, TypeOK, SaveAgenda
<1>2. UNCHANGED <<row, viewers, recent, deleting, req>>
  BY DEF SaveAgenda
<1>3. TypeOK'
  BY <1>1, <1>2 DEF IInv, TypeOK, Live, Pinning
<1>4. Reads' /\ RoomToEnd' /\ DeleteAlone' /\ StillFits'
  BY <1>2 DEF IInv, Reads, RoomToEnd, DeleteAlone, StillFits, Share, Live
<1>5. PinsStay'
  BY <1>1, <1>2 DEF IInv, PinsStay, PinThere, ItemFits
<1>6. AgendaShows'
  BY <1>1, <1>2 DEF IInv, AgendaShows
<1> QED
  BY <1>3, <1>4, <1>5, <1>6 DEF IInv

\* A delete takes the agenda's row when no move has it.
LEMMA BeginDeleteKeeps ==
  ASSUME IInv, BeginDelete
  PROVE  IInv'
<1>1. TypeOK' /\ Reads' /\ RoomToEnd' /\ StillFits' /\ AgendaShows'
  BY DEF BeginDelete, IInv, TypeOK, Reads, RoomToEnd, StillFits, AgendaShows, Live, Pinning
<1>2. DeleteAlone' /\ PinsStay'
  BY DEF BeginDelete, IInv, DeleteAlone, PinsStay, PinThere, ItemFits, Share
<1> QED
  BY <1>1, <1>2 DEF IInv

\* The delete clears every pin before the versions go.
LEMMA DeleteAgendaKeeps ==
  ASSUME IInv, DeleteAgenda
  PROVE  IInv'
<1>1. /\ row' = [p \in Rows |-> [row[p] EXCEPT !.at.pin = NoPin]]
      /\ UNCHANGED <<viewers, recent, req>> /\ versions' = <<>> /\ deleting' = FALSE /\ Share = {}
  BY DEF DeleteAgenda, Clears, IInv, DeleteAlone
<1>2. \A p \in Rows : /\ row'[p].phase = row[p].phase /\ row'[p].revision = row[p].revision
                      /\ row'[p].driver = row[p].driver
                      /\ row'[p].at = [row[p].at EXCEPT !.pin = NoPin]
                      /\ row'[p] \in RowType
  BY <1>1, Fields, PositionsClosed DEF IInv, RowType
<1>3. \A p \in Rows : /\ row'[p].at.pin = NoPin /\ row'[p].at.slide = row[p].at.slide
                      /\ row'[p].at.filter = row[p].at.filter
  BY <1>2, Fields DEF IInv, Positions
<1>4. NoPin.mode = "none"
  BY DEF NoPin, None
<1>5. TypeOK'
  <2>1. row' \in [Rows -> RowType]
    BY <1>1, <1>2
  <2>2. (\A p, q \in Rows : Live(p) /\ Live(q) => p = q)'
    <3>1. \A p \in Rows : Live(p)' => Live(p)
      BY <1>2 DEF Live
    <3> QED
      BY <3>1 DEF IInv, TypeOK
  <2>3. \A p \in Rows : ~Pinning(p)' /\ (row'[p].phase = "ended" => row'[p].driver = None)
    BY <1>2, <1>3 DEF IInv, TypeOK, Pinning
  <2>4. versions' \in Seq(Itineraries) /\ Len(versions') <= MaxVersions
    BY <1>1, BoundAssumption
  <2> QED
    BY <1>1, <2>1, <2>2, <2>3, <2>4 DEF IInv, TypeOK
<1>6. Reads' /\ RoomToEnd' /\ DeleteAlone'
  <2>1. Reads'
    BY <1>1, <1>2 DEF IInv, Reads
  <2>2. RoomToEnd'
    BY <1>2 DEF IInv, RoomToEnd, Live
  <2> QED
    BY <1>1, <2>1, <2>2 DEF DeleteAlone
<1>7. PinsStay'
  BY <1>1 DEF IInv, PinsStay, Share
<1>8. StillFits'
  BY <1>1, <1>2, <1>3, <1>4 DEF IInv, StillFits, Follows, Reads
<1>9. AgendaShows'
  BY <1>3, <1>4 DEF IInv, AgendaShows
<1> QED
  BY <1>5, <1>6, <1>7, <1>8, <1>9 DEF IInv

\* Every step keeps the invariant.
LEMMA NextInv == IInv /\ [Next]_vars => IInv'
<1> SUFFICES ASSUME IInv, [Next]_vars PROVE IInv'
  OBVIOUS
<1>1. ASSUME NEW r \in Requests, NEW t \in Tabs, BeginStart(r, t) PROVE IInv'
  BY <1>1, BeginStartKeeps
<1>2. ASSUME NEW r \in Requests, NEW t \in Tabs, NEW to \in Positions, BeginMove(r, t, to) PROVE IInv'
  BY <1>2, BeginKeeps DEF BeginMove
<1>3. ASSUME NEW r \in Requests, NEW t \in Tabs, NEW do \in {"take", "end"}, Begin(r, t, do, Start) PROVE IInv'
  BY <1>3, BeginKeeps, PositionsClosed
<1>4. ASSUME NEW r \in Requests, NEW d \in Displays, Begin(r, d, "heartbeat", Start) PROVE IInv'
  BY <1>4, BeginKeeps, PositionsClosed
<1>5. ASSUME NEW r \in Requests, Insert(r) PROVE IInv'
  BY <1>5, InsertKeeps
<1>6. ASSUME NEW r \in Requests, Move(r) PROVE IInv'
  BY <1>6, MoveKeeps
<1>7. ASSUME NEW r \in Requests, TakeControl(r) PROVE IInv'
  BY <1>7, TakeControlKeeps
<1>8. ASSUME NEW r \in Requests, End(r) PROVE IInv'
  BY <1>8, EndRowKeeps DEF End, IInv, Reads
<1>9. ASSUME NEW r \in Requests, Refused(r) PROVE IInv'
  BY <1>9, Answered, PresenceKeeps DEF Refused, IInv, TypeOK
<1>10. ASSUME NEW r \in Requests, Heartbeat(r) PROVE IInv'
  <2>1. req[r].tab \in Displays /\ Live(req[r].p) \in BOOLEAN
    BY <1>10 DEF Heartbeat, IInv, Reads, Live
  <2>2. recent' \in [Rows -> BOOLEAN]
    BY <1>10, <2>1 DEF Heartbeat, IInv, TypeOK
  <2>3. viewers' \in [Rows -> SUBSET Displays]
    BY <1>10, <2>1 DEF Heartbeat, IInv, TypeOK
  <2> QED
    BY <1>10, <2>2, <2>3, Answered, PresenceKeeps DEF Heartbeat
<1>11. ASSUME NEW items \in Itineraries, SaveAgenda(items) PROVE IInv'
  BY <1>11, SaveAgendaKeeps
<1>12. CASE BeginDelete
  BY <1>12, BeginDeleteKeeps
<1>13. CASE DeleteAgenda
  BY <1>13, DeleteAgendaKeeps
<1>14. CASE GoQuiet
  BY <1>14, PresenceKeeps DEF GoQuiet, IInv, TypeOK
<1>15. CASE Expire
  BY <1>15, EndRowKeeps, OneLiveIsLive DEF Expire
<1>16. CASE UNCHANGED vars
  BY <1>16, PresenceKeeps DEF vars, IInv, TypeOK
<1> QED
  BY <1>1, <1>2, <1>3, <1>4, <1>5, <1>6, <1>7, <1>8, <1>9, <1>10, <1>11, <1>12, <1>13, <1>14,
     <1>15, <1>16 DEF Next

---------------------------------------------------------------------------
(* What a step may do to a screen.                                         *)

\* Only a move and a delete of the agenda change a position, and both follow.
LEMMA StepFollows == IInv /\ [Next]_vars => \A q \in Rows : Follows(row[q].at, row'[q].at)
<1> SUFFICES ASSUME IInv, [Next]_vars PROVE \A q \in Rows : Follows(row[q].at, row'[q].at)
  OBVIOUS
<1>1. ASSUME \A q \in Rows : row'[q].at = row[q].at
      PROVE  \A q \in Rows : Follows(row[q].at, row'[q].at)
  BY <1>1 DEF Follows
<1>2. ASSUME NEW r \in Requests, Move(r)
      PROVE  \A q \in Rows : Follows(row[q].at, row'[q].at)
  <2>1. /\ req[r].p \in Rows
        /\ row' = [row EXCEPT ![req[r].p] =
                     [row[req[r].p] EXCEPT !.at = req[r].to, !.revision = row[req[r].p].revision + 1]]
    BY <1>2, MoveKeeps
  <2>2. Follows(row[req[r].p].at, req[r].to)
    BY <1>2 DEF Move, Drives, IInv, StillFits
  <2>3. /\ row'[req[r].p].at = req[r].to
        /\ \A q \in Rows \ {req[r].p} : row'[q] = row[q]
    BY <2>1, Fields DEF IInv, RowType
  <2> QED
    BY <2>2, <2>3 DEF Follows
<1>3. CASE DeleteAgenda
  <2>1. row' = [p \in Rows |-> [row[p] EXCEPT !.at.pin = NoPin]]
    BY <1>3 DEF DeleteAgenda, Clears
  <2>2. \A q \in Rows : row'[q].at = [row[q].at EXCEPT !.pin = NoPin]
    BY <2>1, Fields DEF IInv, RowType
  <2>3. \A q \in Rows : row'[q].at.filter = row[q].at.filter /\ row'[q].at.pin = NoPin
    BY <2>2, Fields DEF IInv, Positions
  <2> QED
    BY <2>3 DEF Follows, NoPin, None
<1>4. ASSUME NEW r \in Requests, Insert(r) \/ TakeControl(r) \/ End(r) \/ Refused(r) \/ Heartbeat(r)
      PROVE  \A q \in Rows : row'[q].at = row[q].at
  <2>1. CASE Insert(r)
    BY <2>1, InsertKeeps
  <2>2. CASE TakeControl(r)
    BY <2>2, TakeControlKeeps
  <2>3. CASE End(r)
    BY <2>3, EndRowKeeps DEF End, IInv, Reads
  <2> QED
    BY <1>4, <2>1, <2>2, <2>3 DEF Refused, Heartbeat
<1>5. ASSUME NEW r \in Requests, NEW t, NEW do, NEW to, BeginStart(r, t) \/ BeginMove(r, t, to) \/ Begin(r, t, do, to)
      PROVE  row' = row
  BY <1>5 DEF BeginStart, BeginMove, Begin
<1>6. ASSUME NEW items, SaveAgenda(items) \/ BeginDelete \/ GoQuiet \/ UNCHANGED vars
      PROVE  row' = row
  BY <1>6 DEF SaveAgenda, BeginDelete, GoQuiet, vars
<1>7. CASE Expire
  BY <1>1, <1>7, EndRowKeeps, OneLiveIsLive DEF Expire
<1> QED
  BY <1>1, <1>2, <1>3, <1>4, <1>5, <1>6, <1>7 DEF Next

\* Types, and more: one presentation is live, an ended one has no driver, and
\* a pin names an item of the agenda, whatever the tabs and the requests.
THEOREM TypeCorrect == Spec => []TypeOK
<1>1. IInv => TypeOK
  BY DEF IInv
<1> QED
  BY <1>1, InitInv, NextInv, PTL DEF Spec

\* Whoever follows the agenda sees a page of its active item: no interleaving
\* of moves, hand-overs, saves and deletes leaves a screen on another.
THEOREM AgendaFollowed == Spec => []AgendaShows
<1>1. IInv => AgendaShows
  BY DEF IInv
<1> QED
  BY <1>1, InitInv, NextInv, PTL DEF Spec

\* A move changes the host filter, and explores, only from the position it
\* was checked against, which is the one it finds when its UPDATE runs.
THEOREM MovesLand == Spec => MovesFit
<1>1. IInv /\ [Next]_vars =>
        [\A p \in Rows : LET now == row[p].at  to == row'[p].at IN
           /\ to.filter # now.filter => to.slide = FirstSlide(now.slide)
           /\ now.pin.mode = "explore" /\ to.pin.mode = "explore" /\ now.pin.version = to.pin.version
                => to.pin.item = now.pin.item]_vars
  BY StepFollows DEF Follows
<1> QED
  BY <1>1, InitInv, NextInv, PTL DEF Spec, MovesFit
=============================================================================
