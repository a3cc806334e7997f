---------------------------- MODULE Presentation ----------------------------
(***************************************************************************)
(* A report presented to several browser tabs: one tab drives, any of them *)
(* takes control, others watch, an agenda can be pinned.  Every request    *)
(* reads the presentation first (ending it when it has gone idle), checks  *)
(* what it was sent against that reading, and writes with one conditional  *)
(* UPDATE; other requests' writes fall in between.  Slides are three: the  *)
(* overview and two endpoint pages of one finding, the second of which the *)
(* host filter leaves out.  The agenda has two items, one for each.        *)
(***************************************************************************)
EXTENDS Integers, Sequences

CONSTANT Tabs             \* a person's tab: the user and the client id it sent
CONSTANT Displays         \* tabs that only watch
CONSTANT Requests         \* requests in flight; a tab may have several
CONSTANT MaxRows          \* bound: the presentations started
CONSTANT MaxRevision      \* bound: the revisions of one
CONSTANT MaxVersions      \* bound: the saves of the agenda

None == "none"
Rows == 1..MaxRows
Slides == {"overview", "first", "second"}
Filters == {None, "site"}
Itineraries == {<<"overview", "finding">>}
Modes == {"agenda", "explore"}

ASSUME TabAssumption == None \notin Tabs \cup Displays
ASSUME BoundAssumption == MaxRows \in Nat /\ MaxRevision \in Nat \ {0, 1} /\ MaxVersions \in Nat

VARIABLES row,            \* the presentations
          viewers,        \* per row: the tabs heard from
          recent,         \* per row: heard from within IDLE_MINUTES
          versions,       \* the agenda's saved versions; <<>>: there is none
          deleting,       \* a delete of the agenda holds its row
          req             \* per request: its tab, what it is for, what it read

vars == <<row, viewers, recent, versions, deleting, req>>

NoPin == [version |-> 0, mode |-> None, item |-> 0]
Pins == {NoPin} \cup [version : 1..MaxVersions, mode : Modes, item : 1..2]
Positions == [slide : Slides, filter : Filters, pin : Pins]
Start == [slide |-> "overview", filter |-> None, pin |-> NoPin]
Unused == [phase |-> "unused", revision |-> 0, at |-> Start, driver |-> None]
RowType == [phase : {"unused", "live", "ended"}, revision : 0..MaxRevision, at : Positions,
            driver : Tabs \cup {None}]
RequestType == [do : {"idle", "start", "move", "take", "end", "heartbeat"},
                tab : Tabs \cup Displays \cup {None}, p : 0..MaxRows,
                seen : 0..MaxRevision, to : Positions]

Idle == [do |-> "idle", tab |-> None, p |-> 0, seen |-> 0, to |-> Start]
ShareNobody == {}                                                         \* Faulty
Share == {r \in Requests : req[r].do = "move" /\ req[r].to.pin # NoPin}

Init == /\ row = [p \in Rows |-> Unused]
        /\ viewers = [p \in Rows |-> {}]
        /\ recent = [p \in Rows |-> FALSE]
        /\ versions = <<>> /\ deleting = FALSE
        /\ req = [r \in Requests |-> Idle]

-----------------------------------------------------------------------------
(* The slide lists, and what a move is checked against.                    *)

Listed(filter) == IF filter = None THEN Slides ELSE Slides \ {"second"}
FirstSlide(slide) == IF slide = "overview" THEN "overview" ELSE "first"   \* of its finding
PagesAt(anchor, filter) == Listed(filter) \cap (IF anchor = "overview" THEN {"overview"}
                                                ELSE Slides \ {"overview"})

(* check_position: a filter change lands on the finding's first endpoint.  *)
PositionFits(now, to) ==
  /\ to.slide \in Listed(to.filter)
  /\ to.filter # now.filter => to.slide = FirstSlide(now.slide)

(* check_agenda: an item of the version; its pages, or the item held.      *)
ItemFits(to) == to.pin.mode = "agenda" =>
                  to.slide \in PagesAt(versions[to.pin.version][to.pin.item], to.filter)
AgendaFits(now, to) ==
  to.pin # NoPin =>
    /\ to.pin.version \in DOMAIN versions
    /\ to.pin.item \in DOMAIN versions[to.pin.version]
    /\ ItemFits(to)
    /\ now.pin.version = to.pin.version /\ now.pin.mode = "explore" /\ to.pin.mode = "explore"
         => to.pin.item = now.pin.item

-----------------------------------------------------------------------------
Live(p) == row[p].phase = "live"
OneLive == CHOOSE p \in Rows : Live(p)
SomeLive == \E p \in Rows : Live(p)

(* _expire_if_idle: the next request to read an idle one ends it.          *)
EndRow(p) == /\ row' = [row EXCEPT ![p].phase = "ended", ![p].revision = @ + 1, ![p].driver = None]
             /\ viewers' = [viewers EXCEPT ![p] = {}]
             /\ recent' = [recent EXCEPT ![p] = FALSE]

Expire == /\ SomeLive /\ ~recent[OneLive] /\ row[OneLive].revision < MaxRevision
          /\ EndRow(OneLive)
          /\ UNCHANGED <<versions, deleting, req>>

(* get_presentation finds it live; the request knows what it read.         *)
Begin(r, t, do, to) ==
  /\ req[r] = Idle /\ SomeLive /\ recent[OneLive]
  /\ req' = [req EXCEPT ![r] = [do |-> do, tab |-> t, p |-> OneLive,
                               seen |-> row[OneLive].revision, to |-> to]]
  /\ UNCHANGED <<row, viewers, recent, versions, deleting>>

BeginMove(r, t, to) ==
  /\ SomeLive
  /\ PositionFits(row[OneLive].at, to) /\ AgendaFits(row[OneLive].at, to)
  /\ to.pin # NoPin => ~deleting
  /\ Begin(r, t, "move", to)

Done(r) == req' = [req EXCEPT ![r] = Idle]

(* The conditional UPDATE of a move: still live, at the revision it saw,   *)
(* from the driving tab.                                                   *)
DrivesStill(r, p) == Live(p) /\ row[p].driver = req[r].tab                \* Faulty
Drives(r, p) == Live(p) /\ row[p].revision = req[r].seen /\ row[p].driver = req[r].tab

Move(r) ==
  LET p == req[r].p IN
  /\ req[r].do = "move" /\ row[p].revision < MaxRevision - 1
  /\ Drives(r, p)
  /\ row' = [row EXCEPT ![p].at = req[r].to, ![p].revision = @ + 1]
  /\ recent' = [recent EXCEPT ![p] = TRUE]
  /\ Done(r) /\ UNCHANGED <<viewers, versions, deleting>>

Refused(r) == /\ \/ req[r].do = "move" /\ ~Drives(r, req[r].p)
                 \/ req[r].do \in {"take", "end"} /\ ~Live(req[r].p)
              /\ Done(r) /\ UNCHANGED <<row, viewers, recent, versions, deleting>>

TakeControl(r) ==
  LET p == req[r].p IN
  /\ req[r].do = "take" /\ Live(p) /\ row[p].revision < MaxRevision - 1
  /\ row' = [row EXCEPT ![p].driver = req[r].tab, ![p].revision = @ + 1]
  /\ Done(r) /\ UNCHANGED <<viewers, recent, versions, deleting>>

End(r) == /\ req[r].do = "end" /\ Live(req[r].p)
          /\ EndRow(req[r].p)
          /\ Done(r) /\ UNCHANGED <<versions, deleting>>

(* The unique index lets one of two Starts in; the other joins.            *)
BeginStart(r, t) == /\ req[r] = Idle /\ ~SomeLive /\ \E p \in Rows : row[p] = Unused
                    /\ req' = [req EXCEPT ![r].do = "start", ![r].tab = t]
                    /\ UNCHANGED <<row, viewers, recent, versions, deleting>>

MayInsert(p) == row[p] = Unused /\ ~SomeLive

Insert(r) ==
  /\ req[r].do = "start"
  /\ \/ \E p \in Rows :
          /\ MayInsert(p) /\ \A q \in 1..(p - 1) : row[q] # Unused
          /\ row' = [row EXCEPT ![p] = [Unused EXCEPT !.phase = "live", !.revision = 1, !.driver = req[r].tab]]
          /\ recent' = [recent EXCEPT ![p] = TRUE]
     \/ /\ \A p \in Rows : ~MayInsert(p)
        /\ UNCHANGED <<row, recent>>
  /\ Done(r) /\ UNCHANGED <<viewers, versions, deleting>>

(* Presence (what a Display says it rendered is left out: it decides       *)
(* nothing).  One whose reading found it live adds its tab even if it has  *)
(* ended since.                                                            *)
Heartbeat(r) ==
  LET p == req[r].p IN
  /\ req[r].do = "heartbeat"
  /\ viewers' = [viewers EXCEPT ![p] = @ \cup {req[r].tab}]
  /\ recent' = [recent EXCEPT ![p] = Live(p)]
  /\ Done(r) /\ UNCHANGED <<row, versions, deleting>>

-----------------------------------------------------------------------------
(* The agenda.  A save waits for the moves that read it FOR SHARE.         *)
SaveAgenda(items) ==
  /\ Len(versions) < MaxVersions /\ ~deleting /\ Share = {}
  /\ versions' = Append(versions, items)
  /\ UNCHANGED <<row, viewers, recent, deleting, req>>

Pinning(p) == row[p].at.pin # NoPin
BeginDelete == /\ versions # <<>> /\ ~deleting /\ Share = {}
               /\ \A p \in Rows : ~(Live(p) /\ Pinning(p) /\ recent[p])
               /\ deleting' = TRUE
               /\ UNCHANGED <<row, viewers, recent, versions, req>>

Clears(p) == TRUE
DeleteAgenda == /\ deleting
                /\ row' = [p \in Rows |-> IF Clears(p) THEN [row[p] EXCEPT !.at.pin = NoPin] ELSE row[p]]
                /\ versions' = <<>> /\ deleting' = FALSE
                /\ UNCHANGED <<viewers, recent, req>>

(* IDLE_MINUTES pass with no move and no heartbeat.                        *)
GoQuiet == /\ \E p \in Rows : /\ recent[p]
                              /\ recent' = [recent EXCEPT ![p] = FALSE]
           /\ UNCHANGED <<row, viewers, versions, deleting, req>>

Next == \/ \E r \in Requests :
             \/ \E t \in Tabs : \/ BeginStart(r, t)
                               \/ \E to \in Positions : BeginMove(r, t, to)
                               \/ \E do \in {"take", "end"} : Begin(r, t, do, Start)
             \/ \E d \in Displays : Begin(r, d, "heartbeat", Start)
             \/ Insert(r) \/ Move(r) \/ TakeControl(r) \/ End(r) \/ Refused(r) \/ Heartbeat(r)
        \/ \E items \in Itineraries : SaveAgenda(items)
        \/ BeginDelete \/ DeleteAgenda \/ GoQuiet \/ Expire

Spec == Init /\ [][Next]_vars

-----------------------------------------------------------------------------
(* One is live; an ended one has no driver; a pin names an item that is    *)
(* there; only watching tabs are heard from.                               *)
TypeOK ==
  /\ row \in [Rows -> RowType]
  /\ \A p, q \in Rows : Live(p) /\ Live(q) => p = q
  /\ \A p \in Rows :
       /\ row[p].phase = "ended" => row[p].driver = None
       /\ Pinning(p) => /\ row[p].at.pin.version \in DOMAIN versions
                        /\ row[p].at.pin.item \in DOMAIN versions[row[p].at.pin.version]
  /\ viewers \in [Rows -> SUBSET Displays]
  /\ recent \in [Rows -> BOOLEAN] /\ deleting \in BOOLEAN
  /\ versions \in Seq(Itineraries) /\ Len(versions) <= MaxVersions
  /\ req \in [Requests -> RequestType]

(* Whoever follows the agenda looks at a page of its active item, in a     *)
(* version that is still there, and any page shown is one the filter lists.*)
AgendaShows ==
  \A p \in Rows : LET at == row[p].at IN
    /\ at.slide \in Listed(at.filter)
    /\ at.pin.mode = "agenda" =>
         /\ at.pin.version \in DOMAIN versions /\ at.pin.item \in DOMAIN versions[at.pin.version]
         /\ at.slide \in PagesAt(versions[at.pin.version][at.pin.item], at.filter)

(* Whatever was on the screen when a driver asked, what matters is what is *)
(* there when the move lands: a host filter changes only to the first      *)
(* endpoint of the finding shown at that moment, and exploring keeps the   *)
(* agenda item it will come back to, through every hand-over.              *)
MovesFit ==
  [][\A p \in Rows : LET now == row[p].at  to == row'[p].at IN
       /\ to.filter # now.filter => to.slide = FirstSlide(now.slide)
       /\ now.pin.mode = "explore" /\ to.pin.mode = "explore" /\ now.pin.version = to.pin.version
            => to.pin.item = now.pin.item]_vars

(* What _forget_viewers says of an ended presentation: it lists no one.    *)
EndedForgets == \A p \in Rows : row[p].phase = "ended" => viewers[p] = {}
=============================================================================
