------------------------------ MODULE Proposals ------------------------------
(***************************************************************************)
(* Agent proposals: changes to a finding's text, to an endpoint's status,  *)
(* to a scope subnet, or a new finding, which a person accepts or rejects  *)
(* and a proposer may replace.  What is hard is who waits for whom: a      *)
(* decision locks what the proposal is about and then the proposal, a      *)
(* replacing request does so for several, an insert takes the key-share    *)
(* locks of its foreign keys, a deletion cascades from the target into its *)
(* proposals.  Every lock is a step; a request's writes are one step, at   *)
(* its commit, except that an accept chooses what it supersedes before.    *)
(* Promotions and dismissals of an observation are in Findings.            *)
(***************************************************************************)
EXTENDS Integers, FiniteSets, Sequences

CONSTANT Users            \* each with one request at a time
CONSTANT Subnets          \* the numbered targets, by kind
CONSTANT Texts            \* report fields, all of one finding
CONSTANT Endpoints        \* of that finding
CONSTANT MaxIds           \* bound: the proposals ever numbered
CONSTANT MaxItems         \* bound: the subnets one request proposes details for

Ids == 1..MaxIds
Finding == 0
New == -1                 \* the target of a proposed finding: nothing yet
Targets == Subnets \cup Texts \cup Endpoints \cup {New}
OfFinding == Texts \cup Endpoints
Superseding == Texts \cup Subnets
None == -2

ASSUME TargetAssumption == /\ Subnets \cup OfFinding \subseteq Nat \ {0}
                           /\ Subnets \cap OfFinding = {} /\ Texts \cap Endpoints = {}
                           /\ MaxIds \in Nat \ {0} /\ MaxItems \in Nat

VARIABLES prop,           \* the committed proposals, by id
          next,           \* the id the next one gets
          alive,          \* the targets that are still there
          locks,          \* <<user, resource, mode>>
          req,            \* per user: the request it is in
          applied,        \* history: how often a proposal's change was committed
          bulk            \* history: the proposal the last step accepted in bulk

vars == <<prop, next, alive, locks, req, applied, bulk>>

Statuses == {"pending", "accepted", "rejected", "superseded"}

(* Is what the target holds what the draft was written against?            *)
Bases == {"same", "changed", "unknown"}
Proposal == [target : Targets, owner : Users, status : Statuses,
             base : Bases, by : Ids \cup {None}]

Row(i) == <<"proposal", i>>
Thing(t) == <<"target", t>>

(* A request: the proposal it decides, or the first one it makes; what it  *)
(* is about; what it replaces, and what its targets held when it read      *)
(* them; the locks it takes next, and after those the ones of the claims,  *)
(* of the items from number at on, and of the rows that fall with it; what *)
(* an accept has chosen to supersede.                                      *)
Idle == [do |-> "idle", p |-> None, items |-> <<>>, olds |-> {}, base |-> <<>>,
         rest |-> <<>>, claims |-> {}, at |-> 0, falls |-> {}, sees |-> {}]

(* Nothing proposed yet, but for a draft that may predate the recording of *)
(* what a draft was written against.                                       *)
Init == /\ prop \in {<<>>} \cup [{1} -> {[target |-> t, owner |-> u, status |-> "pending",
                                        base |-> "unknown", by |-> None] : t \in Texts, u \in Users}]
        /\ next = Cardinality(DOMAIN prop) + 1
        /\ alive = Targets
        /\ locks = {}
        /\ req = [u \in Users |-> Idle]
        /\ applied = [i \in Ids |-> 0]
        /\ bulk = None

-----------------------------------------------------------------------------
(* Row locks: FOR KEY SHARE, FOR NO KEY UPDATE and FOR UPDATE.             *)

Conflict(m, n) == \/ "update" \in {m, n}
                  \/ m = "nokey" /\ n = "nokey"

Holders(u, r, mode) == {l[1] : l \in {k \in locks : k[1] # u /\ k[2] = r /\ Conflict(k[3], mode)}}
Free(u, r, mode) == Holders(u, r, mode) = {}

(* lock_for_decision: what the proposal is about, then the proposal.       *)
DecisionLocksRowFirst(i, t) ==                                          \* Faulty
  IF t \in Subnets THEN <<<<Row(i), "update">>, <<Thing(t), "update">>>>
  ELSE IF t \in OfFinding THEN <<<<Row(i), "update">>, <<Thing(Finding), "nokey">>>>
  ELSE <<<<Row(i), "update">>>>
DecisionLocks(i, t) ==
  IF t \in Subnets THEN <<<<Thing(t), "update">>, <<Row(i), "update">>>>
  ELSE IF t \in Texts THEN <<<<Thing(Finding), "nokey">>, <<Row(i), "update">>>>
  ELSE IF t \in Endpoints
  THEN <<<<Thing(Finding), "nokey">>, <<Thing(t), "update">>, <<Row(i), "update">>>>
  ELSE <<<<Row(i), "update">>>>

(* What an insert's foreign keys lock.                                     *)
InsertLocks(t) ==
  IF t \in Texts THEN <<<<Thing(Finding), "share">>>>
  ELSE IF t \in Endpoints THEN <<<<Thing(Finding), "share">>, <<Thing(t), "share">>>>
  ELSE IF t \in Subnets THEN <<<<Thing(t), "share">>>>
  ELSE <<>>

(* claim_replaced: in the order of the targets, then of the ids.           *)
Before(o, p) == \/ o[2] < p[2]
                \/ o[2] = p[2] /\ o[1] < p[1]
FirstClaim(S) == CHOOSE o \in S : \A p \in S \ {o} : Before(o, p)

(* The locks of one old proposal, then of the next, then of each insert.   *)
Onward(q) ==
  IF q.rest # <<>> THEN q
  ELSE IF q.claims # {}
  THEN LET o == FirstClaim(q.claims)
       IN [q EXCEPT !.rest = DecisionLocks(o[1], o[2]), !.claims = @ \ {o}]
  ELSE IF q.do = "propose" /\ q.at < Len(q.items)
  THEN [q EXCEPT !.rest = InsertLocks(q.items[q.at + 1]), !.at = @ + 1]
  ELSE q

-----------------------------------------------------------------------------
(* The requests.                                                           *)

Pending(i) == i \in DOMAIN prop /\ prop[i].status = "pending"

Begin(u, r, n) == /\ req[u] = Idle
                  /\ req' = [req EXCEPT ![u] = r]
                  /\ next' = next + n
                  /\ bulk' = None
                  /\ UNCHANGED <<prop, alive, locks, applied>>

Decide(u, i, how) ==
  /\ i \in DOMAIN prop
  /\ Begin(u, [Idle EXCEPT !.do = how, !.p = i, !.items = <<prop[i].target>>,
                           !.rest = DecisionLocks(i, prop[i].target)], 0)

(* One proposal per item, numbered here, each knowing what its target held *)
(* when it was read.                                                       *)
(* Those it replaces are the caller's and about one of the items.          *)
Requests == {<<t>> : t \in Targets}
            \cup {s \in Subnets \X Subnets : s[1] # s[2] /\ Len(s) <= MaxItems}

MayReplace(u, about, i) == prop[i].target \in about /\ prop[i].owner = u

Propose(u, items, olds) ==
  LET about == {items[k] : k \in DOMAIN items} IN
  /\ about \subseteq alive
  /\ next + Len(items) <= MaxIds + 1
  /\ \A i \in olds : MayReplace(u, about, i)
  /\ Begin(u, Onward([Idle EXCEPT
                  !.do = "propose", !.p = next, !.items = items, !.olds = olds,
                  !.base = [k \in DOMAIN items |-> IF items[k] \in Superseding THEN "same" ELSE "unknown"],
                  !.claims = {<<i, prop[i].target>> : i \in olds}]), Len(items))

(* A subnet, an endpoint or the whole finding goes, by t's kind.           *)
Gone(t) == IF t \in Texts THEN OfFinding ELSE {t}
Rows(t) == {i \in DOMAIN prop : prop[i].target \in Gone(t)}
RemovalLocks(t) ==
  IF t \in Texts THEN <<<<Thing(Finding), "nokey">>, <<Thing(Finding), "update">>>>
  ELSE IF t \in Endpoints THEN <<<<Thing(Finding), "nokey">>, <<Thing(t), "update">>>>
  ELSE <<<<Thing(t), "update">>>>
DeleteTarget(u, t) ==
  /\ t \in alive \ {New}
  /\ Begin(u, [Idle EXCEPT !.do = "remove", !.items = <<t>>, !.rest = RemovalLocks(t),
                           !.falls = IF t \in Texts THEN Endpoints ELSE {}], 0)

(* A write of a text or a subnet, by a person or an accept, outdates what  *)
(* was written against it: proposals, and requests that have read it.      *)
Outdate(b) == IF b = "same" THEN "changed" ELSE b
Outdated(rows, t) == [i \in DOMAIN rows |-> IF rows[i].target = t
                                            THEN [rows[i] EXCEPT !.base = Outdate(@)] ELSE rows[i]]
OutdatedRead(q, t) == [q EXCEPT !.base = [k \in DOMAIN @ |->
                                            IF q.items[k] = t THEN Outdate(@[k]) ELSE @[k]]]

(* A person's own edit: locked, written and committed in one go.           *)
Edit(u, t) ==
  /\ req[u] = Idle /\ t \in alive \cap Superseding
  /\ Free(u, Thing(IF t \in Texts THEN Finding ELSE t), "nokey")
  /\ prop' = Outdated(prop, t)
  /\ req' = [v \in Users |-> OutdatedRead(req[v], t)]
  /\ bulk' = None
  /\ UNCHANGED <<next, alive, locks, applied>>

-----------------------------------------------------------------------------
(* Their steps.                                                            *)

End(u) == /\ req' = [req EXCEPT ![u] = Idle]
          /\ locks' = {l \in locks : l[1] # u}

Leave(u) == End(u) /\ bulk' = None /\ UNCHANGED <<prop, next, alive, applied>>

(* A proposal is read again under its lock: gone is a 404, decided a 409.  *)
(* An insert whose target is gone fails.                                   *)
Refused(r, mode) ==
  \/ r[1] = "proposal" /\ ~Pending(r[2])
  \/ /\ r[1] = "target" /\ mode = "share"
     /\ r[2] \notin alive /\ (r[2] = Finding => Texts \cap alive = {})

Take(u) ==
  /\ req[u].rest # <<>>
  /\ LET l == Head(req[u].rest) IN
     /\ Free(u, l[1], l[2])
     /\ IF Refused(l[1], l[2]) THEN Leave(u)
        ELSE /\ locks' = locks \cup {<<u, l[1], l[2]>>}
             /\ req' = [req EXCEPT ![u] = Onward([req[u] EXCEPT !.rest = Tail(@)])]
             /\ bulk' = None
             /\ UNCHANGED <<prop, next, alive, applied>>

(* The finding's endpoints are locked by the cascade, in the table's order.*)
Cascade(u, t) ==
  /\ req[u].rest = <<>> /\ t \in req[u].falls
  /\ Free(u, Thing(t), "update")
  /\ locks' = locks \cup {<<u, Thing(t), "update">>}
  /\ req' = [req EXCEPT ![u].falls = @ \ {t}]
  /\ bulk' = None
  /\ UNCHANGED <<prop, next, alive, applied>>

Ready(u, do) == req[u].do \in do /\ req[u].rest = <<>> /\ req[u].falls = {}

(* left_for_one_at_a_time: the text is not the one the draft was written   *)
(* against, or nobody knows.                                               *)
LeftUnrecorded(u, i) == prop[i].target \in Superseding /\ prop[i].base = "unknown"  \* Faulty
Left(u, i) == prop[i].target \in Superseding /\ prop[i].base # "same"

LeaveForLater(u) == Ready(u, {"bulk"}) /\ Left(u, req[u].p) /\ Leave(u)

(* The change itself refuses: the savepoint takes back what it wrote, the  *)
(* reason is kept and the proposal stays pending.                          *)
RefuseKeeps(u) == /\ Ready(u, {"accept", "bulk"})                             \* Faulty
                  /\ applied' = [applied EXCEPT ![req[u].p] = @ + 1]
                  /\ End(u) /\ bulk' = None
                  /\ UNCHANGED <<prop, next, alive>>
Refuse(u) == Ready(u, {"accept", "bulk"}) /\ Leave(u)

Others(i) == IF prop[i].target \notin Superseding THEN {}
             ELSE {j \in DOMAIN prop \ {i} : Pending(j) /\ prop[j].target = prop[i].target}

(* The change is applied and the others of its target are superseded: both *)
(* show at the commit.                                                     *)
Apply(u) ==
  LET i == req[u].p IN
  /\ Ready(u, {"accept", "bulk"})
  /\ req[u].do = "bulk" => ~Left(u, i)
  /\ \A j \in Others(i) : Free(u, Row(j), "update")
  /\ req' = [req EXCEPT ![u].do = IF @ = "bulk" THEN "bulk applied" ELSE "applied",
                        ![u].sees = Others(i)]
  /\ locks' = locks \cup {<<u, Row(j), "update">> : j \in Others(i)}
  /\ bulk' = None
  /\ UNCHANGED <<prop, next, alive, applied>>

CommitAccept(u) ==
  LET i == req[u].p
      rows == [j \in DOMAIN prop |-> IF j = i THEN [prop[j] EXCEPT !.status = "accepted"]
                                     ELSE IF j \in req[u].sees THEN [prop[j] EXCEPT !.status = "superseded"]
                                     ELSE prop[j]]
  IN /\ Ready(u, {"applied", "bulk applied"})
     /\ prop' = IF prop[i].target \in Superseding THEN Outdated(rows, prop[i].target) ELSE rows
     /\ req' = [v \in Users |-> IF v = u THEN Idle ELSE OutdatedRead(req[v], prop[i].target)]
     /\ locks' = {l \in locks : l[1] # u}
     /\ applied' = [applied EXCEPT ![i] = @ + 1]
     /\ bulk' = IF req[u].do = "bulk applied" THEN i ELSE None
     /\ UNCHANGED <<next, alive>>

CommitReject(u) ==
  /\ Ready(u, {"reject"})
  /\ prop' = [prop EXCEPT ![req[u].p].status = "rejected"]
  /\ End(u) /\ bulk' = None
  /\ UNCHANGED <<next, alive, applied>>

(* The new rows show, and those they replace point at them.                *)
NewAbout(q, t) == q.p + (CHOOSE k \in DOMAIN q.items : q.items[k] = t) - 1
CommitProposals(u) ==
  LET q == req[u]
      new == q.p..(q.p + Len(q.items) - 1)
  IN /\ Ready(u, {"propose"})
     /\ prop' = [j \in DOMAIN prop \cup new |->
          IF j \in new
          THEN [target |-> q.items[j - q.p + 1], owner |-> u, status |-> "pending",
                base |-> q.base[j - q.p + 1], by |-> None]
          ELSE IF j \in q.olds
          THEN [prop[j] EXCEPT !.status = "superseded", !.by = NewAbout(q, prop[j].target)]
          ELSE prop[j]]
     /\ End(u) /\ bulk' = None
     /\ UNCHANGED <<next, alive, applied>>

(* The cascade reaches the target's proposals; what pointed at one of them *)
(* points at nothing.                                                      *)
CommitRemove(u) ==
  LET t == req[u].items[1]
      rows == Rows(t)
  IN /\ Ready(u, {"remove"})
     /\ \A i \in rows : Free(u, Row(i), "update")
     /\ alive' = alive \ Gone(t)
     /\ prop' = [j \in DOMAIN prop \ rows |->
                   IF prop[j].by \in rows THEN [prop[j] EXCEPT !.by = None] ELSE prop[j]]
     /\ End(u) /\ bulk' = None
     /\ UNCHANGED <<next, applied>>

Step(u) == \/ Take(u) \/ (\E t \in Endpoints : Cascade(u, t)) \/ LeaveForLater(u) \/ Apply(u) \/ Refuse(u)
           \/ CommitAccept(u) \/ CommitReject(u) \/ CommitProposals(u) \/ CommitRemove(u)

Next == \E u \in Users :
          \/ \E i \in Ids, how \in {"accept", "bulk", "reject"} : Decide(u, i, how)
          \/ \E items \in Requests, olds \in SUBSET DOMAIN prop : Propose(u, items, olds)
          \/ \E t \in Targets : DeleteTarget(u, t) \/ Edit(u, t)
          \/ Step(u)

Spec == Init /\ [][Next]_vars

-----------------------------------------------------------------------------
(* What a request needs next, in an order that is not its own where there  *)
(* are several, and whom it waits for.                                     *)
Needs(u) ==
  IF req[u].rest # <<>> THEN {Head(req[u].rest)}
  ELSE IF req[u].falls # {} THEN {<<Thing(t), "update">> : t \in req[u].falls}
  ELSE IF req[u].do \in {"accept", "bulk"} THEN {<<Row(j), "update">> : j \in Others(req[u].p)}
  ELSE IF req[u].do = "remove" THEN {<<Row(i), "update">> : i \in Rows(req[u].items[1])}
  ELSE {}

WaitsFor(u) == UNION {Holders(u, n[1], n[2]) : n \in Needs(u)}

(* A proposal that gave way to another was its proposer's to replace, and  *)
(* the other is about the same thing.                                      *)
TypeOK == /\ DOMAIN prop \subseteq Ids /\ \A i \in DOMAIN prop : prop[i] \in Proposal
          /\ \A i \in DOMAIN prop : prop[i].target \in alive
          /\ \A i \in DOMAIN prop : prop[i].by # None =>
               /\ prop[i].status = "superseded" /\ prop[i].by \in DOMAIN prop
               /\ prop[prop[i].by].target = prop[i].target
               /\ prop[prop[i].by].owner = prop[i].owner
          /\ next \in 1..(MaxIds + 1)
          /\ alive \subseteq Targets
          /\ applied \in [Ids -> Nat] /\ bulk \in Ids \cup {None}

(* No requests wait for each other: the one lock order of claim_replaced   *)
(* and lock_for_decision.                                                  *)
NoDeadlock == \A S \in SUBSET Users : S # {} => \E u \in S : WaitsFor(u) \cap S = {}

(* A change was applied once when its proposal is accepted, and not at all *)
(* when it is anything else: not by two reviewers, not by a refusal.       *)
AppliedOnce == \A i \in DOMAIN prop : applied[i] = (IF prop[i].status = "accepted" THEN 1 ELSE 0)

(* A decision stays, and so does what replaced a proposal until it is gone.*)
DecisionsStay ==
  [][\A i \in DOMAIN prop \cap DOMAIN prop' :
       prop[i].status # "pending" => /\ prop'[i].status = prop[i].status
                                     /\ prop'[i].by \in {prop[i].by, None}]_vars

(* A bulk accept replaces no text, and no subnet's details, other than     *)
(* those the draft was written against.                                    *)
BulkSpares ==
  [][bulk' # None /\ prop[bulk'].target \in Superseding => prop[bulk'].base = "same"]_vars
=============================================================================
