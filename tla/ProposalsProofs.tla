--------------------------- MODULE ProposalsProofs ---------------------------
(***************************************************************************)
(* Proofs about the agent proposals, for any users, targets, ids and       *)
(* subnets per request.  The code gives up the absence of deadlock for     *)
(* requests about several subnets: what is proved is that only two of      *)
(* those ever wait for each other.                                         *)
(*                                                                         *)
(* Everything rests on what a request has locked at each of its steps      *)
(* (RequestOK) and on what a locked proposal implies: it is pending, and   *)
(* whoever locked it has locked what it is about before (RowsGuarded).     *)
(***************************************************************************)
EXTENDS Proposals, TLAPS, WellFoundedInduction, FiniteSetTheorems

Held(u, r, mode) == <<u, r, mode>> \in locks
Fin == Thing(Finding)
Things == Subnets \cup Endpoints
Locked(u, i) == Held(u, Row(i), "update")

\* What a decision, and an insert, has locked of its target.
Guards(u, t) == /\ t \in OfFinding => Held(u, Fin, "nokey")
                /\ t \in Things => Held(u, Thing(t), "update")
Anchors(u, t) == /\ t \in OfFinding => Held(u, Fin, "share")
                 /\ t \in Things => Held(u, Thing(t), "share")

\* On the way to its locks: of proposal i on t, of an insert, of a removal.
Deciding(u, i, t) ==
  \/ req[u].rest = DecisionLocks(i, t)
  \/ /\ t \in Endpoints /\ Held(u, Fin, "nokey")
     /\ req[u].rest = <<<<Thing(t), "update">>, <<Row(i), "update">>>>
  \/ Guards(u, t) /\ req[u].rest = <<<<Row(i), "update">>>>
Inserting(u, t) ==
  \/ req[u].rest = InsertLocks(t) /\ req[u].rest # <<>>
  \/ /\ t \in Endpoints /\ Held(u, Fin, "share")
     /\ req[u].rest = <<<<Thing(t), "share">>>>
Removing(u, t) ==
  \/ req[u].rest = RemovalLocks(t)
  \/ /\ t \in OfFinding /\ Held(u, Fin, "nokey")
     /\ req[u].rest = <<IF t \in Texts THEN <<Fin, "update">> ELSE <<Thing(t), "update">>>>

AboutTarget(q) == \E t \in Targets : q.items = <<t>>
Plain(q) == q.olds = {} /\ q.claims = {} /\ q.at = 0

DecisionOK(u) ==
  LET q == req[u] IN
  /\ q.do \in {"accept", "bulk", "reject"}
  /\ AboutTarget(q) /\ Plain(q) /\ q.falls = {} /\ q.sees = {} /\ q.p \in Ids
  /\ \/ Deciding(u, q.p, q.items[1])
     \/ q.rest = <<>> /\ Locked(u, q.p)

AcceptOK(u) ==
  LET q == req[u] IN
  /\ q.do \in {"applied", "bulk applied"}
  /\ AboutTarget(q) /\ Plain(q) /\ q.falls = {} /\ q.rest = <<>> /\ q.p \in Ids
  /\ Locked(u, q.p)
  /\ q.sees \in SUBSET (Ids \ {q.p}) /\ \A j \in q.sees : Locked(u, j)
  /\ q.do = "bulk applied" => ~Left(u, q.p)

\* It has come to claim i, which is about t: the others are claimed before or after.
Claiming(u, i, t) ==
  LET q == req[u] IN
  /\ i \in q.olds /\ t \in Targets /\ (i \in DOMAIN prop => prop[i].target = t)
  /\ \E k \in DOMAIN q.items : q.items[k] = t
  /\ Deciding(u, i, t)
  /\ \A j \in q.olds \ {i} : Locked(u, j) \/ \E s \in Targets : <<j, s>> \in q.claims
  /\ \A c \in q.claims : Before(<<i, t>>, c)
  /\ \A j \in q.olds : Locked(u, j) => Before(<<j, prop[j].target>>, <<i, t>>)

\* It has claimed all and has come to an insert, or to the end of them.
Placing(u) ==
  LET q == req[u] IN
  /\ q.at > 0 /\ q.claims = {}
  /\ \A i \in q.olds : Locked(u, i)
  /\ \A k \in 1..(q.at - 1) : Anchors(u, q.items[k])
  /\ \/ Inserting(u, q.items[q.at])
     \/ q.rest = <<>> /\ q.at = Len(q.items) /\ Anchors(u, q.items[q.at])

ReplaceForm(u) ==
  LET q == req[u] IN
  /\ q.do = "propose" /\ q.falls = {} /\ q.sees = {}
  /\ q.items \in Requests
  /\ q.base \in [DOMAIN q.items -> Bases]
  /\ q.p \in Ids /\ q.p + Len(q.items) <= MaxIds + 1
  /\ q.olds \in SUBSET Ids
  /\ q.claims \in SUBSET (q.olds \X Targets)
  /\ q.at \in 0..Len(q.items)
  /\ \A c \in q.claims : /\ c[1] \in DOMAIN prop => prop[c[1]].target = c[2]
                         /\ \E k \in DOMAIN q.items : q.items[k] = c[2]

ReplaceOK(u) == /\ ReplaceForm(u)
                /\ \/ req[u].at = 0 /\ \E i \in Ids, t \in Targets : Claiming(u, i, t)
                   \/ Placing(u)

RemoveOK(u) ==
  LET q == req[u] IN
  /\ q.do = "remove"
  /\ AboutTarget(q) /\ Plain(q) /\ q.sees = {} /\ q.items[1] # New
  /\ q.falls \in SUBSET Endpoints
  /\ q.items[1] \notin Texts => q.falls = {}
  /\ \/ Removing(u, q.items[1]) /\ (q.items[1] \in Texts => q.falls = Endpoints)
     \/ /\ q.rest = <<>> /\ Guards(u, q.items[1])
        /\ q.items[1] \in Texts => /\ Held(u, Fin, "update")
                                   /\ \A t \in Endpoints \ q.falls : Held(u, Thing(t), "update")

IdleOK(u) == req[u].do = "idle" /\ req[u].rest = <<>> /\ req[u].falls = {}

RequestOK(u) == IdleOK(u) \/ DecisionOK(u) \/ AcceptOK(u) \/ ReplaceOK(u) \/ RemoveOK(u)

Named(u) == IF req[u].do = "propose" THEN req[u].olds
            ELSE IF req[u].do \in {"accept", "bulk", "reject", "applied", "bulk applied"}
            THEN {req[u].p} \cup req[u].sees ELSE {}
Reserved(u) == IF req[u].do = "propose" THEN req[u].p..(req[u].p + Len(req[u].items) - 1) ELSE {}

\* Ids are given out once, and nothing was applied under one that shows no proposal yet.
Fresh == /\ \A i \in DOMAIN prop : i < next
         /\ \A u \in Users : /\ \A i \in Named(u) \cup Reserved(u) : i < next
                             /\ Reserved(u) \cap DOMAIN prop = {}
         /\ \A u, v \in Users : /\ Named(u) \cap Reserved(v) = {}
                                /\ u # v => Reserved(u) \cap Reserved(v) = {}
         /\ \A i \in Ids : next <= i => applied[i] = 0
         /\ \A u \in Users : \A i \in Reserved(u) : applied[i] = 0

\* What a request names is about what it is about, and its own to replace.
AimOK(u) ==
  \A i \in Named(u) \cap DOMAIN prop :
    /\ \E k \in DOMAIN req[u].items : prop[i].target = req[u].items[k]
    /\ req[u].do = "propose" => prop[i].owner = u

\* What is held is what the request is about.
LockOK(l) ==
  LET u == l[1]  q == req[u] IN
  \/ /\ l[2] = Fin /\ l[3] = "share"
     /\ q.do = "propose" /\ q.at > 0 /\ \E k \in 1..q.at : q.items[k] \in OfFinding
  \/ /\ l[2] = Fin /\ l[3] = "nokey"
     /\ q.do # "idle" /\ \E k \in DOMAIN q.items : q.items[k] \in OfFinding
  \/ /\ l[2] = Fin /\ l[3] = "update"
     /\ q.do = "remove" /\ q.items[1] \in Texts /\ q.rest = <<>>
  \/ \E t \in Things :
       /\ l[2] = Thing(t) /\ l[3] = "share"
       /\ q.do = "propose" /\ \E k \in 1..q.at : q.items[k] = t /\ (k = q.at => q.rest = <<>>)
  \/ \E t \in Things :
       /\ l[2] = Thing(t) /\ l[3] = "update"
       /\ \/ q.do # "idle" /\ \E k \in DOMAIN q.items : q.items[k] = t
          \/ t \in Endpoints /\ q.do = "remove" /\ q.items[1] \in Texts /\ q.rest = <<>>
       /\ t \in Endpoints => Held(u, Fin, "nokey")
  \/ \E i \in Named(u) : l[2] = Row(i) /\ l[3] = "update"
LocksOK(u) == \A l \in locks : l[1] = u => LockOK(l)

\* A locked proposal is pending, and what it is about was locked before.
RowsGuarded(u) == \A i \in Ids : Locked(u, i) => Pending(i) /\ Guards(u, prop[i].target)

\* What an insert points at stays until it commits.
AnchorOK(u) == /\ \A t \in Things : Held(u, Thing(t), "share") => t \in alive
               /\ Held(u, Fin, "share") => Texts \subseteq alive

UserOK(u) == RequestOK(u) /\ AimOK(u) /\ LocksOK(u) /\ RowsGuarded(u) /\ AnchorOK(u)

Fields == DOMAIN Idle
FieldsOK == DOMAIN req = Users /\ \A u \in Users : DOMAIN req[u] = Fields
LockForm == \A l \in locks : l[1] \in Users /\ l = <<l[1], l[2], l[3]>>
Exclusive == \A k, l \in locks : k[2] = l[2] /\ Conflict(k[3], l[3]) => k[1] = l[1]
AliveForm == New \in alive /\ Texts \cap alive \in {{}, Texts}

PInv == /\ TypeOK /\ FieldsOK /\ LockForm /\ Exclusive /\ AliveForm /\ Fresh
        /\ \A u \in Users : UserOK(u)

-----------------------------------------------------------------------------
(* Rows, requests and the steps' shapes.                                   *)

LEMMA FieldsAre ==
  Fields = {"do", "p", "items", "olds", "base", "rest", "claims", "at", "falls", "sees"}
BY DEF Fields, Idle

LEMMA TargetsAre ==
  /\ Texts \cap Things = {} /\ Finding \notin Targets /\ New \notin Subnets \cup OfFinding
  /\ Targets \subseteq Int /\ \A t \in Targets : -1 <= t
BY TargetAssumption DEF Targets, OfFinding, Things, Finding, New

LEMMA ResourcesDiffer ==
  /\ \A i, t : Row(i) # Thing(t)
  /\ \A s, t : Thing(s) = Thing(t) => s = t
  /\ \A i, j : Row(i) = Row(j) => i = j
  /\ \A t \in Targets : Thing(t) # Fin
BY TargetsAre DEF Row, Thing, Fin

LEMMA RequestsAre ==
  ASSUME NEW items \in Requests
  PROVE  /\ Len(items) \in 1..2 /\ DOMAIN items = 1..Len(items)
         /\ \A k \in 1..Len(items) : items[k] \in Targets
         /\ Len(items) = 2 => items[1] # items[2] /\ items[1] \in Subnets /\ items[2] \in Subnets
         /\ Len(items) = 1 => items = <<items[1]>>
<1>1. CASE items \in {<<t>> : t \in Targets}
  BY <1>1
<1>2. CASE items \in {s \in Subnets \X Subnets : s[1] # s[2] /\ Len(s) <= MaxItems}
  <2>1. PICK a \in Subnets, b \in Subnets : items = <<a, b>>
    BY <1>2
  <2> QED
    BY <1>2, <2>1, TargetAssumption DEF Targets
<1> QED
  BY <1>1, <1>2 DEF Requests

\* A set of proposals has a first one to claim.
LEMMA LeastOf ==
  ASSUME NEW T \in SUBSET Int, T # {}, NEW n \in Int, \A x \in T : n <= x
  PROVE  \E x \in T : \A y \in T : x <= y
<1> DEFINE Above == {m \in Nat : \E x \in T : m = x - n}
<1>1. Above \subseteq Nat /\ Above # {}
  <2>1. PICK x \in T : TRUE
    OBVIOUS
  <2>2. x - n \in Above
    BY <2>1
  <2> QED
    BY <2>2
<1>2. PICK m \in Above : \A l \in Above : ~(<<l, m>> \in OpToRel(<, Nat))
  BY <1>1, NatLessThanWellFounded, WFMin
<1>3. PICK x \in T : m = x - n
  OBVIOUS
<1>4. ASSUME NEW y \in T PROVE x <= y
  <2>1. y - n \in Above
    OBVIOUS
  <2>2. ~(y - n < m)
    BY <1>1, <1>2, <2>1 DEF OpToRel
  <2> QED
    BY <1>3, <2>2
<1> QED
  BY <1>4

LEMMA FirstClaimIs ==
  ASSUME NEW S \in SUBSET (Ids \X Targets), S # {}
  PROVE  FirstClaim(S) \in S /\ \A o \in S \ {FirstClaim(S)} : Before(FirstClaim(S), o)
<1> DEFINE Heads == {o[2] : o \in S}
<1>1. PICK t \in Heads : \A s \in Heads : t <= s
  <2>1. Heads \subseteq Int /\ Heads # {} /\ \A s \in Heads : -1 <= s
    BY TargetsAre
  <2> HIDE DEF Heads
  <2> QED
    BY <2>1, LeastOf
<1> DEFINE Mine == {o[1] : o \in {o \in S : o[2] = t}}
<1>2. PICK i \in Mine : \A j \in Mine : i <= j
  <2>1. Mine \subseteq Int /\ Mine # {} /\ \A j \in Mine : 1 <= j
    BY <1>1, TargetAssumption DEF Ids
  <2> HIDE DEF Mine
  <2> QED
    BY <2>1, LeastOf
<1>3. <<i, t>> \in S
  BY <1>2
<1>4. ASSUME NEW o \in S \ {<<i, t>>} PROVE Before(<<i, t>>, o)
  <2>1. t <= o[2] /\ (o[2] = t => i <= o[1])
    BY <1>1, <1>2
  <2>2. o \in Ids \X Targets /\ i \in Ids /\ t \in Targets
    BY <1>3
  <2> HIDE DEF Heads, Mine
  <2>3. Ids \subseteq Int /\ Targets \subseteq Int
    BY TargetsAre, TargetAssumption DEF Ids
  <2>4. o[1] # i \/ o[2] # t
    BY <2>2
  <2>5. o[1] \in Int /\ o[2] \in Int /\ i \in Int /\ t \in Int
    BY <2>2, <2>3
  <2>6. t < o[2] \/ (t = o[2] /\ i < o[1])
    BY <2>1, <2>4, <2>5
  <2> QED
    BY <2>6 DEF Before
<1>5. \E o \in S : \A q \in S \ {o} : Before(o, q)
  BY <1>3, <1>4
<1> QED
  BY <1>5 DEF FirstClaim

LEMMA IdleFree ==
  ASSUME NEW u \in Users, UserOK(u), req[u].do = "idle"
  PROVE  \A l \in locks : l[1] # u
<1> SUFFICES ASSUME NEW l \in locks, l[1] = u PROVE FALSE
  OBVIOUS
<1> QED
  BY DEF UserOK, LocksOK, LockOK, Named

-----------------------------------------------------------------------------
(* What another user's step leaves as it was.                              *)

Kept(v) ==
  /\ \A r, m : Held(v, r, m)' <=> Held(v, r, m)
  /\ \A f \in Fields \ {"base"} : req'[v][f] = req[v][f]
  /\ \A S : req[v].base \in [S -> Bases] => req'[v].base \in [S -> Bases]
  /\ \A i \in Named(v) \cap DOMAIN prop' :
       i \in DOMAIN prop /\ prop'[i].target = prop[i].target /\ prop'[i].owner = prop[i].owner
  /\ \A i \in DOMAIN prop : Locked(v, i) /\ Pending(i) =>
       i \in DOMAIN prop' /\ prop'[i].status = "pending" /\ prop'[i].target = prop[i].target
  /\ req[v].do = "bulk applied" => prop'[req[v].p].base = prop[req[v].p].base
  /\ \A t \in Things : Held(v, Thing(t), "share") /\ t \in alive => t \in alive'
  /\ Held(v, Fin, "share") /\ Texts \subseteq alive => Texts \subseteq alive'

LEMMA KeptFields ==
  ASSUME NEW v \in Users, Kept(v)
  PROVE  /\ req'[v].do = req[v].do /\ req'[v].p = req[v].p /\ req'[v].items = req[v].items
         /\ req'[v].olds = req[v].olds /\ req'[v].rest = req[v].rest
         /\ req'[v].claims = req[v].claims /\ req'[v].at = req[v].at
         /\ req'[v].falls = req[v].falls /\ req'[v].sees = req[v].sees
         /\ \A i : Locked(v, i)' <=> Locked(v, i)
         /\ \A t : Guards(v, t)' <=> Guards(v, t)
         /\ \A t : Anchors(v, t)' <=> Anchors(v, t)
         /\ Named(v)' = Named(v) /\ Reserved(v)' = Reserved(v)
<1>1. /\ req'[v].do = req[v].do /\ req'[v].p = req[v].p /\ req'[v].items = req[v].items
      /\ req'[v].olds = req[v].olds /\ req'[v].rest = req[v].rest
      /\ req'[v].claims = req[v].claims /\ req'[v].at = req[v].at
      /\ req'[v].falls = req[v].falls /\ req'[v].sees = req[v].sees
  BY FieldsAre DEF Kept
<1>2. \A i : Locked(v, i)' <=> Locked(v, i)
  BY DEF Kept, Locked
<1>3. \A t : (Guards(v, t)' <=> Guards(v, t)) /\ (Anchors(v, t)' <=> Anchors(v, t))
  BY DEF Kept, Guards, Anchors
<1> QED
  BY <1>1, <1>2, <1>3 DEF Named, Reserved

LEMMA KeptDeciding ==
  ASSUME NEW v \in Users, Kept(v)
  PROVE  /\ \A i, t : Deciding(v, i, t)' <=> Deciding(v, i, t)
         /\ \A t : Inserting(v, t)' <=> Inserting(v, t)
         /\ \A t : Removing(v, t)' <=> Removing(v, t)
<1>1. \A r, m : Held(v, r, m)' <=> Held(v, r, m)
  BY DEF Kept
<1> QED
  BY <1>1, KeptFields DEF Deciding, Inserting, Removing

LEMMA KeptReplace ==
  ASSUME NEW v \in Users, Kept(v), RowsGuarded(v), ReplaceOK(v)
  PROVE  ReplaceOK(v)'
<1>1. ReplaceForm(v) /\ Named(v) = req[v].olds
  BY DEF ReplaceOK, ReplaceForm, Named
<1>2. \A i \in req[v].olds : i \in DOMAIN prop' => i \in DOMAIN prop /\ prop'[i].target = prop[i].target
  BY <1>1 DEF Kept
<1>3. \A i \in req[v].olds : Locked(v, i) => prop'[i].target = prop[i].target
  BY <1>1 DEF RowsGuarded, ReplaceForm, Pending, Kept
<1>4. ReplaceForm(v)'
  <2>1. req'[v].base \in [DOMAIN req'[v].items -> Bases]
    BY <1>1, KeptFields DEF ReplaceForm, Kept
  <2>2. \A c \in req[v].claims : c[1] \in req[v].olds
    BY <1>1 DEF ReplaceForm
  <2> QED
    BY <1>1, <1>2, <2>1, <2>2, KeptFields DEF ReplaceForm
<1>5. CASE req[v].at = 0 /\ \E i \in Ids, t \in Targets : Claiming(v, i, t)
  <2>1. PICK i \in Ids, t \in Targets : Claiming(v, i, t)
    BY <1>5
  <2>2. Claiming(v, i, t)'
    BY <2>1, <1>2, <1>3, KeptFields, KeptDeciding DEF Claiming
  <2> QED
    BY <2>2, <1>4, <1>5, KeptFields DEF ReplaceOK
<1>6. CASE Placing(v)
  <2>1. \A r, m : Held(v, r, m)' <=> Held(v, r, m)
    BY DEF Kept
  <2>2. Placing(v)'
    BY <1>6, <2>1, KeptFields DEF Placing, Anchors, Inserting
  <2> QED
    BY <2>2, <1>4 DEF ReplaceOK
<1> QED
  BY <1>5, <1>6 DEF ReplaceOK

LEMMA KeptRequest ==
  ASSUME NEW v \in Users, Kept(v), RowsGuarded(v), RequestOK(v)
  PROVE  RequestOK(v)'
<1>1. CASE IdleOK(v)
  BY <1>1, KeptFields DEF IdleOK, RequestOK
<1>2. CASE DecisionOK(v)
  <2>1. \A r, m : Held(v, r, m)' <=> Held(v, r, m)
    BY DEF Kept
  <2>2. DecisionOK(v)'
    BY <1>2, <2>1, KeptFields DEF DecisionOK, AboutTarget, Plain, Deciding
  <2> QED
    BY <2>2 DEF RequestOK
<1>3. CASE AcceptOK(v)
  <2>1. req[v].do = "bulk applied" => (Left(v, req[v].p)' <=> Left(v, req[v].p))
    <3>1. req[v].p \in DOMAIN prop /\ prop'[req[v].p].target = prop[req[v].p].target
      BY <1>3 DEF Kept, AcceptOK, RowsGuarded, Pending
    <3> QED
      BY <3>1, KeptFields DEF Kept, Left
  <2>2. AcceptOK(v)'
    BY <1>3, <2>1, KeptFields DEF AcceptOK, AboutTarget, Plain, Left
  <2> QED
    BY <2>2 DEF RequestOK
<1>4. CASE ReplaceOK(v)
  BY <1>4, KeptReplace DEF RequestOK
<1>5. CASE RemoveOK(v)
  <2>1. \A r, m : Held(v, r, m)' <=> Held(v, r, m)
    BY DEF Kept
  <2>2. RemoveOK(v)'
    BY <1>5, <2>1, KeptFields DEF RemoveOK, AboutTarget, Plain, Removing
  <2> QED
    BY <2>2 DEF RequestOK
<1> QED
  BY <1>1, <1>2, <1>3, <1>4, <1>5 DEF RequestOK

LEMMA KeptUser ==
  ASSUME NEW v \in Users, Kept(v), UserOK(v), LockForm'
  PROVE  UserOK(v)'
<1>1. RequestOK(v)'
  BY KeptRequest DEF UserOK
<1>2. AimOK(v)'
  <2> SUFFICES ASSUME NEW i \in Named(v)', i \in DOMAIN prop'
               PROVE  /\ \E k \in DOMAIN req'[v].items : prop'[i].target = req'[v].items[k]
                      /\ req'[v].do = "propose" => prop'[i].owner = v
    BY DEF AimOK
  <2>1. i \in Named(v) /\ i \in DOMAIN prop /\ prop'[i].target = prop[i].target /\ prop'[i].owner = prop[i].owner
    BY KeptFields DEF Kept
  <2> QED
    BY <2>1, KeptFields DEF UserOK, AimOK
<1>3. LocksOK(v)'
  <2> SUFFICES ASSUME NEW l \in locks', l[1] = v PROVE LockOK(l)'
    BY DEF LocksOK
  <2>1. l \in locks
    <3>1. PICK r, m : l = <<v, r, m>>
      BY DEF LockForm
    <3>2. Held(v, r, m)'
      BY <3>1 DEF Held
    <3>3. Held(v, r, m)
      BY <3>2 DEF Kept
    <3> QED
      BY <3>1, <3>3 DEF Held
  <2>2. LockOK(l)
    BY <2>1 DEF UserOK, LocksOK
  <2>3. Held(v, Fin, "nokey")' <=> Held(v, Fin, "nokey")
    BY DEF Kept
  <2> QED
    BY <2>2, <2>3, KeptFields DEF LockOK
<1>4. RowsGuarded(v)'
  <2> SUFFICES ASSUME NEW i \in Ids, Locked(v, i)' PROVE Pending(i)' /\ Guards(v, prop[i].target)'
    BY DEF RowsGuarded
  <2>1. Locked(v, i) /\ Pending(i) /\ Guards(v, prop[i].target)
    BY KeptFields DEF UserOK, RowsGuarded
  <2>2. i \in DOMAIN prop' /\ prop'[i].status = "pending" /\ prop'[i].target = prop[i].target
    BY <2>1 DEF Kept, Pending
  <2>3. Guards(v, prop[i].target)' <=> Guards(v, prop'[i].target)
    BY KeptFields DEF Guards, Kept
  <2> QED
    BY <2>1, <2>2, KeptFields DEF Pending, Guards, Kept
<1>5. AnchorOK(v)'
  BY DEF UserOK, AnchorOK, Kept
<1> QED
  BY <1>1, <1>2, <1>3, <1>4, <1>5 DEF UserOK

-----------------------------------------------------------------------------
(* What the acting user's own step makes of its locks.                     *)

\* A lock granted.
LEMMA Grant ==
  ASSUME NEW u \in Users, NEW r, NEW m, locks' = locks \cup {<<u, r, m>>}
  PROVE  /\ \A v, s, n : Held(v, s, n)' <=> Held(v, s, n) \/ (v = u /\ s = r /\ n = m)
         /\ \A t : Guards(u, t) => Guards(u, t)'
         /\ \A t : Anchors(u, t) => Anchors(u, t)'
         /\ \A i : Locked(u, i) => Locked(u, i)'
BY DEF Held, Guards, Anchors, Locked

\* The locks of a decision, one by one.
LEMMA DecidingOn ==
  ASSUME NEW u \in Users, NEW i, NEW t \in Targets, Deciding(u, i, t)
  PROVE  /\ req[u].rest # <<>>
         /\ \/ /\ t \in Texts /\ Head(req[u].rest) = <<Fin, "nokey">>
               /\ Tail(req[u].rest) = <<<<Row(i), "update">>>>
            \/ /\ t \in Endpoints /\ Head(req[u].rest) = <<Fin, "nokey">>
               /\ Tail(req[u].rest) = <<<<Thing(t), "update">>, <<Row(i), "update">>>>
            \/ /\ t \in Things /\ Head(req[u].rest) = <<Thing(t), "update">>
               /\ t \in Endpoints => Held(u, Fin, "nokey")
               /\ Tail(req[u].rest) = <<<<Row(i), "update">>>>
            \/ /\ Head(req[u].rest) = <<Row(i), "update">>
               /\ Tail(req[u].rest) = <<>> /\ Guards(u, t)
<1>1. CASE req[u].rest = DecisionLocks(i, t)
  <2>1. CASE t \in Texts
    BY <1>1, <2>1, TargetAssumption DEF DecisionLocks, Fin, OfFinding
  <2>2. CASE t \in Endpoints
    BY <1>1, <2>2, TargetAssumption DEF DecisionLocks, Fin, OfFinding
  <2>3. CASE t \in Subnets
    BY <1>1, <2>3, TargetAssumption DEF DecisionLocks, Things, OfFinding
  <2>4. CASE t = New
    <3>1. Guards(u, t) /\ DecisionLocks(i, t) = <<<<Row(i), "update">>>>
      BY <2>4, TargetsAre DEF Guards, DecisionLocks, Things, OfFinding
    <3> QED
      BY <1>1, <3>1
  <2> QED
    BY <2>1, <2>2, <2>3, <2>4 DEF Targets
<1>2. CASE /\ t \in Endpoints /\ Held(u, Fin, "nokey")
           /\ req[u].rest = <<<<Thing(t), "update">>, <<Row(i), "update">>>>
  BY <1>2 DEF Things
<1>3. CASE Guards(u, t) /\ req[u].rest = <<<<Row(i), "update">>>>
  BY <1>3
<1> QED
  BY <1>1, <1>2, <1>3 DEF Deciding

LEMMA DecidingGrant ==
  ASSUME NEW u \in Users, NEW i, NEW t \in Targets, Deciding(u, i, t),
         NEW r, NEW m, Head(req[u].rest) = <<r, m>>, locks' = locks \cup {<<u, r, m>>},
         Tail(req[u].rest) # <<>>, req'[u].rest = Tail(req[u].rest)
  PROVE  Deciding(u, i, t)' /\ \A j : r # Row(j)
<1>1. CASE t \in Texts /\ r = Fin /\ m = "nokey" /\ Tail(req[u].rest) = <<<<Row(i), "update">>>>
  <2>1. Guards(u, t)'
    BY <1>1, Grant, TargetAssumption DEF Guards, OfFinding, Things
  <2> QED
    BY <1>1, <2>1, ResourcesDiffer DEF Deciding, Fin
<1>2. CASE /\ t \in Endpoints /\ r = Fin /\ m = "nokey"
           /\ Tail(req[u].rest) = <<<<Thing(t), "update">>, <<Row(i), "update">>>>
  <2>1. Held(u, Fin, "nokey")'
    BY <1>2 DEF Held
  <2>2. \A j : r # Row(j)
    BY <1>2, ResourcesDiffer DEF Fin
  <2> QED
    BY <1>2, <2>1, <2>2 DEF Deciding
<1>3. CASE /\ t \in Things /\ r = Thing(t) /\ m = "update"
           /\ t \in Endpoints => Held(u, Fin, "nokey")
           /\ Tail(req[u].rest) = <<<<Row(i), "update">>>>
  <2>1. Guards(u, t)'
    BY <1>3, Grant, TargetAssumption DEF Guards, OfFinding, Things
  <2> QED
    BY <1>3, <2>1, ResourcesDiffer DEF Deciding
<1> QED
  BY <1>1, <1>2, <1>3, DecidingOn

\* From one old proposal to the next, and on to the inserts.
LEMMA OnwardReplace ==
  ASSUME NEW u \in Users, NEW q, DOMAIN q = Fields, req'[u] = Onward(q),
         q.do = "propose", q.rest = <<>>, q.falls = {}, q.sees = {},
         q.items \in Requests, q.base \in [DOMAIN q.items -> Bases],
         q.p \in Ids, q.p + Len(q.items) <= MaxIds + 1,
         q.olds \in SUBSET Ids, q.claims \in SUBSET (q.olds \X Targets),
         q.at \in 0..Len(q.items), q.claims # {} => q.at = 0,
         \A c \in q.claims : /\ c[1] \in DOMAIN prop' => prop'[c[1]].target = c[2]
                             /\ \E k \in DOMAIN q.items : q.items[k] = c[2],
         \A j \in q.olds : Locked(u, j)' \/ \E s \in Targets : <<j, s>> \in q.claims,
         \A j \in q.olds, c \in q.claims : Locked(u, j)' => Before(<<j, prop'[j].target>>, c),
         \A k \in 1..q.at : Anchors(u, q.items[k])'
  PROVE  ReplaceOK(u)'
<1>1. CASE q.claims # {}
  <2> DEFINE o == FirstClaim(q.claims)
  <2>1. o \in q.claims /\ \A c \in q.claims \ {o} : Before(o, c)
    BY <1>1, FirstClaimIs
  <2>2. PICK i \in q.olds, t \in Targets : o = <<i, t>>
    BY <2>1
  <2> HIDE DEF o
  <2>3. Onward(q) = [q EXCEPT !.rest = DecisionLocks(i, t), !.claims = @ \ {o}]
    BY <1>1, <2>2 DEF Onward, o
  <2>4. /\ req'[u].do = "propose" /\ req'[u].p = q.p /\ req'[u].items = q.items
        /\ req'[u].olds = q.olds /\ req'[u].rest = DecisionLocks(i, t) /\ req'[u].base = q.base
        /\ req'[u].claims = q.claims \ {o} /\ req'[u].at = 0
        /\ req'[u].falls = {} /\ req'[u].sees = {}
    BY <1>1, <2>3, FieldsAre
  <2>5. ReplaceForm(u)'
    BY <1>1, <2>4 DEF ReplaceForm
  <2>6. Claiming(u, i, t)'
    <3>1. \A j \in q.olds \ {i} : Locked(u, j)' \/ \E s \in Targets : <<j, s>> \in q.claims \ {o}
      BY <2>2
    <3> QED
      BY <2>1, <2>2, <2>4, <3>1 DEF Claiming, Deciding
  <2> QED
    BY <2>4, <2>5, <2>6 DEF ReplaceOK
<1>2. CASE q.claims = {} /\ q.at < Len(q.items)
  <2> DEFINE k == q.at + 1
  <2>1. k \in 1..Len(q.items) /\ q.items[k] \in Targets
    BY <1>2, RequestsAre
  <2>2. Onward(q) = [q EXCEPT !.rest = InsertLocks(q.items[k]), !.at = @ + 1]
    BY <1>2 DEF Onward
  <2>3. /\ req'[u].do = "propose" /\ req'[u].p = q.p /\ req'[u].items = q.items
        /\ req'[u].olds = q.olds /\ req'[u].rest = InsertLocks(q.items[k]) /\ req'[u].base = q.base
        /\ req'[u].claims = {} /\ req'[u].at = k
        /\ req'[u].falls = {} /\ req'[u].sees = {}
    BY <1>2, <2>2, FieldsAre
  <2>4. ReplaceForm(u)'
    BY <2>1, <2>3 DEF ReplaceForm
  <2>5. CASE q.items[k] = New
    <3>1. InsertLocks(New) = <<>> /\ Anchors(u, New)'
      BY TargetsAre DEF InsertLocks, Anchors, OfFinding, Things
    <3>2. Len(q.items) = 1
      <4>1. Len(q.items) \in 1..2 /\ (Len(q.items) = 2 => q.items[1] # New /\ q.items[2] # New)
        BY RequestsAre, TargetsAre
      <4> QED
        BY <2>1, <2>5, <4>1
    <3>3. k = 1 /\ q.at = 0
      BY <2>1, <3>2
    <3>4. Placing(u)'
      BY <1>2, <2>3, <2>5, <3>1, <3>2, <3>3 DEF Placing
    <3> QED
      BY <2>4, <3>4 DEF ReplaceOK
  <2>6. CASE q.items[k] # New
    <3>1. InsertLocks(q.items[k]) # <<>>
      BY <2>1, <2>6 DEF InsertLocks, Targets
    <3>2. Placing(u)'
      BY <1>2, <2>1, <2>3, <3>1 DEF Placing, Inserting
    <3> QED
      BY <2>4, <3>2 DEF ReplaceOK
  <2> QED
    BY <2>5, <2>6
<1>3. CASE q.claims = {} /\ q.at = Len(q.items)
  <2>1. Onward(q) = q /\ Len(q.items) > 0
    BY <1>3, RequestsAre DEF Onward
  <2>2. ReplaceForm(u)'
    BY <1>3, <2>1 DEF ReplaceForm
  <2>3. Placing(u)'
    BY <1>3, <2>1, RequestsAre DEF Placing
  <2> QED
    BY <2>2, <2>3 DEF ReplaceOK
<1>4. Len(q.items) \in Nat
  BY RequestsAre
<1> QED
  BY <1>1, <1>2, <1>3, <1>4

-----------------------------------------------------------------------------
(* Every step keeps the invariant.                                         *)

\* One that changes no row leaves the other users as they were.
LEMMA KeptQuietly ==
  ASSUME NEW v \in Users, prop' = prop, alive' = alive, req'[v] = req[v],
         \A r, m : Held(v, r, m)' <=> Held(v, r, m)
  PROVE  Kept(v)
BY DEF Kept, Pending

LEMMA IdsAreNat == Ids \subseteq Nat /\ \A n \in 1..(MaxIds + 1) : n \in Nat
BY TargetAssumption DEF Ids

LEMMA FreshStep ==
  ASSUME Fresh, NEW u \in Users, \A v \in Users \ {u} : Kept(v),
         next \in Nat, next' \in Nat, next <= next',
         \A i \in DOMAIN prop' : i \in DOMAIN prop \cup Reserved(u),
         \A i \in Named(u)' \cup Reserved(u)' : i < next',
         Reserved(u)' \cap DOMAIN prop' = {}, Reserved(u)' \cap Named(u)' = {},
         \A v \in Users \ {u} : Named(u)' \cap Reserved(v) = {} /\ Reserved(u)' \cap Reserved(v) = {}
                                /\ Reserved(u)' \cap Named(v) = {},
         DOMAIN prop \subseteq Nat, \A v \in Users : Named(v) \cup Reserved(v) \subseteq Ids,
         Reserved(u)' \subseteq Ids, \A i \in Reserved(u)' : i \in Reserved(u) \/ next <= i,
         \A i \in Ids : i \notin DOMAIN prop => applied'[i] = applied[i]
  PROVE  Fresh'
<1>1. \A v \in Users \ {u} : Named(v)' = Named(v) /\ Reserved(v)' = Reserved(v)
  BY KeptFields
<1>a. \A v \in Users : Named(v) \cup Reserved(v) \subseteq Nat
  BY IdsAreNat
<1>2. \A i \in DOMAIN prop' : i < next'
  BY <1>a DEF Fresh
<1>3. \A v \in Users : \A i \in Named(v)' \cup Reserved(v)' : i < next'
  BY <1>1, <1>a DEF Fresh
<1>4. \A v \in Users : Reserved(v)' \cap DOMAIN prop' = {}
  BY <1>1 DEF Fresh
<1>5. \A v, w \in Users : Named(v)' \cap Reserved(w)' = {} /\ (v # w => Reserved(v)' \cap Reserved(w)' = {})
  BY <1>1 DEF Fresh
<1>6. \A i \in Ids : next' <= i => applied'[i] = 0
  <2>1. \A i \in Ids : next' <= i => next <= i /\ i \notin DOMAIN prop
    BY IdsAreNat DEF Fresh
  <2> QED
    BY <2>1 DEF Fresh
<1>7. \A v \in Users : \A i \in Reserved(v)' : applied'[i] = 0
  <2>1. ASSUME NEW i \in Ids, next <= i PROVE applied'[i] = 0
    <3>1. i \notin DOMAIN prop
      BY <2>1, IdsAreNat DEF Fresh
    <3> QED
      BY <2>1, <3>1 DEF Fresh
  <2>2. \A v \in Users : \A i \in Reserved(v) : applied'[i] = 0
    BY DEF Fresh
  <2> QED
    BY <1>1, <2>1, <2>2
<1> QED
  BY <1>2, <1>3, <1>4, <1>5, <1>6, <1>7 DEF Fresh

\* What the requests name are ids.
LEMMA NamesAreIds ==
  ASSUME NEW u \in Users, RequestOK(u)
  PROVE  Named(u) \subseteq Ids /\ Reserved(u) \subseteq Ids
<1>1. CASE ReplaceOK(u)
  <2>1. /\ Named(u) = req[u].olds /\ Reserved(u) = req[u].p..(req[u].p + Len(req[u].items) - 1)
        /\ req[u].olds \subseteq Ids /\ req[u].p \in 1..MaxIds
        /\ req[u].p + Len(req[u].items) <= MaxIds + 1 /\ Len(req[u].items) \in Nat
    BY <1>1, RequestsAre DEF ReplaceOK, ReplaceForm, Named, Reserved, Ids
  <2> QED
    BY <2>1, TargetAssumption DEF Ids
<1>2. CASE ~ReplaceOK(u)
  BY <1>2 DEF RequestOK, IdleOK, DecisionOK, AcceptOK, RemoveOK, Named, Reserved
<1> QED
  BY <1>1, <1>2

\* The form in which the lemmas on actions use the invariant.
LEMMA Parts ==
  ASSUME PInv
  PROVE  /\ next \in Nat /\ DOMAIN prop \subseteq Nat
         /\ \A v \in Users : Named(v) \cup Reserved(v) \subseteq Ids
BY NamesAreIds, IdsAreNat DEF PInv, TypeOK, UserOK

LEMMA BeginStep ==
  ASSUME PInv, NEW u \in Users, NEW r, NEW n \in Nat, Begin(u, r, n), next + n <= MaxIds + 1,
         DOMAIN r = Fields, (RequestOK(u) /\ AimOK(u))',
         Named(u)' \subseteq DOMAIN prop, Reserved(u)' \subseteq Ids,
         \A i \in Reserved(u)' : next <= i /\ i < next + n
  PROVE  PInv'
<1>1. \A v \in Users \ {u} : Kept(v)
  <2> SUFFICES ASSUME NEW v \in Users \ {u} PROVE Kept(v)
    OBVIOUS
  <2>1. \A s, m : Held(v, s, m)' <=> Held(v, s, m)
    BY DEF Held, Begin
  <2> QED
    BY <2>1, KeptQuietly DEF Begin, PInv, FieldsOK
<1>2. /\ prop' = prop /\ locks' = locks /\ alive' = alive /\ applied' = applied
      /\ bulk' = None /\ next' = next + n
  BY DEF Begin
<1>3. TypeOK'
  BY <1>2, TargetAssumption DEF PInv, TypeOK, Pending
<1>4. FieldsOK' /\ LockForm' /\ Exclusive' /\ AliveForm'
  BY <1>2, FieldsAre DEF PInv, FieldsOK, LockForm, Exclusive, AliveForm, Begin
<1>5. Fresh'
  <2>1. next' \in Nat /\ next <= next'
    BY <1>2, Parts
  <2>2. \A i \in DOMAIN prop : i < next
    BY DEF PInv, Fresh
  <2>3. \A i \in Named(u)' \cup Reserved(u)' : i < next'
    BY <1>2, <2>1, <2>2, Parts
  <2>4. Reserved(u)' \cap DOMAIN prop = {}
    BY <2>2, Parts
  <2>5. \A v \in Users \ {u} : Named(u)' \cap Reserved(v) = {}
    BY DEF PInv, Fresh
  <2>6. \A v \in Users \ {u} : Reserved(u)' \cap Reserved(v) = {} /\ Reserved(u)' \cap Named(v) = {}
    <3>1. \A v \in Users : \A i \in Named(v) \cup Reserved(v) : i < next
      BY DEF PInv, Fresh
    <3>2. \A v \in Users : Named(v) \cup Reserved(v) \subseteq Nat
      BY Parts, IdsAreNat
    <3> QED
      BY <3>1, <3>2, Parts
  <2>7. Reserved(u)' \cap Named(u)' = {}
    BY <2>4
  <2> QED
    BY <1>1, <1>2, <2>1, <2>3, <2>4, <2>5, <2>6, <2>7, Parts, FreshStep DEF PInv
<1>6. UserOK(u)'
  <2>1. \A l \in locks' : l[1] # u
    BY <1>2, IdleFree DEF PInv, Begin, Idle
  <2>2. \A s, m : ~Held(u, s, m)'
    BY <2>1 DEF Held
  <2> QED
    BY <2>1, <2>2 DEF UserOK, LocksOK, RowsGuarded, AnchorOK, Locked
<1>7. \A v \in Users \ {u} : UserOK(v)'
  BY <1>1, <1>4, KeptUser DEF PInv
<1> QED
  BY <1>3, <1>4, <1>5, <1>6, <1>7 DEF PInv

LEMMA DecideStep ==
  ASSUME PInv, NEW u \in Users, NEW i \in Ids, NEW how \in {"accept", "bulk", "reject"},
         Decide(u, i, how)
  PROVE  PInv'
<1> DEFINE t == prop[i].target
           r == [Idle EXCEPT !.do = how, !.p = i, !.items = <<t>>, !.rest = DecisionLocks(i, t)]
<1>1. t \in Targets /\ i \in DOMAIN prop
  BY DEF PInv, TypeOK, Proposal, Decide
<1>2. req'[u] = r /\ Begin(u, r, 0) /\ prop' = prop
  BY DEF Decide, Begin, PInv, FieldsOK
<1>3. /\ r.do = how /\ r.p = i /\ r.items = <<t>> /\ r.rest = DecisionLocks(i, t)
      /\ r.olds = {} /\ r.claims = {} /\ r.at = 0 /\ r.falls = {} /\ r.sees = {}
      /\ DOMAIN r = Fields
  BY FieldsAre DEF Idle
<1> HIDE DEF r
<1>4. RequestOK(u)'
  BY <1>1, <1>2, <1>3 DEF RequestOK, DecisionOK, AboutTarget, Plain, Deciding
<1>5. Named(u)' = {i} /\ Reserved(u)' = {}
  BY <1>2, <1>3 DEF Named, Reserved
<1>6. AimOK(u)'
  <2>1. 1 \in DOMAIN <<t>> /\ <<t>>[1] = t
    OBVIOUS
  <2> QED
    BY <1>2, <1>3, <1>5, <2>1 DEF AimOK
<1>7. next + 0 <= MaxIds + 1
  BY TargetAssumption DEF PInv, TypeOK
<1> QED
  BY <1>1, <1>2, <1>3, <1>4, <1>5, <1>6, <1>7, BeginStep

LEMMA DeleteTargetStep ==
  ASSUME PInv, NEW u \in Users, NEW t \in Targets, DeleteTarget(u, t)
  PROVE  PInv'
<1> DEFINE r == [Idle EXCEPT !.do = "remove", !.items = <<t>>, !.rest = RemovalLocks(t),
                             !.falls = IF t \in Texts THEN Endpoints ELSE {}]
<1>2. req'[u] = r /\ Begin(u, r, 0) /\ prop' = prop /\ t # New
  BY DEF DeleteTarget, Begin, PInv, FieldsOK
<1>3. /\ r.do = "remove" /\ r.items = <<t>> /\ r.rest = RemovalLocks(t)
      /\ r.olds = {} /\ r.claims = {} /\ r.at = 0 /\ r.sees = {}
      /\ r.falls = IF t \in Texts THEN Endpoints ELSE {}
      /\ DOMAIN r = Fields
  BY FieldsAre DEF Idle
<1> HIDE DEF r
<1>4. RequestOK(u)'
  BY <1>2, <1>3 DEF RequestOK, RemoveOK, AboutTarget, Plain, Removing
<1>5. Named(u)' = {} /\ Reserved(u)' = {}
  BY <1>2, <1>3 DEF Named, Reserved
<1>6. AimOK(u)'
  BY <1>5 DEF AimOK
<1>7. next + 0 <= MaxIds + 1
  BY TargetAssumption DEF PInv, TypeOK
<1> QED
  BY <1>2, <1>3, <1>4, <1>5, <1>6, <1>7, BeginStep

LEMMA ProposeStep ==
  ASSUME PInv, NEW u \in Users, NEW items \in Requests, NEW olds \in SUBSET DOMAIN prop,
         Propose(u, items, olds)
  PROVE  PInv'
<1> DEFINE base == [k \in DOMAIN items |-> IF items[k] \in Superseding THEN "same" ELSE "unknown"]
           claims == {<<i, prop[i].target>> : i \in olds}
<1>0. PICK q : q = [Idle EXCEPT !.do = "propose", !.p = next, !.items = items, !.olds = olds,
                                !.base = base, !.claims = claims]
  OBVIOUS
<1>1. req'[u] = Onward(q) /\ Begin(u, Onward(q), Len(items)) /\ prop' = prop /\ locks' = locks
  BY <1>0 DEF Propose, Begin, PInv, FieldsOK
<1>2. /\ DOMAIN q = Fields /\ q.do = "propose" /\ q.p = next /\ q.items = items /\ q.olds = olds
      /\ q.base = base /\ q.claims = claims /\ q.rest = <<>> /\ q.at = 0
      /\ q.falls = {} /\ q.sees = {}
  BY <1>0, FieldsAre DEF Idle
<1>3. /\ next + Len(items) <= MaxIds + 1 /\ Len(items) \in 1..2 /\ DOMAIN items = 1..Len(items)
      /\ next \in 1..(MaxIds + 1)
  BY RequestsAre DEF Propose, PInv, TypeOK
<1>4. olds \subseteq Ids /\ \A i \in olds : i \in DOMAIN prop /\ prop[i].target \in Targets
  BY DEF PInv, TypeOK, Proposal
<1>5. base \in [DOMAIN items -> Bases]
  BY DEF Bases
<1>6. claims \subseteq olds \X Targets
  BY <1>4
<1>7. \A r, m : ~Held(u, r, m)'
  BY <1>1, IdleFree DEF PInv, Propose, Begin, Idle, Held
<1> HIDE DEF base
<1>8. ReplaceOK(u)'
  <2>1. \A j \in olds : \E s \in Targets : <<j, s>> \in claims
    BY <1>4
  <2>2. \A c \in claims : /\ c[1] \in DOMAIN prop' => prop'[c[1]].target = c[2]
                          /\ \E k \in DOMAIN items : items[k] = c[2]
    BY <1>1 DEF Propose, MayReplace
  <2> HIDE DEF claims
  <2>3. next \in Ids
    BY <1>3, TargetAssumption DEF Ids
  <2> QED
    <3>1. \A j : ~Locked(u, j)'
      BY <1>7 DEF Locked
    <3>2. \A k \in 1..q.at : Anchors(u, q.items[k])'
      BY <1>2
    <3>3. q.at \in 0..Len(q.items) /\ q.p + Len(q.items) <= MaxIds + 1
      BY <1>2, <1>3
    <3>4. \A j \in q.olds : Locked(u, j)' \/ \E s \in Targets : <<j, s>> \in q.claims
      BY <1>2, <2>1
    <3>5. q.base \in [DOMAIN q.items -> Bases] /\ q.p \in Ids /\ q.olds \in SUBSET Ids
          /\ q.claims \in SUBSET (q.olds \X Targets) /\ q.items \in Requests
      BY <1>2, <1>4, <1>5, <1>6, <2>3
    <3> QED
      BY <1>1, <1>2, <2>2, <3>1, <3>2, <3>3, <3>4, <3>5, OnwardReplace
<1>9. /\ req'[u].do = "propose" /\ req'[u].p = next /\ req'[u].items = items
      /\ req'[u].olds = olds /\ DOMAIN Onward(q) = Fields
  BY <1>1, <1>2, FieldsAre DEF Onward
<1>10. Named(u)' = olds /\ Reserved(u)' = next..(next + Len(items) - 1)
  BY <1>9 DEF Named, Reserved
<1>11. AimOK(u)'
  <2>1. \A i \in olds : prop[i].owner = u /\ \E k \in DOMAIN items : prop[i].target = items[k]
    BY DEF Propose, MayReplace
  <2> QED
    BY <1>1, <1>9, <1>10, <2>1 DEF AimOK
<1>12. \A i \in Reserved(u)' : next <= i /\ i < next + Len(items)
  BY <1>3, <1>10, TargetAssumption
<1>13. RequestOK(u)'
  BY <1>8 DEF RequestOK
<1>14. Reserved(u)' \subseteq Ids
  BY <1>3, <1>10, TargetAssumption DEF Ids
<1> QED
  BY <1>1, <1>3, <1>9, <1>10, <1>11, <1>12, <1>13, <1>14, BeginStep

\* Locks granted to u, and nothing else but its own request.
LEMMA GrantStep ==
  ASSUME PInv, NEW u \in Users, locks \subseteq locks',
         \A l \in locks' \ locks : l[1] = u /\ l = <<u, l[2], l[3]>> /\ Free(u, l[2], l[3]),
         UNCHANGED <<prop, next, alive, applied>>, bulk' = None,
         DOMAIN req' = Users, DOMAIN req'[u] = Fields, \A v \in Users \ {u} : req'[v] = req[v],
         Named(u)' \subseteq Named(u) \cup DOMAIN prop, Reserved(u)' = Reserved(u),
         UserOK(u)'
  PROVE  PInv'
<1>1. \A v \in Users \ {u} : Kept(v)
  <2> SUFFICES ASSUME NEW v \in Users \ {u} PROVE Kept(v)
    OBVIOUS
  <2>1. \A s, m : Held(v, s, m)' <=> Held(v, s, m)
    BY DEF Held
  <2> QED
    BY <2>1, KeptQuietly
<1>2. TypeOK'
  BY DEF PInv, TypeOK, Pending
<1>3. FieldsOK' /\ LockForm' /\ AliveForm'
  BY DEF PInv, FieldsOK, LockForm, AliveForm
<1>4. Exclusive'
  <2>1. \A k \in locks, l \in locks' \ locks : k[2] = l[2] /\ Conflict(k[3], l[3]) => k[1] = u
    BY DEF Free, Holders
  <2>2. \A m, n : Conflict(m, n) <=> Conflict(n, m)
    BY DEF Conflict
  <2> QED
    BY <2>1, <2>2 DEF PInv, Exclusive
<1>5. Fresh'
  <2>1. \A i \in Named(u)' \cup Reserved(u)' : i < next'
    BY DEF PInv, Fresh
  <2>2. Reserved(u)' \cap DOMAIN prop' = {} /\ Reserved(u)' \cap Named(u)' = {}
    BY DEF PInv, Fresh
  <2>3. \A v \in Users \ {u} : Named(u)' \cap Reserved(v) = {} /\ Reserved(u)' \cap Reserved(v) = {}
                               /\ Reserved(u)' \cap Named(v) = {}
    BY DEF PInv, Fresh
  <2>4. next' \in Nat /\ next <= next'
    BY Parts
  <2> QED
    BY <1>1, <2>1, <2>2, <2>3, <2>4, Parts, FreshStep DEF PInv
<1>6. \A v \in Users \ {u} : UserOK(v)'
  BY <1>1, <1>3, KeptUser DEF PInv
<1> QED
  BY <1>2, <1>3, <1>4, <1>5, <1>6 DEF PInv

\* The lock a request takes next is granted.
Granted(u, r, m) ==
  /\ req[u].rest # <<>> /\ Head(req[u].rest) = <<r, m>> /\ ~Refused(r, m) /\ Free(u, r, m)
  /\ locks' = locks \cup {<<u, r, m>>}
  /\ DOMAIN req' = Users /\ \A v \in Users \ {u} : req'[v] = req[v]
  /\ req'[u] = Onward([req[u] EXCEPT !.rest = Tail(@)])
  /\ bulk' = None
  /\ UNCHANGED <<prop, next, alive, applied>>

\* It is one the request was on its way to.
Expected(u, r, m) ==
  /\ RequestOK(u)' /\ LockOK(<<u, r, m>>)'
  /\ \A i \in Ids : r = Row(i) => Guards(u, prop[i].target)'

LEMMA OnwardIs ==
  ASSUME NEW q, q.rest # <<>> \/ (q.claims = {} /\ q.do # "propose")
  PROVE  Onward(q) = q
BY DEF Onward

LEMMA OnwardKeeps ==
  ASSUME NEW q, DOMAIN q = Fields, q.at \in Nat
  PROVE  /\ DOMAIN Onward(q) = Fields /\ Onward(q).do = q.do /\ Onward(q).p = q.p
         /\ Onward(q).items = q.items /\ Onward(q).olds = q.olds
         /\ Onward(q).falls = q.falls /\ Onward(q).sees = q.sees
         /\ Onward(q).at = q.at \/ Onward(q).at = q.at + 1
         /\ q.claims = {} /\ Onward(q).at = q.at => Onward(q).rest = q.rest
<1>1. CASE q.rest = <<>> /\ q.claims = {} /\ q.do = "propose" /\ q.at < Len(q.items)
  <2>1. Onward(q).at = q.at + 1
    BY <1>1, FieldsAre DEF Onward
  <2> QED
    BY <1>1, <2>1, FieldsAre DEF Onward
<1>2. CASE ~(q.rest = <<>> /\ q.claims = {} /\ q.do = "propose" /\ q.at < Len(q.items))
  BY <1>2, FieldsAre DEF Onward
<1> QED
  BY <1>1, <1>2

LEMMA GrantedDecision ==
  ASSUME PInv, NEW u \in Users, NEW r, NEW m, Granted(u, r, m), DecisionOK(u)
  PROVE  Expected(u, r, m)
<1>1. PICK q : q = [req[u] EXCEPT !.rest = Tail(@)]
  OBVIOUS
<1>2. PICK t \in Targets : req[u].items = <<t>>
  BY DEF DecisionOK, AboutTarget
<1>3. PICK i \in Ids : req[u].p = i
  BY DEF DecisionOK
<1>4. Deciding(u, i, t)
  BY <1>2, <1>3 DEF DecisionOK, Granted
<1>5. /\ req'[u].do = req[u].do /\ req'[u].p = i /\ req'[u].items = <<t>>
      /\ req'[u].olds = {} /\ req'[u].claims = {} /\ req'[u].at = 0 /\ req'[u].falls = {}
      /\ req'[u].sees = {} /\ req'[u].rest = Tail(req[u].rest)
  <2>1. /\ q.do = req[u].do /\ q.p = i /\ q.items = <<t>> /\ q.olds = {} /\ q.claims = {} /\ q.at = 0
        /\ q.falls = {} /\ q.sees = {} /\ q.rest = Tail(req[u].rest)
    BY <1>1, <1>2, <1>3, FieldsAre DEF PInv, FieldsOK, DecisionOK, Plain
  <2>2. Onward(q) = q
    BY <2>1, OnwardIs DEF DecisionOK
  <2>3. req'[u] = q
    BY <1>1, <2>2 DEF Granted
  <2> QED
    BY <2>1, <2>3
<1>6. Named(u)' = {i} /\ req'[u].do \in {"accept", "bulk", "reject"}
  BY <1>5 DEF Named, DecisionOK
<1>7. CASE Tail(req[u].rest) # <<>>
  <2>1. Deciding(u, i, t)' /\ \A j : r # Row(j)
    BY <1>4, <1>5, <1>7, DecidingGrant DEF Granted
  <2>2. RequestOK(u)'
    BY <1>5, <1>6, <2>1 DEF RequestOK, DecisionOK, AboutTarget, Plain
  <2>3. \/ r = Fin /\ m = "nokey" /\ t \in OfFinding
        \/ /\ t \in Things /\ r = Thing(t) /\ m = "update"
           /\ t \in Endpoints => Held(u, Fin, "nokey")
    BY <1>4, <1>7, DecidingOn DEF Granted, OfFinding
  <2>4. t \in Endpoints /\ r # Fin => Held(u, Fin, "nokey")'
    BY <2>3, Grant DEF Granted
  <2>5. 1 \in DOMAIN <<t>> /\ <<t>>[1] = t
    OBVIOUS
  <2>6. LockOK(<<u, r, m>>)'
    BY <1>5, <1>6, <2>3, <2>4, <2>5, ResourcesDiffer DEF LockOK, Things, OfFinding, Targets
  <2> QED
    BY <2>1, <2>2, <2>6 DEF Expected
<1>8. CASE Tail(req[u].rest) = <<>>
  <2>1. r = Row(i) /\ m = "update" /\ Guards(u, t)
    <3>1. \A x : <<x>> # <<>>
      OBVIOUS
    <3>2. \A x, y : <<x, y>> # <<>>
      OBVIOUS
    <3>3. Head(req[u].rest) = <<Row(i), "update">> /\ Guards(u, t)
      BY <1>4, <1>8, <3>1, <3>2, DecidingOn
    <3> QED
      BY <3>3 DEF Granted
  <2>2. Locked(u, i)' /\ Guards(u, t)'
    BY <2>1, Grant DEF Granted, Locked, Held
  <2>3. RequestOK(u)'
    BY <1>5, <1>6, <1>8, <2>2 DEF RequestOK, DecisionOK, AboutTarget, Plain
  <2>4. LockOK(<<u, r, m>>)'
    BY <1>6, <2>1 DEF LockOK
  <2>5. prop'[i].target = t
    <3>1. i \in Named(u) /\ i \in DOMAIN prop
      BY <1>3, <2>1 DEF Named, DecisionOK, Granted, Refused, Pending, Row
    <3> QED
      BY <1>2, <3>1 DEF PInv, UserOK, AimOK, Granted
  <2> QED
    BY <2>1, <2>2, <2>3, <2>4, <2>5, ResourcesDiffer DEF Expected, Guards
<1> QED
  BY <1>7, <1>8

LEMMA GrantedClaim ==
  ASSUME PInv, NEW u \in Users, NEW r, NEW m, Granted(u, r, m), ReplaceForm(u), req[u].at = 0,
         NEW i, NEW t, Claiming(u, i, t)
  PROVE  Expected(u, r, m)
<1>1. PICK q : q = [req[u] EXCEPT !.rest = Tail(@)]
  OBVIOUS
<1>2. /\ q.do = "propose" /\ q.p = req[u].p /\ q.items = req[u].items /\ q.olds = req[u].olds
      /\ q.claims = req[u].claims /\ q.at = 0 /\ q.falls = {} /\ q.sees = {}
      /\ q.base = req[u].base /\ q.rest = Tail(req[u].rest) /\ DOMAIN q = Fields
  BY <1>1, FieldsAre DEF PInv, FieldsOK, ReplaceForm
<1>3. req'[u] = Onward(q) /\ prop' = prop
  BY <1>1 DEF Granted
<1>4. i \in Ids /\ i \in req[u].olds /\ t \in Targets /\ Deciding(u, i, t)
  BY DEF Claiming, ReplaceForm
<1>5. PICK k \in DOMAIN q.items : q.items[k] = t
  BY <1>2 DEF Claiming
<1>6. req'[u].do = "propose" /\ req'[u].items = q.items /\ req'[u].olds = q.olds /\ Named(u)' = q.olds
  <2>1. q.at \in Nat
    BY <1>2
  <2>2. Onward(q).do = q.do /\ Onward(q).items = q.items /\ Onward(q).olds = q.olds
    BY <1>2, <2>1, OnwardKeeps
  <2>3. req'[u].do = "propose" /\ req'[u].items = q.items /\ req'[u].olds = q.olds
    BY <1>2, <1>3, <2>2
  <2> QED
    BY <2>3 DEF Named
<1>7. CASE Tail(req[u].rest) # <<>>
  <2>1. req'[u] = q
    BY <1>2, <1>3, <1>7, OnwardIs
  <2>2. Deciding(u, i, t)' /\ \A j : r # Row(j)
    BY <1>2, <1>4, <1>7, <2>1, DecidingGrant DEF Granted
  <2>3. \A j : Locked(u, j)' <=> Locked(u, j)
    BY <2>2 DEF Granted, Locked, Held
  <2>4. ReplaceForm(u)'
    BY <1>2, <1>3, <2>1 DEF ReplaceForm
  <2>5. Claiming(u, i, t)'
    BY <1>2, <1>3, <2>1, <2>2, <2>3 DEF Claiming
  <2>6. RequestOK(u)'
    BY <1>2, <1>4, <2>1, <2>4, <2>5 DEF RequestOK, ReplaceOK
  <2>7. \/ r = Fin /\ m = "nokey" /\ t \in OfFinding
        \/ /\ t \in Things /\ r = Thing(t) /\ m = "update"
           /\ t \in Endpoints => Held(u, Fin, "nokey")
    BY <1>4, <1>7, DecidingOn DEF Granted, OfFinding
  <2>8. t \in Endpoints /\ r # Fin => Held(u, Fin, "nokey")'
    BY <2>7, Grant DEF Granted
  <2>9. LockOK(<<u, r, m>>)'
    BY <1>5, <1>6, <2>7, <2>8, ResourcesDiffer DEF LockOK, Things, OfFinding, Targets
  <2> QED
    BY <2>2, <2>6, <2>9 DEF Expected
<1>8. CASE Tail(req[u].rest) = <<>>
  <2>1. r = Row(i) /\ m = "update" /\ Guards(u, t)
    <3>1. \A x : <<x>> # <<>>
      OBVIOUS
    <3>2. \A x, y : <<x, y>> # <<>>
      OBVIOUS
    <3>3. Head(req[u].rest) = <<Row(i), "update">> /\ Guards(u, t)
      BY <1>4, <1>8, <3>1, <3>2, DecidingOn
    <3> QED
      BY <3>3 DEF Granted
  <2>2. Locked(u, i)' /\ Guards(u, t)' /\ \A j : Locked(u, j)' <=> Locked(u, j) \/ j = i
    BY <2>1, ResourcesDiffer DEF Granted, Locked, Held, Guards
  <2>3. i \in DOMAIN prop /\ prop[i].target = t
    BY <2>1 DEF Granted, Refused, Pending, Row, Claiming
  <2>4. \A j \in q.olds : Locked(u, j)' \/ \E s \in Targets : <<j, s>> \in q.claims
    BY <1>2, <2>2 DEF Claiming
  <2>5. \A j \in q.olds, c \in q.claims : Locked(u, j)' => Before(<<j, prop'[j].target>>, c)
    <3> SUFFICES ASSUME NEW j \in q.olds, NEW c \in q.claims, Locked(u, j)'
                 PROVE  Before(<<j, prop[j].target>>, c)
      BY <1>3
    <3>1. Before(<<i, t>>, c)
      BY <1>2 DEF Claiming
    <3>2. CASE j = i
      BY <2>3, <3>1, <3>2
    <3>3. CASE j # i
      <4>1. Before(<<j, prop[j].target>>, <<i, t>>) /\ j \in Ids /\ j \in DOMAIN prop
        BY <1>2, <2>2, <3>3 DEF Claiming, ReplaceForm, PInv, UserOK, RowsGuarded, Pending
      <4>2. prop[j].target \in Targets /\ c \in Ids \X Targets
        BY <1>2, <4>1 DEF PInv, TypeOK, Proposal, ReplaceForm
      <4>3. PICK a \in Targets : prop[j].target = a
        BY <4>2
      <4>4. Targets \subseteq Int /\ Ids \subseteq Int
        BY TargetsAre, IdsAreNat
      <4>5. a \in Int /\ t \in Int /\ j \in Int /\ i \in Int /\ c[1] \in Int /\ c[2] \in Int
        BY <1>4, <4>1, <4>2, <4>4
      <4>6. Before(<<j, a>>, <<i, t>>)
        BY <4>1, <4>3
      <4>7. Before(<<j, a>>, c)
        BY <3>1, <4>5, <4>6 DEF Before
      <4> QED
        BY <4>3, <4>7
    <3> QED
      BY <3>2, <3>3
  <2>6. \A c \in q.claims : /\ c[1] \in DOMAIN prop' => prop'[c[1]].target = c[2]
                            /\ \E h \in DOMAIN q.items : q.items[h] = c[2]
    BY <1>2, <1>3 DEF ReplaceForm
  <2>7. \A h \in 1..q.at : Anchors(u, q.items[h])'
    BY <1>2
  <2>8. /\ q.items \in Requests /\ q.base \in [DOMAIN q.items -> Bases] /\ q.p \in Ids
        /\ q.p + Len(q.items) <= MaxIds + 1 /\ q.olds \in SUBSET Ids
        /\ q.claims \in SUBSET (q.olds \X Targets) /\ q.at \in 0..Len(q.items)
    BY <1>2 DEF ReplaceForm
  <2>9. ReplaceOK(u)'
    BY <1>2, <1>3, <1>8, <2>4, <2>5, <2>6, <2>7, <2>8, OnwardReplace
  <2>10. LockOK(<<u, r, m>>)'
    BY <1>2, <1>4, <1>6, <2>1 DEF LockOK
  <2> QED
    BY <1>3, <2>1, <2>2, <2>3, <2>9, <2>10, ResourcesDiffer DEF Expected, RequestOK, Guards
<1> QED
  BY <1>7, <1>8

\* The locks of an insert, one by one.
LEMMA InsertingOn ==
  ASSUME NEW u \in Users, NEW t \in Targets, Inserting(u, t)
  PROVE  \/ /\ t \in Texts /\ Head(req[u].rest) = <<Fin, "share">>
            /\ Tail(req[u].rest) = <<>>
         \/ /\ t \in Endpoints /\ Head(req[u].rest) = <<Fin, "share">>
            /\ Tail(req[u].rest) = <<<<Thing(t), "share">>>>
         \/ /\ t \in Things /\ Head(req[u].rest) = <<Thing(t), "share">>
            /\ Tail(req[u].rest) = <<>> /\ (t \in Endpoints => Held(u, Fin, "share"))
<1>1. CASE req[u].rest = InsertLocks(t) /\ req[u].rest # <<>>
  <2>1. CASE t \in Texts
    BY <1>1, <2>1 DEF InsertLocks, Fin
  <2>2. CASE t \in Endpoints
    BY <1>1, <2>2, TargetAssumption DEF InsertLocks, Fin
  <2>3. CASE t \in Subnets
    BY <1>1, <2>3, TargetAssumption DEF InsertLocks, Things, OfFinding
  <2>4. CASE t = New
    BY <1>1, <2>4, TargetsAre DEF InsertLocks, OfFinding
  <2> QED
    BY <2>1, <2>2, <2>3, <2>4 DEF Targets
<1>2. CASE /\ t \in Endpoints /\ Held(u, Fin, "share")
           /\ req[u].rest = <<<<Thing(t), "share">>>>
  BY <1>2 DEF Things
<1> QED
  BY <1>1, <1>2 DEF Inserting

LEMMA GrantedInsert ==
  ASSUME PInv, NEW u \in Users, NEW r, NEW m, Granted(u, r, m), ReplaceForm(u), Placing(u)
  PROVE  Expected(u, r, m)
<1>1. PICK q : q = [req[u] EXCEPT !.rest = Tail(@)]
  OBVIOUS
<1>2. /\ q.do = "propose" /\ q.p = req[u].p /\ q.items = req[u].items /\ q.olds = req[u].olds
      /\ q.claims = {} /\ q.at = req[u].at /\ q.falls = {} /\ q.sees = {}
      /\ q.base = req[u].base /\ q.rest = Tail(req[u].rest) /\ DOMAIN q = Fields
  BY <1>1, FieldsAre DEF PInv, FieldsOK, ReplaceForm, Placing
<1>3. req'[u] = Onward(q) /\ prop' = prop
  BY <1>1 DEF Granted
<1>4. /\ q.items \in Requests /\ q.at \in 1..Len(q.items) /\ Len(q.items) \in Nat
      /\ DOMAIN q.items = 1..Len(q.items) /\ q.at \in Nat
  <2>1. req[u].items \in Requests /\ req[u].at \in 0..Len(req[u].items) /\ req[u].at > 0
    BY DEF ReplaceForm, Placing
  <2>2. Len(req[u].items) \in 1..2 /\ DOMAIN req[u].items = 1..Len(req[u].items)
    BY <2>1, RequestsAre
  <2> QED
    BY <1>2, <2>1, <2>2
<1>5. PICK t \in Targets : t = q.items[q.at]
  BY <1>4, RequestsAre
<1>6. Inserting(u, t)
  BY <1>2, <1>5 DEF Placing, Granted
<1>7. /\ \A i : Locked(u, i) => Locked(u, i)'
      /\ \A s : Anchors(u, s) => Anchors(u, s)'
      /\ Held(u, r, m)' /\ (Held(u, Fin, "share") => Held(u, Fin, "share")')
  <2>1. locks' = locks \cup {<<u, r, m>>}
    BY DEF Granted
  <2>2. \A s, n : Held(u, s, n)' <=> Held(u, s, n) \/ (s = r /\ n = m)
    BY <2>1, Grant
  <2> QED
    BY <2>2 DEF Locked, Anchors
<1>8. (\A i \in req[u].olds : Locked(u, i)') /\ \A k \in 1..(q.at - 1) : Anchors(u, q.items[k])'
  BY <1>2, <1>7 DEF Placing
<1>9. CASE Tail(req[u].rest) # <<>>
  <2>1. /\ t \in Endpoints /\ r = Fin /\ m = "share"
        /\ q.rest = <<<<Thing(t), "share">>>>
    BY <1>2, <1>6, <1>9, InsertingOn DEF Granted
  <2>2. req'[u] = q
    BY <1>2, <1>3, <1>9, OnwardIs
  <2>3. ReplaceForm(u)'
    BY <1>2, <1>3, <2>2 DEF ReplaceForm
  <2>4. Inserting(u, t)'
    BY <1>7, <2>1, <2>2 DEF Inserting
  <2>5. Placing(u)'
    BY <1>2, <1>4, <1>5, <1>8, <2>2, <2>4 DEF Placing, Inserting
  <2>6. LockOK(<<u, r, m>>)'
    BY <1>2, <1>4, <1>5, <2>1, <2>2 DEF LockOK, OfFinding
  <2>7. RequestOK(u)'
    BY <2>3, <2>5 DEF RequestOK, ReplaceOK
  <2> QED
    BY <2>1, <2>6, <2>7, ResourcesDiffer DEF Expected, Fin
<1>10. CASE Tail(req[u].rest) = <<>>
  <2>1. \A x : <<x>> # <<>>
    OBVIOUS
  <2>2. \/ t \in Texts /\ r = Fin /\ m = "share"
        \/ t \in Things /\ r = Thing(t) /\ m = "share" /\ (t \in Endpoints => Held(u, Fin, "share"))
    BY <1>6, <1>10, <2>1, InsertingOn DEF Granted
  <2>3. Anchors(u, t)'
    BY <1>7, <2>2, TargetAssumption DEF Anchors, Things, OfFinding
  <2>4. \A k \in 1..q.at : Anchors(u, q.items[k])'
    <3> SUFFICES ASSUME NEW k \in 1..q.at PROVE Anchors(u, q.items[k])'
      OBVIOUS
    <3>1. CASE k = q.at
      BY <1>5, <2>3, <3>1 DEF Anchors
    <3>2. CASE k # q.at
      <4>1. k \in 1..(q.at - 1)
        BY <1>4, <3>2
      <4> QED
        BY <1>8, <4>1
    <3> QED
      BY <3>1, <3>2
  <2>5. ReplaceOK(u)'
    <3>1. /\ q.items \in Requests /\ q.base \in [DOMAIN q.items -> Bases] /\ q.p \in Ids
          /\ q.p + Len(q.items) <= MaxIds + 1 /\ q.olds \in SUBSET Ids
          /\ q.claims \in SUBSET (q.olds \X Targets) /\ q.at \in 0..Len(q.items)
      BY <1>2 DEF ReplaceForm
    <3>2. \A j \in q.olds : Locked(u, j)' \/ \E s \in Targets : <<j, s>> \in q.claims
      BY <1>2, <1>8
    <3>3. q.rest = <<>>
      BY <1>2, <1>10
    <3> QED
      BY <1>2, <1>3, <2>4, <3>1, <3>2, <3>3, OnwardReplace
  <2>6. /\ req'[u].do = "propose" /\ req'[u].items = q.items
        /\ \/ req'[u].at = q.at /\ req'[u].rest = <<>>
           \/ req'[u].at = q.at + 1
    <3>1. /\ Onward(q).do = q.do /\ Onward(q).items = q.items
          /\ Onward(q).at = q.at \/ Onward(q).at = q.at + 1
          /\ q.claims = {} /\ Onward(q).at = q.at => Onward(q).rest = q.rest
      BY <1>2, <1>4, OnwardKeeps
    <3> QED
      BY <1>2, <1>3, <1>10, <3>1
  <2>7. LockOK(<<u, r, m>>)'
    <3>1. q.at \in 1..req'[u].at /\ (q.at = req'[u].at => req'[u].rest = <<>>) /\ req'[u].at > 0
      BY <1>4, <2>6
    <3>2. req'[u].items[q.at] = t
      BY <1>5, <2>6
    <3>3. CASE t \in Texts /\ r = Fin /\ m = "share"
      BY <2>6, <3>1, <3>2, <3>3 DEF LockOK, OfFinding
    <3>4. CASE t \in Things /\ r = Thing(t) /\ m = "share"
      BY <2>6, <3>1, <3>2, <3>4 DEF LockOK
    <3> QED
      BY <2>2, <3>3, <3>4
  <2>8. \A j : r # Row(j)
    BY <2>2, ResourcesDiffer DEF Fin
  <2> QED
    BY <2>5, <2>7, <2>8, IdsAreNat DEF Expected, RequestOK
<1> QED
  BY <1>9, <1>10

\* The locks of a removal, one by one.
LEMMA RemovingOn ==
  ASSUME NEW u \in Users, NEW t \in Targets, t # New, Removing(u, t)
  PROVE  \/ /\ t \in OfFinding /\ Head(req[u].rest) = <<Fin, "nokey">>
            /\ Tail(req[u].rest) = <<IF t \in Texts THEN <<Fin, "update">> ELSE <<Thing(t), "update">>>>
         \/ /\ t \in Texts /\ Head(req[u].rest) = <<Fin, "update">> /\ Held(u, Fin, "nokey")
            /\ Tail(req[u].rest) = <<>>
         \/ /\ t \in Things /\ Head(req[u].rest) = <<Thing(t), "update">>
            /\ (t \in Endpoints => Held(u, Fin, "nokey")) /\ Tail(req[u].rest) = <<>>
<1>1. CASE req[u].rest = RemovalLocks(t)
  <2>1. CASE t \in Texts
    BY <1>1, <2>1 DEF RemovalLocks, Fin, OfFinding
  <2>2. CASE t \in Endpoints
    BY <1>1, <2>2, TargetAssumption DEF RemovalLocks, Fin, OfFinding
  <2>3. CASE t \in Subnets
    BY <1>1, <2>3, TargetAssumption DEF RemovalLocks, Things, OfFinding
  <2> QED
    BY <2>1, <2>2, <2>3 DEF Targets
<1>2. CASE /\ t \in OfFinding /\ Held(u, Fin, "nokey")
           /\ req[u].rest = <<IF t \in Texts THEN <<Fin, "update">> ELSE <<Thing(t), "update">>>>
  BY <1>2 DEF OfFinding, Things
<1> QED
  BY <1>1, <1>2 DEF Removing

LEMMA GrantedRemoval ==
  ASSUME PInv, NEW u \in Users, NEW r, NEW m, Granted(u, r, m), RemoveOK(u)
  PROVE  Expected(u, r, m)
<1>1. PICK q : q = [req[u] EXCEPT !.rest = Tail(@)]
  OBVIOUS
<1>2. PICK t \in Targets : req[u].items = <<t>>
  BY DEF RemoveOK, AboutTarget
<1>3. /\ req'[u].do = "remove" /\ req'[u].items = <<t>> /\ req'[u].olds = {} /\ req'[u].claims = {}
      /\ req'[u].at = 0 /\ req'[u].falls = req[u].falls /\ req'[u].sees = {}
      /\ req'[u].rest = Tail(req[u].rest)
  <2>1. /\ q.do = "remove" /\ q.items = <<t>> /\ q.olds = {} /\ q.claims = {} /\ q.at = 0
        /\ q.falls = req[u].falls /\ q.sees = {} /\ q.rest = Tail(req[u].rest)
    BY <1>1, <1>2, FieldsAre DEF PInv, FieldsOK, RemoveOK, Plain
  <2>2. Onward(q) = q
    BY <2>1, OnwardIs
  <2>3. req'[u] = q
    BY <1>1, <2>2 DEF Granted
  <2> QED
    BY <2>1, <2>3
<1>4. /\ Removing(u, t) /\ t # New /\ (t \in Texts => req[u].falls = Endpoints)
      /\ req[u].falls \in SUBSET Endpoints /\ (t \notin Texts => req[u].falls = {})
  BY <1>2 DEF RemoveOK, Granted
<1>5. \/ /\ t \in OfFinding /\ r = Fin /\ m = "nokey"
         /\ Tail(req[u].rest) = <<IF t \in Texts THEN <<Fin, "update">> ELSE <<Thing(t), "update">>>>
      \/ t \in Texts /\ r = Fin /\ m = "update" /\ Held(u, Fin, "nokey") /\ Tail(req[u].rest) = <<>>
      \/ /\ t \in Things /\ r = Thing(t) /\ m = "update" /\ (t \in Endpoints => Held(u, Fin, "nokey"))
         /\ Tail(req[u].rest) = <<>>
  BY <1>4, RemovingOn DEF Granted
<1>6. \A j : r # Row(j)
  BY <1>5, ResourcesDiffer DEF Fin
<1>7. 1 \in DOMAIN <<t>> /\ <<t>>[1] = t
  OBVIOUS
<1>8. Held(u, r, m)' /\ (Held(u, Fin, "nokey") => Held(u, Fin, "nokey")')
  BY DEF Held, Granted
<1>9. RequestOK(u)'
  <2>1. CASE /\ t \in OfFinding /\ r = Fin /\ m = "nokey"
             /\ Tail(req[u].rest) = <<IF t \in Texts THEN <<Fin, "update">> ELSE <<Thing(t), "update">>>>
    <3>1. Removing(u, t)'
      BY <1>3, <1>8, <2>1 DEF Removing
    <3>2. Removing(u, <<t>>[1])'
      BY <1>7, <3>1 DEF Removing
    <3> QED
      BY <1>3, <1>4, <3>2 DEF RequestOK, RemoveOK, AboutTarget, Plain
  <2>2. CASE t \in Texts /\ r = Fin /\ m = "update" /\ Held(u, Fin, "nokey") /\ Tail(req[u].rest) = <<>>
    <3>1. Guards(u, t)'
      BY <1>8, <2>2, TargetsAre DEF Guards, Things, OfFinding
    <3> QED
      BY <1>3, <1>4, <1>8, <2>2, <3>1 DEF RequestOK, RemoveOK, AboutTarget, Plain
  <2>3. CASE /\ t \in Things /\ r = Thing(t) /\ m = "update" /\ (t \in Endpoints => Held(u, Fin, "nokey"))
             /\ Tail(req[u].rest) = <<>>
    <3>1. Guards(u, t)' /\ t \notin Texts
      BY <1>8, <2>3, TargetAssumption DEF Guards, Things, OfFinding
    <3> QED
      BY <1>3, <1>4, <2>3, <3>1 DEF RequestOK, RemoveOK, AboutTarget, Plain
  <2> QED
    BY <1>5, <2>1, <2>2, <2>3
<1>10. LockOK(<<u, r, m>>)'
  <2>1. CASE t \in OfFinding /\ r = Fin /\ m = "nokey"
    BY <1>3, <1>7, <2>1 DEF LockOK
  <2>2. CASE t \in Texts /\ r = Fin /\ m = "update" /\ Tail(req[u].rest) = <<>>
    BY <1>3, <1>7, <2>2 DEF LockOK
  <2>3. CASE t \in Things /\ r = Thing(t) /\ m = "update" /\ (t \in Endpoints => Held(u, Fin, "nokey"))
    BY <1>3, <1>7, <1>8, <2>3 DEF LockOK
  <2> QED
    BY <1>5, <2>1, <2>2, <2>3
<1> QED
  BY <1>6, <1>9, <1>10, IdsAreNat DEF Expected

LEMMA GrantedKeeps ==
  ASSUME PInv, NEW u \in Users, NEW r, NEW m, Granted(u, r, m)
  PROVE  /\ DOMAIN req'[u] = Fields /\ req'[u].do = req[u].do /\ req'[u].p = req[u].p
         /\ req'[u].items = req[u].items /\ req'[u].olds = req[u].olds /\ req'[u].sees = req[u].sees
         /\ req[u].at \in Nat /\ (req'[u].at = req[u].at \/ req'[u].at = req[u].at + 1)
         /\ Named(u)' = Named(u) /\ Reserved(u)' = Reserved(u)
<1>1. PICK q : q = [req[u] EXCEPT !.rest = Tail(@)]
  OBVIOUS
<1>2. /\ q.do = req[u].do /\ q.p = req[u].p /\ q.items = req[u].items /\ q.olds = req[u].olds
      /\ q.at = req[u].at /\ q.sees = req[u].sees /\ DOMAIN q = Fields
  BY <1>1, FieldsAre DEF PInv, FieldsOK
<1>3. req[u].at \in Nat
  <2>1. DecisionOK(u) \/ AcceptOK(u) \/ ReplaceOK(u) \/ RemoveOK(u)
    BY DEF Granted, PInv, UserOK, RequestOK, IdleOK
  <2>2. CASE ReplaceOK(u)
    BY <2>2, RequestsAre DEF ReplaceOK, ReplaceForm
  <2>3. CASE DecisionOK(u) \/ AcceptOK(u) \/ RemoveOK(u)
    <3>1. Plain(req[u])
      BY <2>3 DEF DecisionOK, AcceptOK, RemoveOK
    <3> QED
      BY <3>1 DEF Plain
  <2> QED
    BY <2>1, <2>2, <2>3
<1>4. req'[u] = Onward(q)
  BY <1>1 DEF Granted
<1>5. /\ DOMAIN Onward(q) = Fields /\ Onward(q).do = q.do /\ Onward(q).p = q.p
      /\ Onward(q).items = q.items /\ Onward(q).olds = q.olds /\ Onward(q).sees = q.sees
      /\ (Onward(q).at = q.at \/ Onward(q).at = q.at + 1)
  BY <1>2, <1>3, OnwardKeeps
<1>6. /\ DOMAIN req'[u] = Fields /\ req'[u].do = req[u].do /\ req'[u].p = req[u].p
      /\ req'[u].items = req[u].items /\ req'[u].olds = req[u].olds /\ req'[u].sees = req[u].sees
      /\ (req'[u].at = req[u].at \/ req'[u].at = req[u].at + 1)
  BY <1>2, <1>4, <1>5
<1> QED
  BY <1>3, <1>6 DEF Named, Reserved

LEMMA GrantedLock ==
  ASSUME PInv, NEW u \in Users, NEW r, NEW m, Granted(u, r, m)
  PROVE  Expected(u, r, m)
<1>1. DecisionOK(u) \/ ReplaceOK(u) \/ RemoveOK(u)
  BY DEF Granted, PInv, UserOK, RequestOK, IdleOK, AcceptOK
<1>2. CASE ReplaceOK(u)
  <2>1. ReplaceForm(u)
    BY <1>2 DEF ReplaceOK
  <2>2. CASE req[u].at = 0 /\ \E i \in Ids, t \in Targets : Claiming(u, i, t)
    BY <2>1, <2>2, GrantedClaim
  <2>3. CASE Placing(u)
    BY <2>1, <2>3, GrantedInsert
  <2> QED
    BY <1>2, <2>2, <2>3 DEF ReplaceOK
<1> QED
  BY <1>1, <1>2, GrantedDecision, GrantedRemoval

\* The locks it had are still what it is about.
LEMMA OldLocks ==
  ASSUME PInv, NEW u \in Users, NEW r, NEW m, Granted(u, r, m), NEW l \in locks, l[1] = u
  PROVE  LockOK(l)'
<1>1. /\ req'[u].do = req[u].do /\ req'[u].items = req[u].items
      /\ req[u].at \in Nat /\ (req'[u].at = req[u].at \/ req'[u].at = req[u].at + 1)
      /\ Named(u)' = Named(u)
  BY GrantedKeeps
<1>2. LockOK(l) /\ req[u].rest # <<>>
  BY DEF PInv, UserOK, LocksOK, Granted
<1>3. Held(u, Fin, "nokey") => Held(u, Fin, "nokey")'
  BY Grant DEF Granted
<1>4. \A k \in 1..req[u].at : k \in 1..req'[u].at /\ (k # req[u].at => k # req'[u].at)
  BY <1>1
<1>5. CASE /\ l[2] = Fin /\ l[3] = "share"
           /\ req[u].do = "propose" /\ req[u].at > 0 /\ \E k \in 1..req[u].at : req[u].items[k] \in OfFinding
  BY <1>1, <1>4, <1>5 DEF LockOK
<1>6. CASE /\ l[2] = Fin /\ l[3] = "nokey"
           /\ req[u].do # "idle" /\ \E k \in DOMAIN req[u].items : req[u].items[k] \in OfFinding
  BY <1>1, <1>6 DEF LockOK
<1>7. CASE \E t \in Things :
             /\ l[2] = Thing(t) /\ l[3] = "share" /\ req[u].do = "propose"
             /\ \E k \in 1..req[u].at : req[u].items[k] = t /\ (k = req[u].at => req[u].rest = <<>>)
  BY <1>1, <1>2, <1>4, <1>7 DEF LockOK
<1>8. CASE \E t \in Things :
             /\ l[2] = Thing(t) /\ l[3] = "update"
             /\ req[u].do # "idle" /\ \E k \in DOMAIN req[u].items : req[u].items[k] = t
             /\ t \in Endpoints => Held(u, Fin, "nokey")
  BY <1>1, <1>3, <1>8 DEF LockOK
<1>9. CASE \E i \in Named(u) : l[2] = Row(i) /\ l[3] = "update"
  BY <1>1, <1>9 DEF LockOK
<1> QED
  BY <1>2, <1>5, <1>6, <1>7, <1>8, <1>9 DEF LockOK

LEMMA GrantedStep ==
  ASSUME PInv, NEW u \in Users, NEW r, NEW m, Granted(u, r, m)
  PROVE  PInv'
<1>1. Expected(u, r, m)
  BY GrantedLock
<1>2. /\ prop' = prop /\ alive' = alive /\ locks' = locks \cup {<<u, r, m>>}
      /\ ~Refused(r, m)
  BY DEF Granted
<1>3. /\ DOMAIN req'[u] = Fields /\ req'[u].do = req[u].do /\ req'[u].items = req[u].items
      /\ Named(u)' = Named(u) /\ Reserved(u)' = Reserved(u)
  BY GrantedKeeps
<1>4. AimOK(u)'
  BY <1>2, <1>3 DEF AimOK, PInv, UserOK
<1>5. LocksOK(u)'
  <2> SUFFICES ASSUME NEW l \in locks', l[1] = u PROVE LockOK(l)'
    BY DEF LocksOK
  <2>1. CASE l \in locks
    BY <2>1, OldLocks
  <2>2. CASE l = <<u, r, m>>
    BY <1>1, <2>2 DEF Expected, LockOK
  <2> QED
    BY <1>2, <2>1, <2>2
<1>6. \A s, n : Held(u, s, n)' <=> Held(u, s, n) \/ (s = r /\ n = m)
  BY <1>2, Grant
<1>7. RowsGuarded(u)'
  <2> SUFFICES ASSUME NEW i \in Ids, Locked(u, i)' PROVE Pending(i)' /\ Guards(u, prop[i].target)'
    BY DEF RowsGuarded
  <2>1. Pending(i)' <=> Pending(i)
    BY <1>2 DEF Pending
  <2>2. CASE Locked(u, i)
    <3>1. Pending(i) /\ Guards(u, prop[i].target)
      BY <2>2 DEF PInv, UserOK, RowsGuarded
    <3> QED
      BY <1>2, <1>6, <2>1, <3>1 DEF Guards
  <2>3. CASE r = Row(i)
    <3>1. Pending(i)
      BY <1>2, <2>3 DEF Refused, Row
    <3> QED
      BY <1>1, <1>2, <2>1, <2>3, <3>1 DEF Expected, Guards
  <2> QED
    BY <1>6, <2>2, <2>3 DEF Locked
<1>8. AnchorOK(u)'
  <2>1. ASSUME NEW t \in Things, Held(u, Thing(t), "share")' PROVE t \in alive
    <3>1. CASE Held(u, Thing(t), "share")
      BY <3>1 DEF PInv, UserOK, AnchorOK
    <3>2. CASE r = Thing(t) /\ m = "share"
      <4>1. r[1] = "target" /\ r[2] = t
        BY <3>2 DEF Thing
      <4> QED
        BY <1>2, <3>2, <4>1, TargetsAre DEF Refused, Things, Targets, OfFinding
    <3> QED
      BY <1>6, <2>1, <3>1, <3>2
  <2>2. ASSUME Held(u, Fin, "share")' PROVE Texts \subseteq alive
    <3>1. CASE Held(u, Fin, "share")
      BY <3>1 DEF PInv, UserOK, AnchorOK
    <3>2. CASE r = Fin /\ m = "share"
      <4>1. r[1] = "target" /\ r[2] = Finding
        BY <3>2 DEF Thing, Fin
      <4>2. Finding \notin alive
        BY TargetsAre DEF PInv, TypeOK
      <4> QED
        BY <1>2, <3>2, <4>1, <4>2 DEF Refused, PInv, AliveForm
    <3> QED
      BY <1>6, <2>2, <3>1, <3>2
  <2> QED
    BY <1>2, <2>1, <2>2 DEF AnchorOK
<1>9. UserOK(u)'
  BY <1>1, <1>4, <1>5, <1>7, <1>8 DEF UserOK, Expected
<1>10. \A l \in locks' \ locks : l[1] = u /\ l = <<u, l[2], l[3]>> /\ Free(u, l[2], l[3])
  BY <1>2 DEF Granted
<1> QED
  BY <1>2, <1>3, <1>9, <1>10, GrantStep DEF Granted

\* A request ends, and its locks go.
LEMMA EndKeeps ==
  ASSUME PInv, NEW u \in Users, locks' = {l \in locks : l[1] # u}
  PROVE  /\ \A v \in Users \ {u} : \A r, m : Held(v, r, m)' <=> Held(v, r, m)
         /\ \A r, m : ~Held(u, r, m)'
         /\ LockForm' /\ Exclusive'
BY DEF Held, PInv, LockForm, Exclusive

LEMMA IdleUser ==
  ASSUME NEW u \in Users, req'[u] = Idle, \A l \in locks' : l[1] # u
  PROVE  UserOK(u)' /\ Named(u)' = {} /\ Reserved(u)' = {}
<1>1. \A r, m : ~Held(u, r, m)'
  BY DEF Held
<1>2. req'[u].do = "idle" /\ req'[u].rest = <<>> /\ req'[u].falls = {}
  BY DEF Idle
<1>3. Named(u)' = {} /\ Reserved(u)' = {}
  BY <1>2 DEF Named, Reserved
<1> QED
  BY <1>1, <1>2, <1>3 DEF UserOK, RequestOK, IdleOK, AimOK, LocksOK, RowsGuarded, AnchorOK, Locked

\* The end of a request: what is left to show of each one that ends.
LEMMA EndStep ==
  ASSUME PInv, NEW u \in Users, TypeOK', AliveForm', FieldsOK', next' = next,
         locks' = {l \in locks : l[1] # u}, req'[u] = Idle,
         DOMAIN prop' \subseteq DOMAIN prop \cup Reserved(u),
         \A i \in Ids : i \notin DOMAIN prop => applied'[i] = applied[i],
         \A v \in Users \ {u} : Kept(v)
  PROVE  PInv'
<1>1. UserOK(u)' /\ Named(u)' = {} /\ Reserved(u)' = {}
  BY IdleUser
<1>2. LockForm' /\ Exclusive'
  BY EndKeeps
<1>3. Fresh'
  BY <1>1, Parts, FreshStep DEF PInv
<1>4. \A v \in Users \ {u} : UserOK(v)'
  BY <1>2, KeptUser DEF PInv
<1> QED
  BY <1>1, <1>2, <1>3, <1>4 DEF PInv

LEMMA LeaveStep ==
  ASSUME PInv, NEW u \in Users, Leave(u)
  PROVE  PInv'
<1>1. /\ prop' = prop /\ alive' = alive /\ next' = next /\ applied' = applied /\ bulk' = None
      /\ locks' = {l \in locks : l[1] # u} /\ req'[u] = Idle
      /\ \A v \in Users \ {u} : req'[v] = req[v]
  BY DEF Leave, End, PInv, FieldsOK
<1>2. FieldsOK'
  BY <1>1, FieldsAre DEF Leave, End, PInv, FieldsOK, Fields
<1>3. TypeOK' /\ AliveForm'
  BY <1>1 DEF PInv, TypeOK, AliveForm
<1>4. \A v \in Users \ {u} : Kept(v)
  BY <1>1, EndKeeps, KeptQuietly
<1> QED
  BY <1>1, <1>2, <1>3, <1>4, EndStep

\* A request that is still taking locks: on its way to one of these.
LEMMA OnTheWay ==
  ASSUME PInv, NEW u \in Users, req[u].rest # <<>>
  PROVE  \/ \E i \in Ids, t \in Targets :
              DecisionOK(u) /\ req[u].p = i /\ req[u].items = <<t>> /\ Deciding(u, i, t)
         \/ \E i \in Ids, t \in Targets :
              ReplaceForm(u) /\ req[u].at = 0 /\ Claiming(u, i, t) /\ Deciding(u, i, t)
         \/ \E t \in Targets :
              ReplaceForm(u) /\ Placing(u) /\ req[u].at \in 1..Len(req[u].items)
              /\ t = req[u].items[req[u].at] /\ Inserting(u, t)
         \/ \E t \in Targets : RemoveOK(u) /\ t # New /\ req[u].items = <<t>> /\ Removing(u, t)
<1>1. CASE DecisionOK(u)
  <2>1. PICK t \in Targets : req[u].items = <<t>>
    BY <1>1 DEF DecisionOK, AboutTarget
  <2>2. PICK i \in Ids : req[u].p = i
    BY <1>1 DEF DecisionOK
  <2>3. Deciding(u, i, t)
    BY <1>1, <2>1, <2>2 DEF DecisionOK
  <2> QED
    BY <1>1, <2>1, <2>2, <2>3
<1>2. CASE ReplaceOK(u)
  <2>1. CASE req[u].at = 0 /\ \E i \in Ids, t \in Targets : Claiming(u, i, t)
    BY <1>2, <2>1 DEF ReplaceOK, Claiming
  <2>2. CASE Placing(u)
    <3>1. req[u].at \in 1..Len(req[u].items) /\ req[u].items \in Requests
      BY <1>2, <2>2, RequestsAre DEF ReplaceOK, ReplaceForm, Placing
    <3>2. PICK t \in Targets : t = req[u].items[req[u].at]
      BY <3>1, RequestsAre
    <3>3. Inserting(u, t)
      BY <2>2, <3>2 DEF Placing
    <3> QED
      BY <1>2, <2>2, <3>1, <3>2, <3>3 DEF ReplaceOK
  <2> QED
    BY <1>2, <2>1, <2>2 DEF ReplaceOK
<1>3. CASE RemoveOK(u)
  <2>1. PICK t \in Targets : req[u].items = <<t>> /\ t # New
    BY <1>3 DEF RemoveOK, AboutTarget
  <2>2. Removing(u, t)
    BY <1>3, <2>1 DEF RemoveOK
  <2> QED
    BY <1>3, <2>1, <2>2
<1> QED
  BY <1>1, <1>2, <1>3 DEF PInv, UserOK, RequestOK, IdleOK, AcceptOK

LEMMA TakeStep ==
  ASSUME PInv, NEW u \in Users, Take(u)
  PROVE  PInv'
<1>1. PICK r, m : Head(req[u].rest) = <<r, m>>
  BY OnTheWay, DecidingOn, InsertingOn, RemovingOn DEF Take
<1>2. CASE Refused(r, m)
  BY <1>1, <1>2, LeaveStep DEF Take
<1>3. CASE ~Refused(r, m)
  <2>1. /\ locks' = locks \cup {<<u, r, m>>}
        /\ req' = [req EXCEPT ![u] = Onward([req[u] EXCEPT !.rest = Tail(req[u].rest)])]
        /\ bulk' = None /\ UNCHANGED <<prop, next, alive, applied>>
        /\ req[u].rest # <<>> /\ Free(u, r, m)
    BY <1>1, <1>3 DEF Take
  <2>2. /\ DOMAIN req' = Users /\ req'[u] = Onward([req[u] EXCEPT !.rest = Tail(@)])
        /\ \A v \in Users \ {u} : req'[v] = req[v]
    <3>1. PICK q : q = [req[u] EXCEPT !.rest = Tail(req[u].rest)]
      OBVIOUS
    <3>2. req' = [req EXCEPT ![u] = Onward(q)] /\ DOMAIN req = Users
      BY <2>1, <3>1 DEF PInv, FieldsOK
    <3> QED
      BY <3>1, <3>2
  <2>3. Granted(u, r, m)
    BY <1>1, <1>3, <2>1, <2>2 DEF Granted
  <2> QED
    BY <2>3, GrantedStep
<1> QED
  BY <1>2, <1>3

LEMMA CascadeStep ==
  ASSUME PInv, NEW u \in Users, NEW t \in Endpoints, Cascade(u, t)
  PROVE  PInv'
<1>1. /\ prop' = prop /\ alive' = alive /\ next' = next /\ applied' = applied /\ bulk' = None
      /\ locks' = locks \cup {<<u, Thing(t), "update">>} /\ req[u].rest = <<>> /\ t \in req[u].falls
      /\ Free(u, Thing(t), "update") /\ DOMAIN req' = Users /\ \A v \in Users \ {u} : req'[v] = req[v]
  BY DEF Cascade, PInv, FieldsOK
<1>2. RemoveOK(u)
  BY <1>1 DEF PInv, UserOK, RequestOK, IdleOK, DecisionOK, AcceptOK, ReplaceOK, ReplaceForm
<1>3. PICK s \in Targets : req[u].items = <<s>>
  BY <1>2 DEF RemoveOK, AboutTarget
<1>4. /\ s \in Texts /\ Guards(u, s) /\ Held(u, Fin, "update")
      /\ \A e \in Endpoints \ req[u].falls : Held(u, Thing(e), "update")
  BY <1>1, <1>2, <1>3 DEF RemoveOK, Removing, RemovalLocks
<1>5. PICK f \in SUBSET Endpoints : f = req[u].falls
  BY <1>2 DEF RemoveOK
<1>6. /\ req'[u].do = "remove" /\ req'[u].items = <<s>> /\ req'[u].olds = {} /\ req'[u].claims = {}
      /\ req'[u].at = 0 /\ req'[u].falls = f \ {t} /\ req'[u].sees = {} /\ req'[u].rest = <<>>
      /\ DOMAIN req'[u] = Fields
  BY <1>1, <1>2, <1>3, <1>5, FieldsAre DEF Cascade, PInv, FieldsOK, RemoveOK, Plain
<1>7. \A r, m : Held(u, r, m)' <=> Held(u, r, m) \/ (r = Thing(t) /\ m = "update")
  BY <1>1, Grant
<1>8. RequestOK(u)'
  <2>1. \A e \in Endpoints \ (f \ {t}) : Held(u, Thing(e), "update")'
    BY <1>4, <1>5, <1>7
  <2>2. Guards(u, s)' /\ Held(u, Fin, "update")'
    BY <1>4, <1>7 DEF Guards
  <2>3. s # New
    BY <1>4, TargetsAre DEF OfFinding
  <2> QED
    BY <1>4, <1>6, <2>1, <2>2, <2>3 DEF RequestOK, RemoveOK, AboutTarget, Plain
<1>9. Named(u) = {} /\ Named(u)' = {} /\ Reserved(u) = {} /\ Reserved(u)' = {}
  BY <1>2, <1>6 DEF Named, Reserved, RemoveOK
<1>10. Held(u, Fin, "nokey")'
  BY <1>4, <1>7 DEF Guards, OfFinding
<1>11. LocksOK(u)'
  <2> SUFFICES ASSUME NEW l \in locks', l[1] = u PROVE LockOK(l)'
    BY DEF LocksOK
  <2>1. 1 \in DOMAIN <<s>> /\ <<s>>[1] = s
    OBVIOUS
  <2>2. CASE l \in locks
    <3>1. LockOK(l)
      BY <2>2 DEF PInv, UserOK, LocksOK
    <3>2. req[u].do = "remove" /\ req[u].items = <<s>> /\ DOMAIN <<s>> = {1} /\ Named(u) = {}
      BY <1>2, <1>3, <1>9 DEF RemoveOK
    <3>3. \/ l[2] = Fin /\ l[3] = "nokey"
          \/ l[2] = Fin /\ l[3] = "update"
          \/ \E e \in Endpoints : l[2] = Thing(e) /\ l[3] = "update"
      BY <1>4, <2>1, <3>1, <3>2, TargetsAre DEF LockOK
    <3> QED
      BY <1>4, <1>6, <1>10, <2>1, <3>3 DEF LockOK, OfFinding, Things
  <2>3. CASE l = <<u, Thing(t), "update">>
    BY <1>4, <1>6, <1>10, <2>1, <2>3 DEF LockOK, Things
  <2> QED
    BY <1>1, <2>2, <2>3
<1>12. RowsGuarded(u)'
  BY <1>1, <1>7, ResourcesDiffer DEF RowsGuarded, Locked, Guards, Pending, PInv, UserOK
<1>13. AnchorOK(u)'
  BY <1>1, <1>7 DEF PInv, UserOK, AnchorOK
<1>14. UserOK(u)'
  BY <1>8, <1>9, <1>11, <1>12, <1>13 DEF UserOK, AimOK
<1>15. \A l \in locks' \ locks : l[1] = u /\ l = <<u, l[2], l[3]>> /\ Free(u, l[2], l[3])
  BY <1>1
<1> QED
  BY <1>1, <1>6, <1>9, <1>14, <1>15, GrantStep

\* A decision that has all its locks.
LEMMA DecisionReady ==
  ASSUME PInv, NEW u \in Users, Ready(u, {"accept", "bulk", "reject"})
  PROVE  /\ DecisionOK(u) /\ req[u].p \in Ids /\ Locked(u, req[u].p) /\ Pending(req[u].p)
         /\ Guards(u, prop[req[u].p].target) /\ req[u].sees = {} /\ Named(u) = {req[u].p}
         /\ Reserved(u) = {}
<1>1. DecisionOK(u)
  BY DEF Ready, PInv, UserOK, RequestOK, IdleOK, AcceptOK, ReplaceOK, ReplaceForm, RemoveOK
<1>2. PICK t \in Targets : req[u].items = <<t>>
  BY <1>1 DEF DecisionOK, AboutTarget
<1>3. PICK i \in Ids : req[u].p = i
  BY <1>1 DEF DecisionOK
<1>4. Locked(u, i)
  <2>1. ~Deciding(u, i, t)
    BY DecidingOn DEF Ready
  <2> QED
    BY <1>1, <1>2, <1>3, <2>1 DEF DecisionOK
<1>5. Pending(i) /\ Guards(u, prop[i].target)
  BY <1>4 DEF PInv, UserOK, RowsGuarded
<1> QED
  BY <1>1, <1>3, <1>4, <1>5 DEF DecisionOK, Named, Reserved

LEMMA ApplyStep ==
  ASSUME PInv, NEW u \in Users, Apply(u)
  PROVE  PInv'
<1>1. PICK i \in Ids : i = req[u].p
  BY DecisionReady DEF Apply, Ready
<1>2. PICK S : S = Others(i)
  OBVIOUS
<1>3. /\ DecisionOK(u) /\ Locked(u, i) /\ Pending(i) /\ Guards(u, prop[i].target)
      /\ req[u].sees = {} /\ Named(u) = {i} /\ Reserved(u) = {}
  BY <1>1, DecisionReady DEF Apply, Ready
<1>4. S \subseteq Ids \ {i} /\ \A j \in S : Pending(j) /\ prop[j].target = prop[i].target
  BY <1>2 DEF Others, Pending, PInv, TypeOK
<1>5. /\ locks' = locks \cup {<<u, Row(j), "update">> : j \in S}
      /\ prop' = prop /\ alive' = alive /\ next' = next /\ applied' = applied /\ bulk' = None
      /\ DOMAIN req' = Users /\ \A v \in Users \ {u} : req'[v] = req[v]
      /\ \A j \in S : Free(u, Row(j), "update")
      /\ req[u].do \in {"accept", "bulk"} /\ req[u].rest = <<>> /\ req[u].falls = {}
      /\ req[u].do = "bulk" => ~Left(u, i)
  BY <1>1, <1>2 DEF Apply, Ready, PInv, FieldsOK
<1>6. /\ req'[u].do = (IF req[u].do = "bulk" THEN "bulk applied" ELSE "applied")
      /\ req'[u].sees = S /\ req'[u].p = i /\ req'[u].items = req[u].items
      /\ req'[u].olds = req[u].olds /\ req'[u].claims = req[u].claims /\ req'[u].at = req[u].at
      /\ req'[u].falls = req[u].falls /\ req'[u].rest = req[u].rest
      /\ DOMAIN req'[u] = Fields
  BY <1>1, <1>2, FieldsAre DEF Apply, PInv, FieldsOK
<1>7. Named(u)' = {i} \cup S /\ Reserved(u)' = {}
  BY <1>5, <1>6 DEF Named, Reserved
<1>8. /\ \A r, m : Held(u, r, m) => Held(u, r, m)'
      /\ \A r, m : Held(u, r, m)' => Held(u, r, m) \/ (m = "update" /\ \E j \in S : r = Row(j))
      /\ \A j \in S : Locked(u, j)'
  BY <1>5 DEF Held, Locked
<1>9. RequestOK(u)'
  <2>1. Locked(u, i)'
    BY <1>3, <1>8 DEF Locked
  <2>2. Left(u, i)' <=> Left(u, i)
    BY <1>5 DEF Left
  <2>3. req'[u].do = "bulk applied" => ~Left(u, i)'
    BY <1>5, <1>6, <2>2
  <2>4. AcceptOK(u)'
    BY <1>3, <1>4, <1>5, <1>6, <1>8, <2>1, <2>3 DEF AcceptOK, DecisionOK, AboutTarget, Plain, Left
  <2> QED
    BY <2>4 DEF RequestOK
<1>10. AimOK(u)'
  <2>1. \E k \in DOMAIN req[u].items : prop[i].target = req[u].items[k]
    BY <1>3 DEF PInv, UserOK, AimOK, Pending
  <2>2. \A j \in {i} \cup S : \E k \in DOMAIN req[u].items : prop[j].target = req[u].items[k]
    BY <1>4, <2>1
  <2> QED
    <3>1. req'[u].do # "propose" /\ req'[u].items = req[u].items /\ prop' = prop
      BY <1>5, <1>6
    <3> QED
      BY <1>7, <2>2, <3>1 DEF AimOK
<1>11. LocksOK(u)'
  <2> SUFFICES ASSUME NEW l \in locks', l[1] = u PROVE LockOK(l)'
    BY DEF LocksOK
  <2>1. CASE l \in locks
    <3>1. LockOK(l)
      BY <2>1 DEF PInv, UserOK, LocksOK
    <3>2. Held(u, Fin, "nokey") => Held(u, Fin, "nokey")'
      BY <1>8
    <3>3. req[u].do \in {"accept", "bulk"} /\ req'[u].do \in {"applied", "bulk applied"}
          /\ Named(u) \subseteq Named(u)' /\ req'[u].items = req[u].items
      BY <1>3, <1>5, <1>6, <1>7
    <3>4. CASE /\ l[2] = Fin /\ l[3] = "nokey"
               /\ \E k \in DOMAIN req[u].items : req[u].items[k] \in OfFinding
      BY <3>3, <3>4 DEF LockOK
    <3>5. CASE \E t \in Things :
                 /\ l[2] = Thing(t) /\ l[3] = "update"
                 /\ \E k \in DOMAIN req[u].items : req[u].items[k] = t
                 /\ t \in Endpoints => Held(u, Fin, "nokey")
      BY <3>2, <3>3, <3>5 DEF LockOK
    <3>6. CASE \E j \in Named(u) : l[2] = Row(j) /\ l[3] = "update"
      BY <3>3, <3>6 DEF LockOK
    <3> QED
      BY <3>1, <3>3, <3>4, <3>5, <3>6 DEF LockOK
  <2>2. CASE l \in {<<u, Row(j), "update">> : j \in S}
    BY <1>7, <2>2 DEF LockOK
  <2> QED
    BY <1>5, <2>1, <2>2
<1>12. RowsGuarded(u)'
  <2> SUFFICES ASSUME NEW j \in Ids, Locked(u, j)' PROVE Pending(j)' /\ Guards(u, prop[j].target)'
    BY DEF RowsGuarded
  <2>1. Pending(j) /\ Guards(u, prop[j].target)
    <3>1. Locked(u, j) \/ j \in S
      BY <1>8, ResourcesDiffer DEF Locked
    <3> QED
      BY <1>3, <1>4, <3>1 DEF PInv, UserOK, RowsGuarded
  <2> QED
    BY <1>5, <1>8, <2>1 DEF Pending, Guards
<1>13. AnchorOK(u)'
  BY <1>5, <1>8 DEF PInv, UserOK, AnchorOK
<1>14. UserOK(u)'
  BY <1>9, <1>10, <1>11, <1>12, <1>13 DEF UserOK
<1>15. \A l \in locks' \ locks : l[1] = u /\ l = <<u, l[2], l[3]>> /\ Free(u, l[2], l[3])
  BY <1>5
<1>16. Named(u)' \subseteq Named(u) \cup DOMAIN prop
  BY <1>3, <1>4, <1>7 DEF Pending
<1> QED
  BY <1>3, <1>5, <1>6, <1>7, <1>14, <1>15, <1>16, GrantStep

-----------------------------------------------------------------------------
(* The commits, and a person's edit.                                       *)

\* Rows that are about what they were about, and stay decided.
SameRows == /\ DOMAIN prop' = DOMAIN prop
            /\ \A j \in DOMAIN prop :
                 /\ prop'[j] \in Proposal /\ prop'[j].target = prop[j].target
                 /\ prop'[j].owner = prop[j].owner /\ prop'[j].by = prop[j].by
                 /\ prop[j].status # "pending" => prop'[j].status = prop[j].status

LEMMA SameType ==
  ASSUME PInv, SameRows, alive' = alive, next' = next,
         applied' \in [Ids -> Nat], bulk' \in Ids \cup {None}
  PROVE  TypeOK'
<1>1. \A j \in DOMAIN prop : prop[j].by # None =>
        /\ prop[j].status = "superseded" /\ prop[j].by \in DOMAIN prop
        /\ prop[prop[j].by].target = prop[j].target /\ prop[prop[j].by].owner = prop[j].owner
  BY DEF PInv, TypeOK
<1>2. \A j \in DOMAIN prop' : prop'[j].by # None =>
        /\ prop'[j].status = "superseded" /\ prop'[j].by \in DOMAIN prop'
        /\ prop'[prop'[j].by].target = prop'[j].target /\ prop'[prop'[j].by].owner = prop'[j].owner
  BY <1>1 DEF SameRows
<1> QED
  BY <1>2 DEF PInv, TypeOK, SameRows

LEMMA SameKept ==
  ASSUME SameRows, alive' = alive, NEW v \in Users, \A r, m : Held(v, r, m)' <=> Held(v, r, m),
         DOMAIN req[v] = Fields, NEW t, req'[v] = req[v] \/ req'[v] = OutdatedRead(req[v], t),
         \A j \in DOMAIN prop : Locked(v, j) /\ Pending(j) => prop'[j].status = "pending",
         req[v].do = "bulk applied" => prop'[req[v].p].base = prop[req[v].p].base
  PROVE  Kept(v) /\ DOMAIN req'[v] = Fields
<1>1. /\ \A f \in Fields \ {"base"} : req'[v][f] = req[v][f]
      /\ DOMAIN req'[v] = Fields
  BY FieldsAre DEF OutdatedRead
<1>2. \A S : req[v].base \in [S -> Bases] => req'[v].base \in [S -> Bases]
  <2>1. \A b \in Bases : Outdate(b) \in Bases
    BY DEF Outdate, Bases
  <2>2. CASE req'[v] = OutdatedRead(req[v], t)
    <3> SUFFICES ASSUME NEW S, req[v].base \in [S -> Bases] PROVE req'[v].base \in [S -> Bases]
      OBVIOUS
    <3>1. PICK b \in [S -> Bases] : b = req[v].base
      OBVIOUS
    <3>2. req'[v].base = [k \in S |-> IF req[v].items[k] = t THEN Outdate(b[k]) ELSE b[k]]
      BY <2>2, <3>1, FieldsAre DEF OutdatedRead
    <3>3. \A k \in S : (IF req[v].items[k] = t THEN Outdate(b[k]) ELSE b[k]) \in Bases
      BY <2>1
    <3> QED
      BY <3>2, <3>3
  <2> QED
    BY <2>2
<1> QED
  BY <1>1, <1>2 DEF Kept, SameRows

\* Nobody else has locked a proposal this one has, nor one about the same text or subnet.
LEMMA LockedAlone ==
  ASSUME PInv, NEW u \in Users, NEW v \in Users, NEW i \in Ids, Locked(u, i), Locked(v, i)
  PROVE  u = v
BY DEF PInv, Exclusive, Conflict, Locked, Held

LEMMA GuardedAlone ==
  ASSUME PInv, NEW u \in Users, NEW v \in Users, NEW t \in Superseding, Guards(u, t), Guards(v, t)
  PROVE  u = v
<1>1. \E r, m : Held(u, r, m) /\ Held(v, r, m) /\ m \in {"nokey", "update"}
  BY DEF Superseding, Guards, OfFinding, Things
<1> QED
  BY <1>1 DEF PInv, Exclusive, Conflict, Held

LEMMA BulkApplied ==
  ASSUME PInv, NEW v \in Users, req[v].do = "bulk applied"
  PROVE  /\ req[v].p \in Ids /\ Locked(v, req[v].p) /\ Pending(req[v].p)
         /\ Guards(v, prop[req[v].p].target)
<1>1. AcceptOK(v)
  BY DEF PInv, UserOK, RequestOK, IdleOK, DecisionOK, ReplaceOK, ReplaceForm, RemoveOK
<1>2. PICK i \in Ids : req[v].p = i /\ Locked(v, i)
  BY <1>1 DEF AcceptOK
<1> QED
  BY <1>2 DEF PInv, UserOK, RowsGuarded

LEMMA OutdatedRows ==
  ASSUME NEW rows, NEW t, NEW j \in DOMAIN rows, rows[j] \in Proposal
  PROVE  /\ DOMAIN Outdated(rows, t) = DOMAIN rows /\ Outdated(rows, t)[j] \in Proposal
         /\ Outdated(rows, t)[j].target = rows[j].target
         /\ Outdated(rows, t)[j].owner = rows[j].owner
         /\ Outdated(rows, t)[j].by = rows[j].by
         /\ Outdated(rows, t)[j].status = rows[j].status
         /\ rows[j].target # t => Outdated(rows, t)[j] = rows[j]
BY DEF Outdated, Outdate, Proposal, Bases

LEMMA EditStep ==
  ASSUME PInv, NEW u \in Users, NEW t \in Targets, Edit(u, t)
  PROVE  PInv'
<1>1. /\ prop' = Outdated(prop, t) /\ next' = next /\ alive' = alive /\ locks' = locks
      /\ applied' = applied /\ bulk' = None /\ DOMAIN req' = Users
      /\ \A v \in Users : req'[v] = OutdatedRead(req[v], t)
      /\ req[u] = Idle /\ t \in Superseding
  BY DEF Edit
<1>2. SameRows
  <2>1. DOMAIN prop' = DOMAIN prop
    BY <1>1 DEF Outdated
  <2>2. \A j \in DOMAIN prop : prop[j] \in Proposal
    BY DEF PInv, TypeOK
  <2> QED
    BY <1>1, <2>1, <2>2, OutdatedRows DEF SameRows
<1>3. TypeOK'
  BY <1>1, <1>2, SameType DEF PInv, TypeOK
<1>4. \A v \in Users : Kept(v) /\ DOMAIN req'[v] = Fields
  <2> SUFFICES ASSUME NEW v \in Users PROVE Kept(v) /\ DOMAIN req'[v] = Fields
    OBVIOUS
  <2>1. \A r, m : Held(v, r, m)' <=> Held(v, r, m)
    BY <1>1 DEF Held
  <2>2. \A j \in DOMAIN prop : Locked(v, j) /\ Pending(j) => prop'[j].status = "pending"
    BY <1>1, OutdatedRows DEF Pending, PInv, TypeOK
  <2>3. ASSUME req[v].do = "bulk applied" PROVE prop'[req[v].p].base = prop[req[v].p].base
    <3>1. req[v].p \in DOMAIN prop /\ Guards(v, prop[req[v].p].target)
      BY <2>3, BulkApplied DEF Pending
    <3>2. v # u
      <4>1. Idle.do = "idle"
        BY DEF Idle
      <4> QED
        BY <1>1, <2>3, <4>1
    <3>3. prop[req[v].p].target # t
      <4>1. ~Guards(v, t)
        BY <1>1, <3>2 DEF Edit, Free, Holders, Guards, Held, Conflict, Superseding, OfFinding, Things, Fin
      <4> QED
        BY <3>1, <4>1
    <3> QED
      BY <1>1, <3>1, <3>3, OutdatedRows DEF PInv, TypeOK
  <2> QED
    BY <1>1, <1>2, <2>1, <2>2, <2>3, SameKept DEF PInv, FieldsOK
<1>5. FieldsOK' /\ LockForm' /\ Exclusive' /\ AliveForm'
  BY <1>1, <1>4 DEF PInv, FieldsOK, LockForm, Exclusive, AliveForm
<1>6. Fresh'
  <2>1. Named(u)' = Named(u) /\ Reserved(u)' = Reserved(u)
    BY <1>4, KeptFields
  <2> QED
    BY <1>1, <1>2, <1>4, <2>1, Parts, FreshStep DEF PInv, Fresh, SameRows
<1>7. \A v \in Users : UserOK(v)'
  BY <1>4, <1>5, KeptUser DEF PInv
<1> QED
  BY <1>3, <1>5, <1>6, <1>7 DEF PInv

\* An accept that has chosen what it supersedes.
LEMMA AcceptReady ==
  ASSUME PInv, NEW u \in Users, Ready(u, {"applied", "bulk applied"})
  PROVE  /\ AcceptOK(u) /\ req[u].p \in Ids /\ Locked(u, req[u].p) /\ Pending(req[u].p)
         /\ Guards(u, prop[req[u].p].target)
         /\ \A j \in req[u].sees : j \in Ids /\ j # req[u].p /\ Locked(u, j) /\ Pending(j)
<1>1. AcceptOK(u)
  BY DEF Ready, PInv, UserOK, RequestOK, IdleOK, DecisionOK, ReplaceOK, ReplaceForm, RemoveOK
<1>2. PICK i \in Ids : req[u].p = i /\ Locked(u, i)
  BY <1>1 DEF AcceptOK
<1>3. \A j \in req[u].sees : j \in Ids /\ j # i /\ Locked(u, j)
  BY <1>1, <1>2 DEF AcceptOK
<1> QED
  BY <1>1, <1>2, <1>3 DEF PInv, UserOK, RowsGuarded

\* What an accept of proposal i, which supersedes S and writes t, makes of the rows.
AcceptOf(u, i, S, t) ==
  /\ i = req[u].p /\ Locked(u, i) /\ Pending(i) /\ Guards(u, t) /\ t = prop[i].target
  /\ \A j \in S : j # i /\ Locked(u, j) /\ Pending(j)
  /\ DOMAIN req' = Users /\ req'[u] = Idle
  /\ \A v \in Users \ {u} : req'[v] = OutdatedRead(req[v], t)
  /\ locks' = {l \in locks : l[1] # u} /\ applied' = [applied EXCEPT ![i] = @ + 1]
  /\ bulk' \in Ids \cup {None} /\ next' = next /\ alive' = alive
  /\ DOMAIN prop' = DOMAIN prop
  /\ \A j \in DOMAIN prop :
       /\ prop'[j] \in Proposal /\ prop'[j].target = prop[j].target
       /\ prop'[j].owner = prop[j].owner /\ prop'[j].by = prop[j].by
       /\ prop'[j].status = (IF j = i THEN "accepted"
                             ELSE IF j \in S THEN "superseded" ELSE prop[j].status)
       /\ (t \in Superseding /\ prop[j].target = t) \/ prop'[j].base = prop[j].base

LEMMA AcceptRows ==
  ASSUME PInv, NEW u \in Users, CommitAccept(u)
  PROVE  \E i \in Ids, S \in SUBSET Ids, t \in Targets : AcceptOf(u, i, S, t)
<1>1. PICK i \in Ids : i = req[u].p
  BY AcceptReady DEF CommitAccept, Ready
<1>2. PICK S : S = req[u].sees
  OBVIOUS
<1>3. /\ Locked(u, i) /\ Pending(i) /\ Guards(u, prop[i].target)
      /\ \A j \in S : j \in Ids /\ j # i /\ Locked(u, j) /\ Pending(j)
  BY <1>1, <1>2, AcceptReady DEF CommitAccept, Ready
<1>4. PICK t \in Targets : t = prop[i].target
  BY <1>3 DEF Pending, PInv, TypeOK, Proposal
<1>5. PICK rows : rows = [j \in DOMAIN prop |->
                            IF j = i THEN [prop[j] EXCEPT !.status = "accepted"]
                            ELSE IF j \in S THEN [prop[j] EXCEPT !.status = "superseded"]
                            ELSE prop[j]]
  OBVIOUS
<1>6. /\ prop' = IF t \in Superseding THEN Outdated(rows, t) ELSE rows
      /\ DOMAIN req' = Users /\ req'[u] = Idle
      /\ \A v \in Users \ {u} : req'[v] = OutdatedRead(req[v], t)
      /\ locks' = {l \in locks : l[1] # u} /\ applied' = [applied EXCEPT ![i] = @ + 1]
      /\ bulk' \in Ids \cup {None} /\ next' = next /\ alive' = alive
  BY <1>1, <1>2, <1>4, <1>5 DEF CommitAccept
<1>7. /\ DOMAIN rows = DOMAIN prop
      /\ \A j \in DOMAIN prop :
           /\ rows[j] \in Proposal /\ rows[j].target = prop[j].target
           /\ rows[j].owner = prop[j].owner /\ rows[j].by = prop[j].by /\ rows[j].base = prop[j].base
           /\ rows[j].status = (IF j = i THEN "accepted"
                                ELSE IF j \in S THEN "superseded" ELSE prop[j].status)
  BY <1>5 DEF PInv, TypeOK, Proposal, Statuses
<1>8. /\ DOMAIN prop' = DOMAIN prop
      /\ \A j \in DOMAIN prop :
           /\ prop'[j] \in Proposal /\ prop'[j].target = prop[j].target
           /\ prop'[j].owner = prop[j].owner /\ prop'[j].by = prop[j].by
           /\ prop'[j].status = rows[j].status
           /\ (t \in Superseding /\ prop[j].target = t) \/ prop'[j].base = prop[j].base
  <2>1. CASE t \in Superseding
    <3>1. prop' = Outdated(rows, t) /\ DOMAIN prop' = DOMAIN prop
      BY <1>6, <1>7, <2>1 DEF Outdated
    <3> QED
      BY <1>7, <2>1, <3>1, OutdatedRows
  <2>2. CASE t \notin Superseding
    BY <1>6, <1>7, <2>2
  <2> QED
    BY <2>1, <2>2
<1>9. S \in SUBSET Ids /\ Guards(u, t) /\ t = prop[i].target
  <2>1. Guards(u, prop[i].target)
    BY <1>3
  <2> QED
    BY <1>3, <1>4, <2>1 DEF Guards
<1>10. \A j \in DOMAIN prop : prop'[j].status = (IF j = i THEN "accepted"
                                                 ELSE IF j \in S THEN "superseded" ELSE prop[j].status)
  BY <1>7, <1>8
<1>11. AcceptOf(u, i, S, t)
  BY <1>1, <1>3, <1>6, <1>8, <1>9, <1>10 DEF AcceptOf
<1> QED
  BY <1>9, <1>11

LEMMA CommitAcceptStep ==
  ASSUME PInv, NEW u \in Users, CommitAccept(u)
  PROVE  PInv'
<1>1. PICK i \in Ids, S \in SUBSET Ids, t \in Targets : AcceptOf(u, i, S, t)
  BY AcceptRows
<1> USE DEF AcceptOf
<1>2. SameRows
  BY <1>1 DEF SameRows, Pending
<1>3. TypeOK'
  <2>1. applied' \in [Ids -> Nat]
    BY <1>1 DEF PInv, TypeOK
  <2> QED
    BY <1>1, <1>2, <2>1, SameType
<1>4. \A v \in Users \ {u} : Kept(v) /\ DOMAIN req'[v] = Fields
  <2> SUFFICES ASSUME NEW v \in Users \ {u} PROVE Kept(v) /\ DOMAIN req'[v] = Fields
    OBVIOUS
  <2>1. \A r, m : Held(v, r, m)' <=> Held(v, r, m)
    BY <1>1, EndKeeps
  <2>2. \A j \in DOMAIN prop : Locked(v, j) /\ Pending(j) => prop'[j].status = "pending"
    <3> SUFFICES ASSUME NEW j \in DOMAIN prop, Locked(v, j), Pending(j) PROVE prop'[j].status = "pending"
      OBVIOUS
    <3>1. j \in Ids
      BY DEF PInv, TypeOK
    <3>2. j # i /\ j \notin S
      BY <1>1, <3>1, LockedAlone
    <3> QED
      BY <1>1, <3>2 DEF Pending
  <2>3. ASSUME req[v].do = "bulk applied" PROVE prop'[req[v].p].base = prop[req[v].p].base
    <3>1. req[v].p \in DOMAIN prop /\ Guards(v, prop[req[v].p].target)
      BY <2>3, BulkApplied DEF Pending
    <3>2. ~(t \in Superseding /\ prop[req[v].p].target = t)
      BY <1>1, <3>1, GuardedAlone
    <3> QED
      BY <1>1, <3>1, <3>2
  <2>4. req'[v] = OutdatedRead(req[v], t) /\ DOMAIN req[v] = Fields
    BY <1>1 DEF PInv, FieldsOK
  <2> QED
    BY <1>1, <1>2, <2>1, <2>2, <2>3, <2>4, SameKept
<1>5. FieldsOK' /\ AliveForm'
  BY <1>1, <1>4 DEF PInv, FieldsOK, AliveForm, Fields
<1>6. \A j \in Ids : j \notin DOMAIN prop => applied'[j] = applied[j]
  BY <1>1 DEF Pending, PInv, TypeOK
<1> QED
  BY <1>1, <1>3, <1>4, <1>5, <1>6, EndStep

LEMMA CommitRejectStep ==
  ASSUME PInv, NEW u \in Users, CommitReject(u)
  PROVE  PInv'
<1>1. PICK i \in Ids : i = req[u].p
  BY DecisionReady DEF CommitReject, Ready
<1>2. Locked(u, i) /\ Pending(i)
  BY <1>1, DecisionReady DEF CommitReject, Ready
<1>3. /\ prop' = [prop EXCEPT ![i].status = "rejected"] /\ DOMAIN req' = Users /\ req'[u] = Idle
      /\ \A v \in Users \ {u} : req'[v] = req[v]
      /\ locks' = {l \in locks : l[1] # u} /\ applied' = applied
      /\ bulk' = None /\ next' = next /\ alive' = alive
  BY <1>1 DEF CommitReject, End, PInv, FieldsOK
<1>4. /\ DOMAIN prop' = DOMAIN prop
      /\ \A j \in DOMAIN prop :
           /\ prop'[j] \in Proposal /\ prop'[j].target = prop[j].target
           /\ prop'[j].owner = prop[j].owner /\ prop'[j].by = prop[j].by
           /\ prop'[j].base = prop[j].base /\ (j # i => prop'[j] = prop[j])
  BY <1>3 DEF PInv, TypeOK, Proposal, Statuses
<1>5. SameRows
  BY <1>2, <1>4 DEF SameRows, Pending
<1>6. TypeOK'
  BY <1>3, <1>5, SameType DEF PInv, TypeOK
<1>7. \A v \in Users \ {u} : Kept(v) /\ DOMAIN req'[v] = Fields
  <2> SUFFICES ASSUME NEW v \in Users \ {u} PROVE Kept(v) /\ DOMAIN req'[v] = Fields
    OBVIOUS
  <2>1. \A r, m : Held(v, r, m)' <=> Held(v, r, m)
    BY <1>3, EndKeeps
  <2>2. \A j \in DOMAIN prop : Locked(v, j) /\ Pending(j) => prop'[j].status = "pending"
    BY <1>2, <1>4, LockedAlone DEF Pending, PInv, TypeOK
  <2>3. req[v].do = "bulk applied" => prop'[req[v].p].base = prop[req[v].p].base
    BY <1>4, BulkApplied DEF Pending
  <2> QED
    BY <1>3, <1>5, <2>1, <2>2, <2>3, SameKept DEF PInv, FieldsOK
<1>8. FieldsOK' /\ AliveForm'
  BY <1>3, <1>7 DEF PInv, FieldsOK, AliveForm, Fields
<1> QED
  BY <1>3, <1>4, <1>6, <1>7, <1>8, EndStep

LEMMA ReplaceReady ==
  ASSUME PInv, NEW u \in Users, CommitProposals(u)
  PROVE  /\ ReplaceOK(u) /\ Placing(u)
         /\ \A j \in req[u].olds : j \in Ids /\ Locked(u, j) /\ Pending(j)
<1>1. ReplaceOK(u)
  BY DEF CommitProposals, Ready, PInv, UserOK, RequestOK, IdleOK, DecisionOK, AcceptOK, RemoveOK
<1>2. Placing(u)
  <2>1. ~\E i \in Ids, t \in Targets : Claiming(u, i, t)
    BY DecidingOn DEF Claiming, CommitProposals, Ready
  <2> QED
    BY <1>1, <2>1 DEF ReplaceOK
<1>3. \A j \in req[u].olds : j \in Ids /\ Locked(u, j)
  BY <1>1, <1>2 DEF Placing, ReplaceOK, ReplaceForm
<1> QED
  BY <1>1, <1>2, <1>3 DEF PInv, UserOK, RowsGuarded

LEMMA CommitProposalsStep ==
  ASSUME PInv, NEW u \in Users, CommitProposals(u)
  PROVE  PInv'
<1>1. ReplaceOK(u)
  BY ReplaceReady
<1>2. Placing(u)
  BY ReplaceReady
<1>3. PICK items \in Requests, p \in Ids, olds \in SUBSET Ids : \E base \in [DOMAIN items -> Bases] :
        /\ req[u].items = items /\ req[u].p = p /\ req[u].olds = olds /\ req[u].base = base
        /\ p + Len(items) <= MaxIds + 1
  BY <1>1 DEF ReplaceOK, ReplaceForm
<1>3a. PICK base \in [DOMAIN items -> Bases] : req[u].base = base
  BY <1>3
<1>4. Len(items) \in 1..2 /\ DOMAIN items = 1..Len(items) /\ \A k \in 1..Len(items) : items[k] \in Targets
  BY RequestsAre
<1> DEFINE new == p..(p + Len(items) - 1)
           About(t) == NewAbout(req[u], t)
<1>5. Reserved(u) = new /\ Named(u) = olds /\ new \subseteq Ids /\ new \cap DOMAIN prop = {}
  <2>1. Reserved(u) = new /\ Named(u) = olds
    BY <1>1, <1>3 DEF Reserved, Named, ReplaceOK, ReplaceForm
  <2> QED
    BY <1>1, <2>1, NamesAreIds DEF PInv, Fresh, RequestOK
<1>6. \A j \in new : j - p + 1 \in 1..Len(items)
  BY <1>4, IdsAreNat
<1>7. \A j \in olds : /\ Locked(u, j) /\ Pending(j) /\ prop[j].owner = u
                      /\ \E k \in DOMAIN items : prop[j].target = items[k]
  <2>1. \A j \in olds : Locked(u, j) /\ Pending(j)
    BY <1>3, ReplaceReady
  <2>2. req[u].do = "propose"
    BY <1>1 DEF ReplaceOK, ReplaceForm
  <2> QED
    BY <1>3, <1>5, <2>1, <2>2 DEF PInv, UserOK, AimOK, Pending
<1>8. \A k \in DOMAIN items : items[k] \in alive
  <2> SUFFICES ASSUME NEW k \in DOMAIN items PROVE items[k] \in alive
    OBVIOUS
  <2>1. Anchors(u, items[k])
    <3>1. req[u].at = Len(items) /\ Anchors(u, items[Len(items)])
            /\ \A h \in 1..(Len(items) - 1) : Anchors(u, items[h])
      <4>1. req[u].rest = <<>>
        BY DEF CommitProposals, Ready
      <4>2. \A t : ~Inserting(u, t)
        BY <4>1 DEF Inserting
      <4> QED
        BY <1>2, <1>3, <4>2 DEF Placing
    <3>2. k = Len(items) \/ k \in 1..(Len(items) - 1)
      BY <1>4
    <3> QED
      BY <3>1, <3>2
  <2>2. PICK t \in Targets : t = items[k]
    BY <1>4
  <2>3. Anchors(u, t)
    BY <2>1, <2>2
  <2>4. CASE t = New
    BY <2>2, <2>4 DEF PInv, AliveForm
  <2>5. CASE t \in Things
    BY <2>2, <2>3, <2>5 DEF Anchors, PInv, UserOK, AnchorOK
  <2>6. CASE t \in Texts
    BY <2>2, <2>3, <2>6 DEF Anchors, PInv, UserOK, AnchorOK, OfFinding
  <2> QED
    BY <2>4, <2>5, <2>6 DEF Targets, Things
<1>9. /\ prop' = [j \in DOMAIN prop \cup new |->
                    IF j \in new
                    THEN [target |-> items[j - p + 1], owner |-> u, status |-> "pending",
                          base |-> base[j - p + 1], by |-> None]
                    ELSE IF j \in olds
                    THEN [prop[j] EXCEPT !.status = "superseded", !.by = About(prop[j].target)]
                    ELSE prop[j]]
      /\ DOMAIN req' = Users /\ req'[u] = Idle /\ \A v \in Users \ {u} : req'[v] = req[v]
      /\ locks' = {l \in locks : l[1] # u} /\ bulk' = None
      /\ applied' = applied /\ next' = next /\ alive' = alive
  <2>1. prop' = [j \in DOMAIN prop \cup new |->
                    IF j \in new
                    THEN [target |-> items[j - p + 1], owner |-> u, status |-> "pending",
                          base |-> base[j - p + 1], by |-> None]
                    ELSE IF j \in olds
                    THEN [prop[j] EXCEPT !.status = "superseded", !.by = About(prop[j].target)]
                    ELSE prop[j]]
    BY <1>3, <1>3a DEF CommitProposals
  <2>2. End(u) /\ UNCHANGED <<next, alive, applied>> /\ bulk' = None
    BY DEF CommitProposals
  <2> QED
    BY <2>1, <2>2 DEF End, PInv, FieldsOK
<1>10. \A j \in olds : \E k \in DOMAIN items : items[k] = prop[j].target /\ About(prop[j].target) = p + k - 1
  BY <1>3, <1>7 DEF NewAbout
<1> HIDE DEF About, new
<1>11. \A j \in new : /\ prop'[j].target = items[j - p + 1] /\ prop'[j].owner = u
                      /\ prop'[j].by = None /\ prop'[j] \in Proposal
  <2> SUFFICES ASSUME NEW j \in new
               PROVE  /\ prop'[j].target = items[j - p + 1] /\ prop'[j].owner = u
                      /\ prop'[j].by = None /\ prop'[j] \in Proposal
    OBVIOUS
  <2>1. PICK k \in 1..Len(items) : k = j - p + 1
    BY <1>6
  <2>2. prop'[j] = [target |-> items[k], owner |-> u, status |-> "pending", base |-> base[k], by |-> None]
    BY <1>9, <2>1
  <2>3. items[k] \in Targets /\ base[k] \in Bases
    BY <1>3, <1>4
  <2> QED
    BY <2>1, <2>2, <2>3 DEF Proposal, Statuses
<1>12. \A j \in DOMAIN prop : /\ prop[j] \in Proposal
                              /\ j \notin olds => prop'[j] = prop[j]
                              /\ j \in olds => prop'[j] = [prop[j] EXCEPT !.status = "superseded",
                                                             !.by = About(prop[j].target)]
  BY <1>5, <1>9 DEF PInv, TypeOK
<1>13. \A j \in olds : About(prop[j].target) \in new
  BY <1>4, <1>10, IdsAreNat DEF new
<1>14. \A j \in DOMAIN prop :
         /\ prop'[j] \in Proposal /\ prop'[j].target = prop[j].target
         /\ prop'[j].owner = prop[j].owner /\ prop'[j].base = prop[j].base
         /\ j \notin olds => prop'[j].status = prop[j].status /\ prop'[j].by = prop[j].by
         /\ j \in olds => prop'[j].status = "superseded" /\ prop'[j].by = About(prop[j].target)
  <2> SUFFICES ASSUME NEW j \in DOMAIN prop
               PROVE  /\ prop'[j] \in Proposal /\ prop'[j].target = prop[j].target
                      /\ prop'[j].owner = prop[j].owner /\ prop'[j].base = prop[j].base
                      /\ j \notin olds => prop'[j].status = prop[j].status /\ prop'[j].by = prop[j].by
                      /\ j \in olds => prop'[j].status = "superseded"
                                       /\ prop'[j].by = About(prop[j].target)
    OBVIOUS
  <2>1. CASE j \in olds
    <3>1. PICK b \in Ids : b = About(prop[j].target)
      BY <1>5, <1>13, <2>1
    <3>2. prop'[j] = [prop[j] EXCEPT !.status = "superseded", !.by = b] /\ prop[j] \in Proposal
      BY <1>12, <2>1, <3>1
    <3> QED
      BY <2>1, <3>1, <3>2 DEF Proposal, Statuses
  <2>2. CASE j \notin olds
    BY <1>12, <2>2
  <2> QED
    BY <2>1, <2>2
<1>15. DOMAIN prop' = DOMAIN prop \cup new
  BY <1>9
<1>16. TypeOK'
  <2>1. \A j \in DOMAIN prop' : prop'[j] \in Proposal
    BY <1>11, <1>14, <1>15
  <2>2. \A j \in DOMAIN prop' : prop'[j].target \in alive'
    <3>1. \A j \in new : items[j - p + 1] \in alive
      BY <1>4, <1>6, <1>8
    <3> QED
      <4>1. \A j \in DOMAIN prop : prop[j].target \in alive
        BY DEF PInv, TypeOK
      <4>2. alive' = alive
        BY <1>9
      <4> QED
        BY <1>11, <1>14, <1>15, <3>1, <4>1, <4>2
  <2>3. ASSUME NEW j \in DOMAIN prop', prop'[j].by # None
        PROVE  /\ prop'[j].status = "superseded" /\ prop'[j].by \in DOMAIN prop'
               /\ prop'[prop'[j].by].target = prop'[j].target
               /\ prop'[prop'[j].by].owner = prop'[j].owner
    <3>1. j \in DOMAIN prop
      BY <1>11, <1>15, <2>3
    <3>2. CASE j \in olds
      <4>1. PICK k \in DOMAIN items : items[k] = prop[j].target /\ About(prop[j].target) = p + k - 1
        BY <1>10, <3>2
      <4>2. PICK i \in new : i = p + k - 1
        BY <1>13, <3>2, <4>1
      <4>3. i - p + 1 = k
        BY <1>4, <4>2, IdsAreNat
      <4>4. prop'[i].target = items[k] /\ prop'[i].owner = u
        BY <1>11, <4>3
      <4>5. prop'[j].by = i
        BY <1>14, <3>1, <3>2, <4>1, <4>2
      <4> QED
        BY <1>7, <1>14, <1>15, <3>1, <3>2, <4>1, <4>4, <4>5
    <3>3. CASE j \notin olds
      <4>1. /\ prop[j].by # None /\ prop[j].status = "superseded" /\ prop[j].by \in DOMAIN prop
            /\ prop[prop[j].by].target = prop[j].target /\ prop[prop[j].by].owner = prop[j].owner
        BY <1>14, <2>3, <3>1, <3>3 DEF PInv, TypeOK
      <4>2. prop'[j].by = prop[j].by /\ prop'[j].status = "superseded"
        BY <1>14, <3>1, <3>3, <4>1
      <4> QED
        BY <1>14, <1>15, <3>1, <4>1, <4>2
    <3> QED
      BY <3>2, <3>3
  <2>4. DOMAIN prop' \subseteq Ids
    BY <1>5, <1>15 DEF PInv, TypeOK
  <2> QED
    BY <1>9, <2>1, <2>2, <2>3, <2>4 DEF PInv, TypeOK
<1>17. \A v \in Users \ {u} : Kept(v)
  <2> SUFFICES ASSUME NEW v \in Users \ {u} PROVE Kept(v)
    OBVIOUS
  <2>1. \A r, m : Held(v, r, m)' <=> Held(v, r, m)
    BY <1>9, EndKeeps
  <2>2. \A i \in Named(v) \cap DOMAIN prop' : i \in DOMAIN prop
    BY <1>5, <1>15 DEF PInv, Fresh
  <2>3. \A i \in DOMAIN prop : Locked(v, i) /\ Pending(i) => prop'[i].status = "pending"
    <3> SUFFICES ASSUME NEW i \in DOMAIN prop, Locked(v, i), Pending(i) PROVE prop'[i].status = "pending"
      OBVIOUS
    <3>1. i \notin olds
      BY <1>7, LockedAlone
    <3> QED
      BY <1>14, <3>1 DEF Pending
  <2>4. req[v].do = "bulk applied" => prop'[req[v].p].base = prop[req[v].p].base
    BY <1>14, BulkApplied DEF Pending
  <2> QED
    BY <1>9, <1>14, <1>15, <2>1, <2>2, <2>3, <2>4 DEF Kept
<1>18. FieldsOK' /\ AliveForm'
  BY <1>9 DEF PInv, FieldsOK, AliveForm, Fields
<1> QED
  BY <1>5, <1>9, <1>15, <1>16, <1>17, <1>18, EndStep

LEMMA CommitRemoveStep ==
  ASSUME PInv, NEW u \in Users, CommitRemove(u)
  PROVE  PInv'
<1>1. RemoveOK(u)
  BY DEF CommitRemove, Ready, PInv, UserOK, RequestOK, IdleOK, DecisionOK, AcceptOK, ReplaceOK, ReplaceForm
<1>2. PICK t \in Targets : req[u].items[1] = t /\ t # New
  BY <1>1 DEF RemoveOK, AboutTarget
<1>3. /\ Guards(u, t)
      /\ t \in Texts => Held(u, Fin, "update") /\ \A e \in Endpoints : Held(u, Thing(e), "update")
  <2>1. req[u].rest = <<>> /\ req[u].falls = {}
    BY DEF CommitRemove, Ready
  <2>2. ~Removing(u, t)
    BY <2>1 DEF Removing, RemovalLocks
  <2> QED
    BY <1>1, <1>2, <2>1, <2>2 DEF RemoveOK
<1>4. PICK rows : rows = Rows(t)
  OBVIOUS
<1>5. /\ \A i \in rows : Free(u, Row(i), "update")
      /\ alive' = alive \ Gone(t)
      /\ prop' = [j \in DOMAIN prop \ rows |->
                   IF prop[j].by \in rows THEN [prop[j] EXCEPT !.by = None] ELSE prop[j]]
      /\ DOMAIN req' = Users /\ req'[u] = Idle /\ \A v \in Users \ {u} : req'[v] = req[v]
      /\ locks' = {l \in locks : l[1] # u} /\ bulk' = None /\ next' = next /\ applied' = applied
  BY <1>2, <1>4 DEF CommitRemove, End, PInv, FieldsOK
<1>6. /\ DOMAIN prop' = DOMAIN prop \ rows
      /\ \A j \in DOMAIN prop \ rows :
           /\ prop'[j] \in Proposal /\ prop'[j].target = prop[j].target
           /\ prop'[j].owner = prop[j].owner /\ prop'[j].base = prop[j].base
           /\ prop'[j].status = prop[j].status /\ prop[j].target \notin Gone(t)
           /\ prop'[j].by = IF prop[j].by \in rows THEN None ELSE prop[j].by
  BY <1>4, <1>5 DEF Rows, PInv, TypeOK, Proposal
<1>7. TypeOK'
  <2>1. \A j \in DOMAIN prop' : prop'[j].target \in alive'
    <3>1. \A j \in DOMAIN prop : prop[j].target \in alive
      BY DEF PInv, TypeOK
    <3>2. alive' = alive \ Gone(t)
      BY <1>5
    <3>3. \A j \in DOMAIN prop' : j \in DOMAIN prop /\ prop'[j].target = prop[j].target
                                  /\ prop[j].target \notin Gone(t)
      BY <1>6
    <3> QED
      BY <3>1, <3>2, <3>3
  <2>2. ASSUME NEW j \in DOMAIN prop', prop'[j].by # None
        PROVE  /\ prop'[j].status = "superseded" /\ prop'[j].by \in DOMAIN prop'
               /\ prop'[prop'[j].by].target = prop'[j].target
               /\ prop'[prop'[j].by].owner = prop'[j].owner
    <3>1. j \in DOMAIN prop \ rows /\ prop'[j].by = prop[j].by /\ prop[j].by \notin rows
      BY <1>6, <2>2
    <3>2. /\ prop[j].status = "superseded" /\ prop[j].by \in DOMAIN prop
          /\ prop[prop[j].by].target = prop[j].target /\ prop[prop[j].by].owner = prop[j].owner
      BY <2>2, <3>1 DEF PInv, TypeOK
    <3> QED
      BY <1>6, <3>1, <3>2
  <2> QED
    BY <1>5, <1>6, <2>1, <2>2 DEF PInv, TypeOK
<1>8. AliveForm'
  BY <1>2, <1>5, TargetsAre DEF PInv, AliveForm, Gone, Targets, OfFinding
<1>9. FieldsOK'
  BY <1>5 DEF PInv, FieldsOK, Fields
<1>10. \A v \in Users \ {u} : Kept(v)
  <2> SUFFICES ASSUME NEW v \in Users \ {u} PROVE Kept(v)
    OBVIOUS
  <2>1. \A r, m : Held(v, r, m)' <=> Held(v, r, m)
    BY <1>5, EndKeeps
  <2>2. \A i : Locked(v, i) => i \notin rows
    BY <1>5 DEF Free, Holders, Conflict, Locked, Held
  <2>3. \A i \in DOMAIN prop : Locked(v, i) => i \in DOMAIN prop' /\ prop'[i].status = prop[i].status
    BY <1>6, <2>2
  <2>4. req[v].do = "bulk applied" => prop'[req[v].p].base = prop[req[v].p].base
    BY <1>6, <2>2, BulkApplied DEF Pending
  <2>5. \A r : ~(Held(u, r, "update") /\ Held(v, r, "share"))
    BY DEF PInv, Exclusive, Conflict, Held
  <2>6. \A e \in Things : Held(v, Thing(e), "share") /\ e \in alive => e \in alive'
    BY <1>3, <1>5, <2>5, TargetAssumption DEF Gone, Guards, Things, OfFinding
  <2>7. Held(v, Fin, "share") /\ Texts \subseteq alive => Texts \subseteq alive'
    BY <1>3, <1>5, <2>5 DEF Gone
  <2> QED
    BY <1>5, <1>6, <2>1, <2>3, <2>4, <2>6, <2>7 DEF Kept, Pending
<1> QED
  BY <1>5, <1>6, <1>7, <1>8, <1>9, <1>10, EndStep

LEMMA InitPInv == Init => PInv
<1> SUFFICES ASSUME Init PROVE PInv
  OBVIOUS
<1>1. /\ \A u \in Users : /\ req[u].do = "idle" /\ req[u].rest = <<>> /\ req[u].falls = {}
                          /\ DOMAIN req[u] = Fields
      /\ DOMAIN req = Users /\ locks = {}
  BY DEF Init, Idle, Fields
<1>2. \A u \in Users : Named(u) = {} /\ Reserved(u) = {}
  BY <1>1 DEF Named, Reserved
<1>3. \A u \in Users : UserOK(u)
  BY <1>1, <1>2 DEF UserOK, RequestOK, IdleOK, AimOK, LocksOK, RowsGuarded, AnchorOK, Locked, Held
<1>4. \/ DOMAIN prop = {} /\ next = 1
      \/ DOMAIN prop = {1} /\ next = 2
  <2>1. CASE prop = <<>>
    <3>1. DOMAIN prop = {}
      BY <2>1
    <3> QED
      BY <3>1, FS_EmptySet DEF Init
  <2>2. CASE prop \in [{1} -> {[target |-> t, owner |-> u, status |-> "pending",
                               base |-> "unknown", by |-> None] : t \in Texts, u \in Users}]
    <3>1. DOMAIN prop = {1}
      BY <2>2
    <3>2. Cardinality({1}) = 1
      BY FS_Singleton
    <3> QED
      BY <3>1, <3>2 DEF Init
  <2> QED
    BY <2>1, <2>2 DEF Init
<1>5. /\ DOMAIN prop \subseteq Ids
      /\ \A i \in DOMAIN prop : prop[i] \in Proposal /\ prop[i].target \in Targets /\ prop[i].by = None
  <2>1. \A i \in DOMAIN prop : prop[i] \in {[target |-> t, owner |-> u, status |-> "pending",
                                            base |-> "unknown", by |-> None] : t \in Texts, u \in Users}
    BY <1>4 DEF Init
  <2> QED
    BY <1>4, <2>1, TargetAssumption DEF Ids, Proposal, Statuses, Bases, Targets
<1>6. TypeOK
  BY <1>4, <1>5, TargetAssumption DEF TypeOK, Init
<1>7. FieldsOK /\ LockForm /\ Exclusive /\ AliveForm
  BY <1>1 DEF FieldsOK, LockForm, Exclusive, AliveForm, Init, Targets
<1>8. Fresh
  BY <1>2, <1>4 DEF Fresh, Init
<1> QED
  BY <1>3, <1>6, <1>7, <1>8 DEF PInv

LEMMA NextPInv ==
  ASSUME PInv, [Next]_vars
  PROVE  PInv'
<1>1. CASE Next
  <2>1. PICK u \in Users :
          \/ \E i \in Ids, how \in {"accept", "bulk", "reject"} : Decide(u, i, how)
          \/ \E items \in Requests, olds \in SUBSET DOMAIN prop : Propose(u, items, olds)
          \/ \E t \in Targets : DeleteTarget(u, t) \/ Edit(u, t)
          \/ Step(u)
    BY <1>1 DEF Next
  <2>2. CASE \E i \in Ids, how \in {"accept", "bulk", "reject"} : Decide(u, i, how)
    BY <2>2, DecideStep
  <2>3. CASE \E items \in Requests, olds \in SUBSET DOMAIN prop : Propose(u, items, olds)
    <3>1. PICK items \in Requests, olds \in SUBSET DOMAIN prop : Propose(u, items, olds)
      BY <2>3
    <3> QED
      BY <3>1, ProposeStep
  <2>4. CASE \E t \in Targets : DeleteTarget(u, t) \/ Edit(u, t)
    BY <2>4, DeleteTargetStep, EditStep
  <2>5. CASE Step(u)
    <3>1. LeaveForLater(u) \/ Refuse(u) => Leave(u)
      BY DEF LeaveForLater, Refuse
    <3> QED
      BY <2>5, <3>1, TakeStep, CascadeStep, LeaveStep, ApplyStep, CommitAcceptStep,
         CommitRejectStep, CommitProposalsStep, CommitRemoveStep DEF Step
  <2> QED
    BY <2>1, <2>2, <2>3, <2>4, <2>5
<1>2. CASE UNCHANGED vars
  <2>1. UNCHANGED <<prop, next, alive, locks, req, applied, bulk>>
    BY <1>2 DEF vars
  <2>2. TypeOK' /\ FieldsOK' /\ LockForm' /\ Exclusive' /\ AliveForm' /\ Fresh'
    <3>1. TypeOK' /\ FieldsOK' /\ LockForm' /\ Exclusive' /\ AliveForm'
      BY <2>1 DEF PInv, TypeOK, FieldsOK, LockForm, Exclusive, AliveForm
    <3>2. \A u : Named(u)' = Named(u) /\ Reserved(u)' = Reserved(u)
      BY <2>1 DEF Named, Reserved
    <3>3. Fresh'
      BY <2>1, <3>2 DEF PInv, Fresh
    <3> QED
      BY <3>1, <3>3
  <2>3. \A u \in Users : Kept(u)
    BY <2>1, KeptQuietly DEF Held
  <2> QED
    BY <2>2, <2>3, KeptUser DEF PInv
<1> QED
  BY <1>1, <1>2

\* What every request has locked is what it is about, nobody else has locked it
\* in a conflicting way, and a locked proposal is pending.
THEOREM Invariant == Spec => []PInv
<1>1. Init => PInv
  BY InitPInv
<1>2. PInv /\ [Next]_vars => PInv'
  BY NextPInv
<1> QED
  BY <1>1, <1>2, PTL DEF Spec

-----------------------------------------------------------------------------
(* Nobody waits for each other, as long as a request is about one subnet.  *)

\* How far a waiting request has come: the finding, the finding for good,
\* another target, then the proposals by id.
Rank(u) ==
  IF req[u].rest = <<>> THEN 3
  ELSE LET l == Head(req[u].rest) IN
       IF l[1] = Fin THEN IF l[2] = "update" THEN 2 ELSE 1
       ELSE IF l[1][1] = "target" THEN 3
       ELSE 3 + l[1][2]

\* A wait: v holds r in mode k, which conflicts with the m that u needs.
Blocked(u, v, r, m, k) == Held(v, r, k) /\ Conflict(k, m) /\ v # u

LEMMA HolderIs ==
  ASSUME PInv, NEW u \in Users, NEW r, NEW m, NEW v \in Holders(u, r, m)
  PROVE  v \in Users /\ \E k : Blocked(u, v, r, m, k)
<1>1. PICK l \in locks : l[1] = v /\ l[1] # u /\ l[2] = r /\ Conflict(l[3], m)
  BY DEF Holders
<1>2. l[1] \in Users /\ l = <<v, r, l[3]>>
  BY <1>1 DEF PInv, LockForm
<1> QED
  BY <1>1, <1>2 DEF Blocked, Held

\* Who has locked a resource as strongly waits for nobody there.
LEMMA NotBlocked ==
  ASSUME PInv, NEW u, NEW v, NEW r, NEW m, NEW k, Blocked(u, v, r, m, k), NEW n, Held(u, r, n)
  PROVE  /\ n # "update" /\ n # m /\ (n = "nokey" => m = "update")
         /\ k # "update" /\ (n = "nokey" => k # "nokey")
<1>1. ~Conflict(k, n)
  BY DEF PInv, Exclusive, Blocked, Held
<1> QED
  BY <1>1 DEF Conflict, Blocked

\* Two decisions about one thing have not both locked it.
LEMMA GuardsClash ==
  ASSUME PInv, NEW u \in Users, NEW v \in Users, u # v, NEW s, NEW t, Guards(u, s), Guards(v, t)
  PROVE  ~(s \in OfFinding /\ t \in OfFinding) /\ ~(s \in Things /\ s = t)
<1>1. \A r : ~(Held(u, r, "nokey") /\ Held(v, r, "nokey")) /\ ~(Held(u, r, "update") /\ Held(v, r, "update"))
  BY DEF PInv, Exclusive, Conflict, Held
<1> QED
  BY <1>1 DEF Guards

\* It proposes details for several subnets.
Several(u) == req[u].do = "propose" /\ Len(req[u].items) # 1

LEMMA OneItem ==
  ASSUME PInv, NEW u \in Users, ~Several(u), ~IdleOK(u)
  PROVE  \E t \in Targets : req[u].items = <<t>>
<1>1. CASE ReplaceOK(u)
  <2>1. req[u].items \in Requests
    BY <1>1 DEF ReplaceOK, ReplaceForm
  <2>2. PICK n \in 1..2 : n = Len(req[u].items)
    BY <2>1, RequestsAre
  <2>3. n = 1
    BY <1>1, <2>2 DEF Several, ReplaceOK, ReplaceForm
  <2>4. Len(req[u].items) = 1
    BY <2>2, <2>3
  <2>5. req[u].items = <<req[u].items[1]>> /\ \A k \in 1..Len(req[u].items) : req[u].items[k] \in Targets
    BY <2>1, <2>4, RequestsAre
  <2>6. req[u].items[1] \in Targets
    BY <2>4, <2>5
  <2> QED
    BY <2>5, <2>6
<1>2. CASE ~ReplaceOK(u)
  BY <1>2 DEF PInv, UserOK, RequestOK, DecisionOK, AcceptOK, RemoveOK, AboutTarget
<1> QED
  BY <1>1, <1>2

\* The four places a request about t can wait at.
AtFinding(u, t, r, m) ==
  /\ t \in OfFinding /\ r = Fin /\ m \in {"nokey", "share"} /\ Rank(u) = 1
  /\ req[u].do = "propose" /\ req[u].at > 0 => m = "share"
AtFindingRemoval(u, t, r, m) ==
  t \in Texts /\ r = Fin /\ m = "update" /\ Held(u, Fin, "nokey") /\ Rank(u) = 2
AtThing(u, t, r, m) ==
  \E s \in Things :
    /\ r = Thing(s) /\ Rank(u) = 3 /\ m \in {"share", "update"}
    /\ s \in Endpoints => \E n : Held(u, Fin, n)
    /\ s = t \/ (s \in Endpoints /\ t \in Texts)
AtRow(u, t, r, m) ==
  \E i \in Ids :
    /\ r = Row(i) /\ m = "update" /\ Rank(u) = 3 + i /\ t = New /\ i \in DOMAIN prop /\ prop[i].target = New
    /\ \A j \in Ids : Locked(u, j) => j < i
Waits(u, t, r, m) == \/ AtFinding(u, t, r, m) \/ AtFindingRemoval(u, t, r, m)
                     \/ AtThing(u, t, r, m) \/ AtRow(u, t, r, m)

LEMMA RankIs ==
  ASSUME NEW u, NEW r, NEW m, req[u].rest # <<>>, Head(req[u].rest) = <<r, m>>
  PROVE  /\ r = Fin => Rank(u) = IF m = "update" THEN 2 ELSE 1
         /\ \A t \in Things : r = Thing(t) => Rank(u) = 3
         /\ \A i : r = Row(i) => Rank(u) = 3 + i
<1>1. ASSUME NEW t \in Things, r = Thing(t) PROVE r # Fin /\ r[1] = "target"
  BY <1>1, ResourcesDiffer DEF Thing, Things, Targets, OfFinding
<1>2. ASSUME NEW i, r = Row(i) PROVE r # Fin /\ r[1] = "proposal" /\ r[2] = i
  <2>1. r # Fin
    BY <1>2, ResourcesDiffer DEF Fin
  <2> QED
    BY <1>2, <2>1 DEF Row
<1> QED
  BY <1>1, <1>2 DEF Rank

LEMMA ModeOf ==
  ASSUME PInv, NEW u \in Users, NEW r, NEW m, Held(u, r, m)
  PROVE  /\ LockOK(<<u, r, m>>) /\ m \in {"share", "nokey", "update"}
         /\ \A i : r = Row(i) => m = "update"
<1>1. LockOK(<<u, r, m>>)
  BY DEF Held, PInv, UserOK, LocksOK
<1> QED
  BY <1>1, ResourcesDiffer DEF LockOK, Fin

\* On the way to a decision's locks.
LEMMA DecidingWaits ==
  ASSUME PInv, NEW u \in Users, NEW i \in Ids, NEW t \in Targets, Deciding(u, i, t),
         i \in DOMAIN prop => prop[i].target = t,
         req[u].do = "propose" => req[u].at = 0,
         t = New => \A j \in Ids : Locked(u, j) => j = i \/ j < i,
         NEW v \in Users, NEW r, NEW m, NEW k, Head(req[u].rest) = <<r, m>>, Blocked(u, v, r, m, k)
  PROVE  Waits(u, t, r, m)
<1>1. req[u].rest # <<>>
  BY DecidingOn
<1>2. CASE t \in OfFinding /\ r = Fin /\ m = "nokey"
  BY <1>1, <1>2, RankIs DEF Waits, AtFinding
<1>3. CASE t \in Things /\ r = Thing(t) /\ m = "update" /\ (t \in Endpoints => Held(u, Fin, "nokey"))
  BY <1>1, <1>3, RankIs DEF Waits, AtThing
<1>4. CASE r = Row(i) /\ m = "update" /\ Guards(u, t)
  <2>1. k = "update" /\ Locked(v, i)
    <3>1. Held(v, Row(i), k)
      BY <1>4 DEF Blocked
    <3> QED
      BY <3>1, ModeOf DEF Locked
  <2>2. Pending(i) /\ Guards(v, prop[i].target) /\ i \in DOMAIN prop
    BY <2>1 DEF PInv, UserOK, RowsGuarded, Pending
  <2>3. prop[i].target = t /\ Guards(v, t) /\ u # v
    BY <2>2 DEF Blocked
  <2>4. t = New
    BY <1>4, <2>3, GuardsClash DEF Targets, Things, OfFinding
  <2>5. ~Locked(u, i)
    BY <2>1, <2>3, LockedAlone
  <2> QED
    BY <1>1, <1>4, <2>2, <2>3, <2>4, <2>5, RankIs DEF Waits, AtRow
<1> QED
  BY <1>2, <1>3, <1>4, DecidingOn DEF OfFinding

LEMMA WaitForm ==
  ASSUME PInv, NEW u \in Users, ~Several(u), NEW v \in WaitsFor(u)
  PROVE  v \in Users /\ \E t \in Targets : \E r, m, k :
           req[u].items = <<t>> /\ Blocked(u, v, r, m, k) /\ Waits(u, t, r, m)
<1>1. PICK n \in Needs(u) : v \in Holders(u, n[1], n[2])
  BY DEF WaitsFor
<1>2. v \in Users /\ \E k : Blocked(u, v, n[1], n[2], k)
  BY <1>1, HolderIs
<1>3. ~IdleOK(u)
  BY <1>1 DEF IdleOK, Needs
<1>4. PICK t \in Targets : req[u].items = <<t>>
  BY <1>3, OneItem
<1>5. 1 \in DOMAIN <<t>> /\ DOMAIN <<t>> = {1} /\ <<t>>[1] = t /\ Len(<<t>>) = 1
  OBVIOUS
<1>6. \A j \in Named(u) \cap DOMAIN prop : prop[j].target = t
  BY <1>4, <1>5 DEF PInv, UserOK, AimOK
<1>7. \A j \in Ids : Locked(u, j) => j \in Named(u) /\ j \in DOMAIN prop
  <2> SUFFICES ASSUME NEW j \in Ids, Locked(u, j) PROVE j \in Named(u) /\ j \in DOMAIN prop
    OBVIOUS
  <2>1. LockOK(<<u, Row(j), "update">>)
    BY ModeOf DEF Locked
  <2>2. j \in Named(u)
    BY <2>1, ResourcesDiffer DEF LockOK, Fin
  <2> QED
    BY <2>2 DEF PInv, UserOK, RowsGuarded, Pending
<1>8. CASE req[u].rest # <<>>
  <2>1. PICK r, m : Head(req[u].rest) = <<r, m>>
    BY <1>8, OnTheWay, DecidingOn, InsertingOn, RemovingOn
  <2>2. PICK k : Blocked(u, v, r, m, k)
    BY <1>1, <1>2, <1>8, <2>1 DEF Needs
  <2>3. CASE \E i \in Ids, s \in Targets :
               DecisionOK(u) /\ req[u].p = i /\ req[u].items = <<s>> /\ Deciding(u, i, s)
    <3>1. PICK i \in Ids : DecisionOK(u) /\ req[u].p = i /\ Deciding(u, i, t)
      BY <1>4, <1>5, <2>3
    <3>2. Named(u) = {i} /\ req[u].do # "propose"
      BY <3>1 DEF Named, DecisionOK
    <3>3. Waits(u, t, r, m)
      BY <1>2, <1>6, <1>7, <2>1, <2>2, <3>1, <3>2, DecidingWaits
    <3> QED
      BY <1>2, <1>4, <2>2, <3>3
  <2>4. CASE \E i \in Ids, s \in Targets :
               ReplaceForm(u) /\ req[u].at = 0 /\ Claiming(u, i, s) /\ Deciding(u, i, s)
    <3>1. PICK i \in Ids, s \in Targets :
            ReplaceForm(u) /\ req[u].at = 0 /\ Claiming(u, i, s) /\ Deciding(u, i, s)
      BY <2>4
    <3>2. s = t /\ Named(u) = req[u].olds /\ (i \in DOMAIN prop => prop[i].target = t)
      BY <1>4, <1>5, <3>1 DEF Claiming, Named, ReplaceForm
    <3>3. \A j \in Ids : Locked(u, j) => j < i
      <4> SUFFICES ASSUME NEW j \in Ids, Locked(u, j) PROVE j < i
        OBVIOUS
      <4>1. j \in req[u].olds /\ prop[j].target = t
        BY <1>6, <1>7, <3>2
      <4>2. Before(<<j, t>>, <<i, t>>)
        BY <3>1, <3>2, <4>1 DEF Claiming
      <4>3. t \in Int
        BY TargetsAre
      <4> QED
        BY <4>2, <4>3 DEF Before
    <3>4. Waits(u, t, r, m)
      BY <1>2, <2>1, <2>2, <3>1, <3>2, <3>3, DecidingWaits
    <3> QED
      BY <1>2, <1>4, <2>2, <3>4
  <2>5. CASE \E s \in Targets :
               ReplaceForm(u) /\ Placing(u) /\ req[u].at \in 1..Len(req[u].items)
               /\ s = req[u].items[req[u].at] /\ Inserting(u, s)
    <3>1. Inserting(u, t)
      BY <1>4, <1>5, <2>5
    <3>2. \/ t \in OfFinding /\ r = Fin /\ m = "share"
          \/ t \in Things /\ r = Thing(t) /\ m = "share" /\ (t \in Endpoints => Held(u, Fin, "share"))
      BY <2>1, <3>1, InsertingOn DEF OfFinding
    <3>3. Waits(u, t, r, m)
      BY <1>8, <2>1, <3>2, RankIs DEF Waits, AtFinding, AtThing
    <3> QED
      BY <1>2, <1>4, <2>2, <3>3
  <2>6. CASE \E s \in Targets : RemoveOK(u) /\ s # New /\ req[u].items = <<s>> /\ Removing(u, s)
    <3>1. Removing(u, t) /\ t # New /\ req[u].do = "remove"
      BY <1>4, <1>5, <2>6 DEF RemoveOK
    <3>2. \/ t \in OfFinding /\ r = Fin /\ m = "nokey"
          \/ t \in Texts /\ r = Fin /\ m = "update" /\ Held(u, Fin, "nokey")
          \/ t \in Things /\ r = Thing(t) /\ m = "update" /\ (t \in Endpoints => Held(u, Fin, "nokey"))
      <4>1. \/ t \in OfFinding /\ Head(req[u].rest) = <<Fin, "nokey">>
            \/ t \in Texts /\ Head(req[u].rest) = <<Fin, "update">> /\ Held(u, Fin, "nokey")
            \/ /\ t \in Things /\ Head(req[u].rest) = <<Thing(t), "update">>
               /\ (t \in Endpoints => Held(u, Fin, "nokey"))
        BY <3>1, RemovingOn
      <4> QED
        BY <2>1, <4>1
    <3>3. Waits(u, t, r, m)
      BY <1>8, <2>1, <3>1, <3>2, RankIs DEF Waits, AtFinding, AtFindingRemoval, AtThing
    <3> QED
      BY <1>2, <1>4, <2>2, <3>3
  <2> QED
    BY <1>8, <2>3, <2>4, <2>5, <2>6, OnTheWay
<1>9. CASE req[u].rest = <<>> /\ req[u].falls # {}
  <2>1. RemoveOK(u)
    BY <1>9 DEF PInv, UserOK, RequestOK, IdleOK, DecisionOK, AcceptOK, ReplaceOK, ReplaceForm
  <2>2. PICK e \in req[u].falls : n = <<Thing(e), "update">>
    BY <1>1, <1>9 DEF Needs
  <2>3. e \in Endpoints /\ t \in Texts
    BY <1>4, <1>5, <1>9, <2>1 DEF RemoveOK
  <2>4. Held(u, Fin, "update")
    <3>1. ~Removing(u, t)
      BY <1>9 DEF Removing, RemovalLocks
    <3> QED
      BY <1>4, <1>5, <2>1, <2>3, <3>1 DEF RemoveOK
  <2>5. Waits(u, t, Thing(e), "update")
    BY <1>9, <2>3, <2>4 DEF Waits, AtThing, Rank, Things
  <2>6. \E k : Blocked(u, v, Thing(e), "update", k)
    BY <1>2, <2>2
  <2> QED
    BY <1>2, <1>4, <2>5, <2>6
<1>10. CASE req[u].rest = <<>> /\ req[u].falls = {}
  <2>1. ASSUME NEW i, n = <<Row(i), "update">>, i \in Ids
        PROVE  u # v /\ i \in DOMAIN prop /\ Guards(v, prop[i].target)
    <3>1. PICK k : Blocked(u, v, Row(i), "update", k)
      BY <1>2, <2>1
    <3>2. Held(v, Row(i), "update")
      BY <1>2, <3>1, ModeOf DEF Blocked
    <3> QED
      BY <1>2, <2>1, <3>1, <3>2 DEF Blocked, Locked, PInv, UserOK, RowsGuarded, Pending
  <2>2. CASE req[u].do \in {"accept", "bulk"}
    <3>1. Ready(u, {"accept", "bulk", "reject"})
      BY <1>10, <2>2 DEF Ready
    <3>2. PICK i \in Ids : req[u].p = i /\ Guards(u, prop[i].target)
      BY <3>1, DecisionReady
    <3>3. PICK j \in Others(i) : n = <<Row(j), "update">>
      BY <1>1, <1>10, <2>2, <3>2 DEF Needs
    <3>4. j \in Ids /\ prop[j].target = prop[i].target /\ prop[i].target \in Superseding
      BY <3>3 DEF Others, PInv, TypeOK
    <3>5. u # v /\ Guards(v, prop[j].target)
      BY <2>1, <3>3, <3>4
    <3> QED
      BY <1>2, <3>2, <3>4, <3>5, GuardedAlone
  <2>3. CASE req[u].do = "remove"
    <3>1. RemoveOK(u)
      BY <2>3 DEF PInv, UserOK, RequestOK, IdleOK, DecisionOK, AcceptOK, ReplaceOK, ReplaceForm
    <3>2. Guards(u, t) /\ t # New
      <4>1. ~Removing(u, t)
        BY <1>10 DEF Removing, RemovalLocks
      <4> QED
        BY <1>4, <1>5, <3>1, <4>1 DEF RemoveOK
    <3>3. PICK i \in Rows(t) : n = <<Row(i), "update">>
      BY <1>1, <1>4, <1>5, <1>10, <2>3 DEF Needs
    <3>4. i \in Ids /\ prop[i].target \in Gone(t)
      BY <3>3 DEF Rows, PInv, TypeOK
    <3>5. u # v /\ Guards(v, prop[i].target)
      BY <2>1, <3>3, <3>4
    <3>6. \/ t \in OfFinding /\ prop[i].target \in OfFinding
          \/ t \in Things /\ t = prop[i].target
      BY <3>2, <3>4 DEF Gone, Targets, OfFinding, Things
    <3> QED
      BY <1>2, <3>2, <3>5, <3>6, GuardsClash
  <2>4. req[u].do \in {"accept", "bulk", "remove"}
    BY <1>1, <1>10 DEF Needs
  <2> QED
    BY <2>2, <2>3, <2>4
<1> QED
  BY <1>8, <1>9, <1>10

\* A request about one thing that has locked it waits for nobody.
LEMMA HolderGoesOn ==
  ASSUME PInv, NEW u \in Users, NEW v \in Users, ~Several(v), NEW e \in Things, NEW m, NEW k,
         m \in {"share", "update"}, Blocked(u, v, Thing(e), m, k),
         e \in Endpoints => \E n : Held(u, Fin, n)
  PROVE  WaitsFor(v) = {}
<1> SUFFICES ASSUME NEW w \in WaitsFor(v) PROVE FALSE
  OBVIOUS
<1>b. PICK s \in Targets : \E x, n, o :
        req[v].items = <<s>> /\ Blocked(v, w, x, n, o) /\ Waits(v, s, x, n)
  BY WaitForm
<1>2. PICK r2, m2, k2 : req[v].items = <<s>> /\ Blocked(v, w, r2, m2, k2) /\ Waits(v, s, r2, m2)
  BY <1>b
<1>3. LockOK(<<v, Thing(e), k>>) /\ Held(v, Thing(e), k) /\ Conflict(k, m) /\ u # v
  BY ModeOf DEF Blocked
<1>4. \A n : Held(v, r2, n) => n # "update" /\ n # m2 /\ (n = "nokey" => m2 = "update")
  BY <1>2, NotBlocked
<1>5. \A x, n, o : Held(u, x, n) /\ Held(v, x, o) => ~Conflict(n, o)
  BY <1>3 DEF PInv, Exclusive, Held
<1>6. DOMAIN <<s>> = {1} /\ <<s>>[1] = s /\ Len(<<s>>) = 1
  OBVIOUS
<1>7. Thing(e) # Fin /\ \A f : Thing(f) = Thing(e) => f = e
  BY ResourcesDiffer DEF Things, Targets, OfFinding
<1>8. k \in {"share", "update"}
  BY <1>3, <1>7, ResourcesDiffer DEF LockOK
<1>9. k = "update"
  <2> SUFFICES ASSUME k = "share" PROVE FALSE
    BY <1>8
  <2>1. /\ req[v].do = "propose"
        /\ \E h \in 1..req[v].at : req[v].items[h] = e /\ (h = req[v].at => req[v].rest = <<>>)
    BY <1>3, <1>7 DEF LockOK
  <2>2. ReplaceForm(v)
    BY <2>1 DEF PInv, UserOK, RequestOK, IdleOK, DecisionOK, AcceptOK, ReplaceOK, RemoveOK
  <2>3. req[v].at \in 0..1 /\ req[v].falls = {}
    BY <1>2, <1>6, <2>2 DEF ReplaceForm
  <2>4. req[v].rest = <<>>
    BY <2>1, <2>3
  <2>5. Needs(v) = {}
    BY <2>1, <2>3, <2>4 DEF Needs
  <2> QED
    BY <2>5 DEF WaitsFor
<1>10. /\ s = e \/ (e \in Endpoints /\ req[v].do = "remove" /\ s \in Texts /\ req[v].rest = <<>>)
       /\ e \in Endpoints => Held(v, Fin, "nokey")
  BY <1>2, <1>3, <1>6, <1>7, <1>9, ResourcesDiffer DEF LockOK
<1>11. s = e
  <2> SUFFICES ASSUME e \in Endpoints, req[v].do = "remove", s \in Texts, req[v].rest = <<>> PROVE FALSE
    BY <1>10
  <2>1. RemoveOK(v)
    BY DEF PInv, UserOK, RequestOK, IdleOK, DecisionOK, AcceptOK, ReplaceOK, ReplaceForm
  <2>2. Held(v, Fin, "update")
    <3>1. ~Removing(v, s)
      BY DEF Removing, RemovalLocks
    <3> QED
      BY <1>2, <1>6, <2>1, <3>1 DEF RemoveOK
  <2> QED
    BY <1>5, <2>2 DEF Conflict
<1>12. s \notin Texts /\ s # New
  BY <1>11, TargetsAre DEF Things, OfFinding
<1>13. ~AtFinding(v, s, r2, m2)
  BY <1>4, <1>10, <1>11, <1>12 DEF AtFinding, OfFinding
<1>14. ~AtFindingRemoval(v, s, r2, m2)
  BY <1>12 DEF AtFindingRemoval
<1>15. ~AtThing(v, s, r2, m2)
  BY <1>3, <1>4, <1>9, <1>11, <1>12 DEF AtThing
<1> QED
  BY <1>2, <1>12, <1>13, <1>14, <1>15 DEF Waits, AtRow

LEMMA RankRises ==
  ASSUME PInv, NEW u \in Users, ~Several(u), NEW v \in WaitsFor(u), ~Several(v), NEW w \in WaitsFor(v)
  PROVE  Rank(u) < Rank(v)
<1>a. PICK t \in Targets : v \in Users /\ \E r, m, k :
        req[u].items = <<t>> /\ Blocked(u, v, r, m, k) /\ Waits(u, t, r, m)
  BY WaitForm
<1>1. PICK r, m, k : req[u].items = <<t>> /\ Blocked(u, v, r, m, k) /\ Waits(u, t, r, m) /\ v \in Users
  BY <1>a
<1>b. PICK s \in Targets : \E x, n, o :
        req[v].items = <<s>> /\ Blocked(v, w, x, n, o) /\ Waits(v, s, x, n)
  BY <1>1, WaitForm
<1>2. PICK r2, m2, k2 : req[v].items = <<s>> /\ Blocked(v, w, r2, m2, k2) /\ Waits(v, s, r2, m2)
  BY <1>b
<1>3. LockOK(<<v, r, k>>) /\ k \in {"share", "nokey", "update"} /\ Held(v, r, k) /\ Conflict(k, m) /\ u # v
  BY <1>1, ModeOf DEF Blocked
<1>4. \A n : Held(v, r2, n) => n # "update" /\ n # m2 /\ (n = "nokey" => m2 = "update")
  BY <1>2, NotBlocked
<1>5. \A x, n, o : Held(u, x, n) /\ Held(v, x, o) => ~Conflict(n, o)
  BY <1>3 DEF PInv, Exclusive, Held
<1>6. DOMAIN <<s>> = {1} /\ <<s>>[1] = s /\ Len(<<s>>) = 1
  OBVIOUS
<1>7. s # New => s \in OfFinding \cup Things
  BY DEF Targets, Things, OfFinding
<1>8. CASE AtFinding(u, t, r, m)
  <2>1. r = Fin /\ k \in {"nokey", "update"} /\ Rank(u) = 1
    BY <1>3, <1>8 DEF AtFinding, Conflict
  <2>2. ~AtFinding(v, s, r2, m2)
    BY <1>3, <1>4, <2>1 DEF AtFinding
  <2> QED
    BY <1>2, <2>1, <2>2, IdsAreNat DEF Waits, AtFindingRemoval, AtThing, AtRow
<1>9. CASE AtFindingRemoval(u, t, r, m)
  <2>1. r = Fin /\ Held(u, Fin, "nokey") /\ Rank(u) = 2
    BY <1>9 DEF AtFindingRemoval
  <2>2. k = "share"
    BY <1>3, <1>5, <2>1 DEF Conflict
  <2>3. req[v].do = "propose" /\ req[v].at > 0
    BY <1>3, <2>1, <2>2, ResourcesDiffer DEF LockOK, Things, Targets, OfFinding
  <2>4. ~AtFinding(v, s, r2, m2)
    BY <1>3, <1>4, <2>1, <2>2, <2>3 DEF AtFinding
  <2>5. ~AtFindingRemoval(v, s, r2, m2)
    BY <1>5, <2>1 DEF AtFindingRemoval, Conflict
  <2> QED
    BY <1>2, <2>1, <2>4, <2>5, IdsAreNat DEF Waits, AtThing, AtRow
<1>10. CASE AtThing(u, t, r, m)
  BY <1>1, <1>10, HolderGoesOn DEF AtThing
<1>11. CASE AtRow(u, t, r, m)
  <2>1. PICK i \in Ids : r = Row(i) /\ Rank(u) = 3 + i /\ i \in DOMAIN prop /\ prop[i].target = New
    BY <1>11 DEF AtRow
  <2>2. Locked(v, i) /\ i \in Named(v)
    <3>1. k = "update"
      BY <1>1, <1>3, <2>1, ModeOf
    <3> QED
      BY <1>3, <2>1, <3>1, ResourcesDiffer DEF Locked, LockOK, Fin
  <2>3. s = New
    BY <1>1, <1>2, <1>6, <2>1, <2>2 DEF PInv, UserOK, AimOK
  <2>4. New \notin OfFinding /\ New \notin Things /\ New \notin Texts
    BY TargetsAre DEF Things, OfFinding
  <2>5. AtRow(v, s, r2, m2)
    BY <1>2, <2>3, <2>4 DEF Waits, AtFinding, AtFindingRemoval, AtThing
  <2> QED
    BY <2>1, <2>2, <2>5, IdsAreNat DEF AtRow
<1> QED
  BY <1>1, <1>8, <1>9, <1>10, <1>11 DEF Waits

\* In a ring somebody proposes details for several subnets.
LEMMA SomebodyProposesSeveral ==
  ASSUME PInv, NEW S \in SUBSET Users, S # {}, \A u \in S : WaitsFor(u) \cap S # {}
  PROVE  \E u \in S : Several(u)
<1> SUFFICES ASSUME \A u \in S : ~Several(u) PROVE FALSE
  OBVIOUS
<1> DEFINE Ranks == {-Rank(u) : u \in S}
<1>1. ASSUME NEW u \in S PROVE Rank(u) \in Int /\ Rank(u) <= MaxIds + 3
  <2>1. PICK v \in WaitsFor(u) : TRUE
    BY <1>1
  <2>2. PICK t \in Targets : \E r, m : Waits(u, t, r, m)
    BY <2>1, WaitForm
  <2> QED
    BY <2>2, TargetAssumption DEF Waits, AtFinding, AtFindingRemoval, AtThing, AtRow, Ids
<1>2. Ranks \subseteq Int /\ Ranks # {} /\ \A x \in Ranks : -(MaxIds + 3) <= x
  BY <1>1, TargetAssumption
<1>3. PICK u \in S : \A x \in Ranks : -Rank(u) <= x
  <2> HIDE DEF Ranks
  <2>1. PICK y \in Ranks : \A x \in Ranks : y <= x
    <3>1. PICK n \in Int : n = -(MaxIds + 3)
      BY TargetAssumption
    <3>2. \A x \in Ranks : n <= x
      BY <1>2, <3>1
    <3> QED
      BY <1>2, <3>2, LeastOf
  <2> QED
    BY <2>1 DEF Ranks
<1>4. PICK v \in WaitsFor(u) \cap S : TRUE
  OBVIOUS
<1>5. PICK w \in WaitsFor(v) \cap S : TRUE
  OBVIOUS
<1>6. Rank(u) < Rank(v)
  BY <1>4, <1>5, RankRises
<1>7. -Rank(u) <= -Rank(v)
  BY <1>3
<1> QED
  BY <1>1, <1>6, <1>7

\* Who does waits, if for somebody who waits in turn, for another who does.
LEMMA SeveralWaitForSeveral ==
  ASSUME PInv, NEW u \in Users, Several(u), NEW v \in WaitsFor(u), WaitsFor(v) # {}
  PROVE  u # v /\ Several(v)
<1> SUFFICES ASSUME u = v \/ ~Several(v) PROVE FALSE
  OBVIOUS
<1>1. PICK n \in Needs(u) : v \in Holders(u, n[1], n[2])
  BY DEF WaitsFor
<1>2. v \in Users /\ u # v /\ \E k : Blocked(u, v, n[1], n[2], k)
  BY <1>1, HolderIs DEF Blocked
<1>3. ReplaceForm(u)
  BY DEF Several, PInv, UserOK, RequestOK, IdleOK, DecisionOK, AcceptOK, ReplaceOK, RemoveOK
<1>4. \A i \in DOMAIN req[u].items : req[u].items[i] \in Subnets
  <2>1. req[u].items \in Requests
    BY <1>3 DEF ReplaceForm
  <2>2. /\ Len(req[u].items) \in 1..2 /\ DOMAIN req[u].items = 1..Len(req[u].items)
        /\ Len(req[u].items) = 2 => req[u].items[1] \in Subnets /\ req[u].items[2] \in Subnets
    BY <2>1, RequestsAre
  <2>3. PICK k \in 1..2 : k = Len(req[u].items)
    BY <2>2
  <2>4. k = 2
    BY <2>3 DEF Several
  <2> QED
    BY <2>2, <2>3, <2>4
<1>5. req[u].rest # <<>>
  BY <1>1, <1>3 DEF ReplaceForm, Needs
<1>6. PICK r, m : Head(req[u].rest) = <<r, m>>
  BY <1>5, OnTheWay, DecidingOn, InsertingOn, RemovingOn
<1>7. PICK k : Blocked(u, v, r, m, k)
  BY <1>1, <1>2, <1>5, <1>6 DEF Needs
<1>8. ASSUME NEW e \in Subnets, r = Thing(e), m \in {"share", "update"} PROVE FALSE
  <2>1. e \in Things /\ e \notin Endpoints
    BY <1>8, TargetAssumption DEF Things, OfFinding
  <2> QED
    BY <1>2, <1>7, <1>8, <2>1, HolderGoesOn
<1>9. CASE \E i \in Ids, t \in Targets : req[u].at = 0 /\ Claiming(u, i, t) /\ Deciding(u, i, t)
  <2>1. PICK i \in Ids, t \in Targets : Claiming(u, i, t) /\ Deciding(u, i, t)
    BY <1>9
  <2>2. t \in Subnets /\ t \notin Texts /\ t \notin Endpoints
    BY <1>4, <2>1, TargetAssumption DEF Claiming, OfFinding
  <2>3. CASE r = Thing(t) /\ m = "update"
    BY <1>8, <2>2, <2>3
  <2>4. CASE r = Row(i) /\ m = "update" /\ Guards(u, t)
    <3>1. Held(v, Row(i), k)
      BY <1>7, <2>4 DEF Blocked
    <3>2. Locked(v, i)
      BY <1>2, <3>1, ModeOf DEF Locked
    <3>3. Pending(i) /\ Guards(v, prop[i].target)
      BY <1>2, <3>2 DEF PInv, UserOK, RowsGuarded
    <3>4. prop[i].target = t
      BY <2>1, <3>3 DEF Claiming, Pending
    <3> QED
      BY <1>2, <2>2, <2>4, <3>3, <3>4, GuardsClash DEF Things
  <2> QED
    BY <1>6, <2>1, <2>2, <2>3, <2>4, DecidingOn
<1>10. CASE \E t \in Targets : req[u].at \in 1..Len(req[u].items) /\ t = req[u].items[req[u].at] /\ Inserting(u, t)
  <2>1. PICK t \in Targets : req[u].at \in 1..Len(req[u].items) /\ t = req[u].items[req[u].at] /\ Inserting(u, t)
    BY <1>10
  <2>2. t \in Subnets /\ t \notin Texts /\ t \notin Endpoints
    BY <1>3, <1>4, <2>1, RequestsAre, TargetAssumption DEF ReplaceForm, OfFinding
  <2> QED
    BY <1>6, <1>8, <2>1, <2>2, InsertingOn
<1> QED
  BY <1>3, <1>5, <1>9, <1>10, OnTheWay DEF ReplaceForm, DecisionOK, RemoveOK

\* A ring needs two requests that each propose details for several subnets.
RingsAreOfSeveral ==
  \A S \in SUBSET Users :
    S # {} /\ (\A u \in S : WaitsFor(u) \cap S # {}) =>
      \E u, v \in S : u # v /\ Several(u) /\ Several(v)

\* Whatever is decided, replaced, inserted and deleted at a time, requests wait for each other
\* only if two of them propose details for several subnets (and those may: the code has that ring).
THEOREM OnlySeveralDeadlock == Spec => []RingsAreOfSeveral
<1>1. PInv => RingsAreOfSeveral
  <2> SUFFICES ASSUME PInv, NEW S \in SUBSET Users, S # {}, \A u \in S : WaitsFor(u) \cap S # {}
               PROVE  \E u, v \in S : u # v /\ Several(u) /\ Several(v)
    BY DEF RingsAreOfSeveral
  <2>1. PICK u \in S : Several(u)
    BY SomebodyProposesSeveral
  <2>2. PICK v \in WaitsFor(u) \cap S : TRUE
    BY <2>1
  <2>3. WaitsFor(v) # {}
    BY <2>2
  <2>4. u # v /\ Several(v)
    BY <2>1, <2>2, <2>3, SeveralWaitForSeveral
  <2> QED
    BY <2>1, <2>2, <2>4
<1> QED
  BY <1>1, Invariant, PTL

\* No requests wait for each other, as long as none proposes details for several subnets.
THEOREM NoRingOfOnes ==
  ASSUME MaxItems < 2
  PROVE  Spec => []NoDeadlock
<1>1. PInv => \A u \in Users : ~Several(u)
  <2> SUFFICES ASSUME PInv, NEW u \in Users PROVE ~Several(u)
    OBVIOUS
  <2>1. CASE ReplaceOK(u)
    <3>1. req[u].items \in Requests
      BY <2>1 DEF ReplaceOK, ReplaceForm
    <3>2. PICK t \in Targets : req[u].items = <<t>>
      <4>1. \A s \in Subnets \X Subnets : Len(s) = 2
        OBVIOUS
      <4> QED
        BY <3>1, <4>1, TargetAssumption DEF Requests
    <3> QED
      BY <3>2 DEF Several
  <2> QED
    BY <2>1 DEF Several, PInv, UserOK, RequestOK, IdleOK, DecisionOK, AcceptOK, RemoveOK
<1>2. RingsAreOfSeveral /\ (\A u \in Users : ~Several(u)) => NoDeadlock
  BY DEF RingsAreOfSeveral, NoDeadlock
<1> QED
  BY <1>1, <1>2, OnlySeveralDeadlock, Invariant, PTL

-----------------------------------------------------------------------------
(* What becomes of the rows.                                               *)

\* Row i stays as decided as it was.
Unmoved(i) == /\ i \in DOMAIN prop /\ prop'[i].status = prop[i].status
              /\ prop'[i].by \in {prop[i].by, None}

\* No change is applied: a pending proposal is rejected or gives way, a new one shows.
NoneApplied ==
  /\ applied' = applied
  /\ \A i \in DOMAIN prop' :
       \/ Unmoved(i)
       \/ Pending(i) /\ prop'[i].status \in {"rejected", "superseded"}
       \/ prop'[i].status = "pending" /\ \E u \in Users : i \in Reserved(u)

\* That of i is, and others give way.
OneApplied(i) ==
  /\ Pending(i) /\ applied' = [applied EXCEPT ![i] = @ + 1] /\ DOMAIN prop' = DOMAIN prop
  /\ prop'[i].status = "accepted"
  /\ \A j \in DOMAIN prop \ {i} : Unmoved(j) \/ (Pending(j) /\ prop'[j].status = "superseded")

LEMMA RowsMove ==
  ASSUME PInv, [Next]_vars
  PROVE  NoneApplied \/ \E i \in Ids : OneApplied(i)
<1>1. CASE prop' = prop /\ applied' = applied
  BY <1>1 DEF NoneApplied, Unmoved
<1>2. ASSUME NEW u \in Users, NEW t \in Targets, Edit(u, t) PROVE NoneApplied
  <2>1. \A i \in DOMAIN prop : prop[i] \in Proposal
    BY DEF PInv, TypeOK
  <2>2. DOMAIN prop' = DOMAIN prop /\ prop' = Outdated(prop, t) /\ applied' = applied
    BY <1>2 DEF Edit, Outdated
  <2> QED
    BY <2>1, <2>2, OutdatedRows DEF NoneApplied, Unmoved
<1>3. ASSUME NEW u \in Users, CommitAccept(u) PROVE \E i \in Ids : OneApplied(i)
  <2>1. PICK i \in Ids, S \in SUBSET Ids, t \in Targets : AcceptOf(u, i, S, t)
    BY <1>3, AcceptRows
  <2>2. OneApplied(i)
    BY <2>1 DEF AcceptOf, OneApplied, Unmoved, Pending
  <2> QED
    BY <2>2
<1>4. ASSUME NEW u \in Users, CommitReject(u) PROVE NoneApplied
  <2>1. PICK i \in Ids : i = req[u].p /\ Pending(i)
    BY <1>4, DecisionReady DEF CommitReject, Ready
  <2>2. prop' = [prop EXCEPT ![i].status = "rejected"] /\ applied' = applied
    BY <1>4, <2>1 DEF CommitReject
  <2>3. \A j \in DOMAIN prop : prop[j] \in Proposal
    BY DEF PInv, TypeOK
  <2>4. /\ DOMAIN prop' = DOMAIN prop /\ prop'[i].status = "rejected"
        /\ \A j \in DOMAIN prop \ {i} : prop'[j] = prop[j]
    BY <2>1, <2>2, <2>3 DEF Pending, Proposal
  <2> QED
    BY <2>1, <2>2, <2>4 DEF NoneApplied, Unmoved
<1>5. ASSUME NEW u \in Users, CommitProposals(u) PROVE NoneApplied
  <2>1. PICK new : new = req[u].p..(req[u].p + Len(req[u].items) - 1)
    OBVIOUS
  <2>2. new = Reserved(u)
    BY <1>5, <2>1 DEF Reserved, CommitProposals, Ready
  <2>3. \A j \in DOMAIN prop : prop[j] \in Proposal
    BY DEF PInv, TypeOK
  <2>4. /\ applied' = applied /\ DOMAIN prop' = DOMAIN prop \cup new
        /\ \A j \in DOMAIN prop' : j \in new => prop'[j].status = "pending"
        /\ \A j \in DOMAIN prop' \ new : j \in req[u].olds => prop'[j].status = "superseded"
        /\ \A j \in DOMAIN prop' \ new : j \notin req[u].olds => prop'[j] = prop[j]
    BY <1>5, <2>1, <2>3 DEF CommitProposals, Proposal
  <2>5. \A j \in req[u].olds : Pending(j)
    BY <1>5, ReplaceReady
  <2> QED
    BY <2>2, <2>4, <2>5 DEF NoneApplied, Unmoved
<1>6. ASSUME NEW u \in Users, CommitRemove(u) PROVE NoneApplied
  <2>1. PICK rows : rows = Rows(req[u].items[1])
    OBVIOUS
  <2>2. /\ applied' = applied
        /\ prop' = [j \in DOMAIN prop \ rows |->
                      IF prop[j].by \in rows THEN [prop[j] EXCEPT !.by = None] ELSE prop[j]]
    BY <1>6, <2>1 DEF CommitRemove
  <2>3. \A j \in DOMAIN prop : prop[j] \in Proposal
    BY DEF PInv, TypeOK
  <2> QED
    BY <2>2, <2>3 DEF NoneApplied, Unmoved, Proposal
<1> QED
  BY <1>1, <1>2, <1>3, <1>4, <1>5, <1>6 DEF Next, Step, vars, Decide, Propose, DeleteTarget, Begin,
     Take, Cascade, LeaveForLater, Refuse, Leave, Apply

\* The shapes of the requests, of the locks and of the proposals.
THEOREM TypeCorrect == Spec => []TypeOK
<1>1. PInv => TypeOK
  BY DEF PInv
<1> QED
  BY <1>1, Invariant, PTL

\* A change is committed once when its proposal is accepted, and never otherwise.
THEOREM ChangesAppliedOnce == Spec => []AppliedOnce
<1>1. Init => AppliedOnce
  <2> SUFFICES ASSUME Init, NEW i \in DOMAIN prop PROVE applied[i] = 0 /\ prop[i].status = "pending"
    BY DEF AppliedOnce
  <2>1. CASE prop = <<>>
    <3>1. DOMAIN prop = {}
      BY <2>1
    <3> QED
      BY <3>1
  <2>2. CASE prop \in [{1} -> {[target |-> t, owner |-> u, status |-> "pending",
                               base |-> "unknown", by |-> None] : t \in Texts, u \in Users}]
    BY <2>2, TargetAssumption DEF Init, Ids
  <2> QED
    BY <2>1, <2>2 DEF Init
<1>2. AppliedOnce /\ PInv /\ [Next]_vars => AppliedOnce'
  <2> SUFFICES ASSUME AppliedOnce, PInv, [Next]_vars, NEW i \in DOMAIN prop'
               PROVE  applied'[i] = (IF prop'[i].status = "accepted" THEN 1 ELSE 0)
    BY DEF AppliedOnce
  <2>1. CASE NoneApplied
    <3>1. CASE Unmoved(i)
      BY <2>1, <3>1 DEF NoneApplied, Unmoved, AppliedOnce
    <3>2. CASE Pending(i) /\ prop'[i].status \in {"rejected", "superseded"}
      BY <2>1, <3>2 DEF NoneApplied, Pending, AppliedOnce
    <3>3. CASE prop'[i].status = "pending" /\ \E u \in Users : i \in Reserved(u)
      BY <2>1, <3>3 DEF NoneApplied, PInv, Fresh
    <3> QED
      BY <2>1, <3>1, <3>2, <3>3 DEF NoneApplied
  <2>2. CASE \E k \in Ids : OneApplied(k)
    <3>1. PICK k \in Ids : OneApplied(k)
      BY <2>2
    <3>2. i \in DOMAIN prop /\ i \in Ids /\ applied \in [Ids -> Nat]
      BY <3>1 DEF OneApplied, PInv, TypeOK
    <3>3. CASE i = k
      <4>1. applied[i] = 0
        BY <3>1, <3>3 DEF OneApplied, Pending, AppliedOnce
      <4> QED
        BY <3>1, <3>2, <3>3, <4>1 DEF OneApplied
    <3>4. CASE i # k
      <4>1. applied'[i] = applied[i]
        BY <3>1, <3>2, <3>4 DEF OneApplied
      <4> QED
        BY <3>1, <3>2, <3>4, <4>1 DEF OneApplied, Unmoved, Pending, AppliedOnce
    <3> QED
      BY <3>3, <3>4
  <2> QED
    BY <2>1, <2>2, RowsMove
<1> QED
  BY <1>1, <1>2, Invariant, PTL DEF Spec

\* A decision stays, and a proposal that gave way points at what replaced it until that is gone.
THEOREM DecisionsAreKept == Spec => DecisionsStay
<1>1. PInv /\ [Next]_vars =>
        [\A i \in DOMAIN prop \cap DOMAIN prop' :
           prop[i].status # "pending" => /\ prop'[i].status = prop[i].status
                                         /\ prop'[i].by \in {prop[i].by, None}]_vars
  <2> SUFFICES ASSUME PInv, [Next]_vars, NEW i \in DOMAIN prop \cap DOMAIN prop', prop[i].status # "pending"
               PROVE  Unmoved(i)
    BY DEF Unmoved
  <2>1. \A u \in Users : i \notin Reserved(u)
    BY DEF PInv, Fresh
  <2> QED
    BY <2>1, RowsMove DEF NoneApplied, OneApplied, Pending
<1> QED
  BY <1>1, Invariant, PTL DEF Spec, DecisionsStay

\* A bulk accept replaces nothing its draft was not written against.
THEOREM BulkReplacesWhatWasSeen == Spec => BulkSpares
<1>1. PInv /\ [Next]_vars =>
        [bulk' # None /\ prop[bulk'].target \in Superseding => prop[bulk'].base = "same"]_vars
  <2> SUFFICES ASSUME PInv, Next, bulk' # None, prop[bulk'].target \in Superseding
               PROVE  prop[bulk'].base = "same"
    OBVIOUS
  <2>1. PICK u \in Users : CommitAccept(u)
    BY DEF Next, Step, Decide, Propose, DeleteTarget, Edit, Begin, Take, Cascade, LeaveForLater, Refuse,
       Leave, Apply, CommitReject, CommitProposals, CommitRemove
  <2>2. AcceptOK(u) /\ req[u].do = "bulk applied" /\ bulk' = req[u].p
    BY <2>1, AcceptReady DEF CommitAccept
  <2> QED
    BY <2>2 DEF AcceptOK, Left
<1> QED
  BY <1>1, Invariant, PTL DEF Spec, BulkSpares
=============================================================================
