\* Five transactions of a project admin and of somebody who is none, on two hosts.
CONSTANTS
  Hosts = {h1, h2}
  Actors = {u1, u2}
  Admins = {u1}
  MaxTx = 5
SPECIFICATION Spec
INVARIANTS
  TrailUnbroken
  RetestOnItsRow
PROPERTIES
  NoWayRound
  ResultsDoNotJudge
SYMMETRY HostSymmetry
CHECK_DEADLOCK FALSE
