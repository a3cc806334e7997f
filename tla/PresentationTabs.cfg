\* Two tabs and a Display, two requests in flight, one version of an agenda.
CONSTANTS
  Tabs = {t1, t2}
  Displays = {d1}
  Requests = {r1, r2}
  MaxRows = 1
  MaxRevision = 4
  MaxVersions = 1
SPECIFICATION Spec
SYMMETRY TabSymmetry
INVARIANT AgendaShows
 
CHECK_DEADLOCK FALSE
