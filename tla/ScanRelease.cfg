\* Four scans of one host, a batch each, deleted by either path in any order, with
\* notes and findings put on the host meanwhile.
CONSTANTS
  MaxScan = 4
  MaxReports = 1
SPECIFICATION Spec
INVARIANTS
  OthersKeep
  FirstRecorderReal
  NothingLeftBehind
  PathsAgree
PROPERTIES
  UnconfirmedSparesWork
CHECK_DEADLOCK FALSE
