\* One worker, as deployed; two uploads of the same file.
CONSTANTS
  Jobs = {1, 2}
  MaxClaims = 3
  MaxReaps = 1
  Workers = {1}
  FileOf <- OneFile
  Repeatable = {}
  Parsers = 2
  MaxScans = 3
  MaxFaults = 1
  MaxAsks = 1
SPECIFICATION Spec
INVARIANTS
  NoOrphanScan
  FileWhileNeeded
  OneOpenPerFile
PROPERTIES
  CleanupSparesFinished
