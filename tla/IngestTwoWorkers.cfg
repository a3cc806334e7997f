\* Two workers, as the claim allows, over one upload that is cancelled,
\* retried, reaped and claimed again.
CONSTANTS
  Jobs = {1}
  MaxClaims = 3
  MaxReaps = 1
  Workers = {w1, w2}
  FileOf <- OwnFiles
  Repeatable = {}
  Parsers = 1
  MaxScans = 3
  MaxFaults = 1
  MaxAsks = 2
SYMMETRY WorkerSymmetry
SPECIFICATION Spec
INVARIANTS
  PublishedByOwner
  ImportedOnce
PROPERTIES
  FencedCleanupSparesLive
  KeepsContract
