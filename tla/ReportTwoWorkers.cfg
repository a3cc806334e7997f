\* Two workers, an issued report that may be rendered again and two previews of one
\* draft, with stale leases.
CONSTANTS
  Jobs = {1, 2, 3, 4}
  MaxClaims = 3
  MaxReaps = 1
  Workers = {w1, w2}
  Issues = {1, 4}
  Previews = {2, 3}
  MaxDirs = 1
  MaxFaults = 0
  MaxDrops = 0
  MaxAsks = 0
SYMMETRY WorkerSymmetry
SPECIFICATION Spec
INVARIANTS
  PublishedFilesMatch
  PendingHasJob
  NewestPreviewRuns
PROPERTY KeepsContract
