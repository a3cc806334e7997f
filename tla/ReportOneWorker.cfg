\* One worker, as deployed, under fairness: an issued report and a download, a crash, a
\* dropped statement or answer and a retry.  They make at most five claims and three
\* directories, so neither bound ever stops the worker.
CONSTANTS
  Jobs = {1, 2}
  MaxClaims = 5
  MaxReaps = 1
  Workers = {1}
  Issues = {1}
  Previews = {}
  MaxDirs = 3
  MaxFaults = 1
  MaxDrops = 1
  MaxAsks = 1
SPECIFICATION FairSpec
INVARIANT ArtifactStays
PROPERTIES
  NoArtifactLeaks
  NeverReplaced
  RenderSettles
