\* One worker under fairness, two uploads waiting for it.  Without retries,
\* two jobs and one fault make at most three claims and three scans, so neither
\* bound ever stops the worker.
CONSTANTS
  Jobs = {1, 2}
  MaxClaims = 3
  MaxReaps = 1
  Workers = {1}
  FileOf <- OwnFiles
  Repeatable = {}
  Parsers = 1
  MaxScans = 3
  MaxFaults = 1
  MaxAsks = 0
SPECIFICATION FairSpec
PROPERTIES
  JobsEnd
  LeftoversGo
