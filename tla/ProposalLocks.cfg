\* Two people, one subnet, one report text and one endpoint of its finding, two proposals.
CONSTANTS
  Users = {u1, u2}
  Subnets = {1}
  Texts = {2}
  Endpoints = {3}
  MaxIds = 2
  MaxItems = 1
SPECIFICATION Spec
SYMMETRY UserSymmetry
INVARIANTS
  NoDeadlock
  AppliedOnce
PROPERTIES
  BulkSpares
CHECK_DEADLOCK FALSE
