\* Two people's agents, each request for both subnets of the scope.
CONSTANTS
  Users = {u1, u2}
  Subnets = {1, 2}
  Texts = {}
  Endpoints = {}
  MaxIds = 6
  MaxItems = 2
SPECIFICATION Spec
INVARIANTS
  NoDeadlock
CHECK_DEADLOCK FALSE
