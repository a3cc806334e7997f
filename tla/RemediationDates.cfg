\* One record over four days; the policy gives the severity one day or two.
CONSTANTS
  LastDay = 4
  Timelines = {1, 2}
  SoonDays = 1
  MaxSent = 2
SPECIFICATION Spec
PROPERTIES
  SetStays
  AlertedOnce
  OverdueTold
CHECK_DEADLOCK FALSE
