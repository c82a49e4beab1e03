SPECIFICATION Spec
CONSTANTS
  check = check
  operator = operator
  Checks = {}
  Operators = {operator}
  Events = {}
  KeepaliveOn = TRUE
  MaxCrashes = 0
INVARIANTS
  ExpiredMeansBlocked
CHECK_DEADLOCK FALSE
