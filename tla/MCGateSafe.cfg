SPECIFICATION Spec
CONSTANTS
  check = check
  operator = operator
  Checks = {check}
  Operators = {operator}
  Events = {"expire", "login"}
  KeepaliveOn = TRUE
  MaxCrashes = 1
INVARIANTS
  ExpiryIsAnnounced
