SPECIFICATION FairSpec
CONSTANTS
  check = check
  operator = operator
  Checks = {}
  Operators = {}
  Events = {"expire", "restore", "login", "usage", "cut"}
  KeepaliveOn = TRUE
  MaxCrashes = 0
PROPERTIES
  GateReopens
