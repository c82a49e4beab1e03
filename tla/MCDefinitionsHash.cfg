SPECIFICATION Spec
CONSTANTS
  Files = {"optional", "required", "removed", "undeclared"}
  Text <- MCText
  DefaultRetention = 1
  Missing = "missing"
  Loaders = {"poll"}
  MaxEdits = 1
  MaxTrouble = 1
  MaxJobTrouble = 1
  MaxCrashes = 0
  Jobs = {1}
  ArgNames = {"url"}
  Nothing = Nothing
  MaxAge = 0
INVARIANTS
  HashIsTrue
CHECK_DEADLOCK FALSE
