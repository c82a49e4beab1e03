SPECIFICATION MCSpec
CONSTANTS
  Files = {"optional", "required", "removed", "undeclared"}
  Text <- MCText
  DefaultRetention = 1
  Missing = "missing"
  Loaders = {"poll", "hup"}
  MaxEdits = 3
  MaxTrouble = 3
  MaxJobTrouble = 2
  MaxCrashes = 1
  Jobs = {1}
  ArgNames = {"url"}
  Nothing = Nothing
  MaxAge = 2
INVARIANTS
  TypeOK
  RenderedAsValidated
PROPERTIES
  EditIsAdopted
  TranscriptGoes
CHECK_DEADLOCK FALSE
