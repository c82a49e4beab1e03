SPECIFICATION Spec
CONSTANTS
  c1 = c1
  c2 = c2
  poll = poll
  hup = hup
  Lasting = {}
  Queues = {"qa"}
  Clients = {c1, c2}
  Loaders = {}
  MaxJobs = 2
  Priorities = {0, 1}
  Keys = {"k"}
  NoKey = "-"
  maxCapabilityRetries = 1
  MaxRuns = 0
  MaxCrashes = 0
  MaxEdits = 0
  Faults = {}
SYMMETRY Symmetry
INVARIANTS
  KeysUnique
  EventMatchesStatus
