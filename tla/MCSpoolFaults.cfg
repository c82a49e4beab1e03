SPECIFICATION Spec
CONSTANTS
  c1 = c1
  c2 = c2
  poll = poll
  hup = hup
  Lasting = {"qb"}
  Queues = {"qa", "qb"}
  Clients = {c1}
  Loaders = {poll, hup}
  MaxJobs = 1
  Priorities = {0}
  Keys = {}
  NoKey = "-"
  maxCapabilityRetries = 2
  MaxRuns = 1
  MaxCrashes = 2
  MaxEdits = 2
  Faults = {"stream", "store"}
CONSTRAINT Bound
SYMMETRY Symmetry
INVARIANTS
  EventMatchesStatus
  FinishedHasEvent
PROPERTIES
  RecoveryReconciles
