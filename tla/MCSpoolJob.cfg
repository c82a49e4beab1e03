SPECIFICATION FairSpec
CONSTANTS
  c1 = c1
  c2 = c2
  poll = poll
  hup = hup
  Lasting = {}
  Queues = {"qa"}
  Clients = {c1}
  Loaders = {}
  MaxJobs = 2
  Priorities = {0}
  Keys = {}
  NoKey = "-"
  maxCapabilityRetries = 2
  MaxRuns = 1
  MaxCrashes = 1
  MaxEdits = 0
  Faults = {}
INVARIANTS
  TypeOK
  AtMostOnce
  RunningIsOwned
  CurrentIsRunning
  ChildrenOfRetryable
PROPERTIES
  TerminalIsFinal
  RunningEnds
  QueuedSettles
