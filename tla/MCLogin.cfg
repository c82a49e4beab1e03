SPECIFICATION FairSpec
CONSTANTS
  s1 = s1
  s2 = s2
  c1 = c1
  job = job
  Procs = {s1, s2, job}
  Nobody = Nobody
  Abandoned = Abandoned
  MaxAbandoned = 1
  Starters = {s1, s2}
  Submitters = {c1}
  None = None
INVARIANTS
  HolderIsTrue
  ChildHoldsLock
PROPERTIES
  Implements
  WaitEnds
  AttemptEnds
