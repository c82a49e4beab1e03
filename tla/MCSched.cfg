SPECIFICATION Spec
CONSTANTS
  Queues = {1, 2, 3}
  Weights = {1, 2, 3}
INVARIANTS
  CreditsBalance
  NotStarved
  Proportional
