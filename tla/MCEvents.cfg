SPECIFICATION FairSpec
CONSTANTS
  executor = executor
  request = request
  wide = wide
  narrow = narrow
  hook = hook
  mail = mail
  gone = gone
  none = none
  Emitters = {executor, request}
  Envelopes <- MCEnvelopes
  ServiceEvents = {"auth.required", "queue.auto_paused"}
  NoQueue = none
  Notify <- MCNotify
  Webhooks <- MCWebhooks
  Tokens <- MCTokens
  Buffer = 1
  MaxEvents = 2
  MaxRows = 2
  batchSize = 1
  Cap = 2
  RetryWindow = 3
  MaxTries = 3
  MaxFaults = 1
INVARIANTS
  DeliveredWasReceived
  BatchIsFresh
  DeadWasTried
  LiveStreamIsFaithful
  OutboxIsExact
PROPERTIES
  EmissionEnds
  EventSettles
CHECK_DEADLOCK FALSE
