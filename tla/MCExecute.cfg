SPECIFICATION FairSpec
CONSTANTS
  skill = skill
  connector = connector
  Skills = {skill}
  Connectors = {connector}
  ServerStatuses = {"pending", "toolless", "connected"}
  Results <- SomeResults
  HelperFds <- Fds
  PipeSize = 2
  StreamFaults = TRUE
INVARIANTS ToolsAreCounted SuccessIsEarned OutcomeIsKept
PROPERTIES RunEndsUnlessHeld ImplementsProcess
CHECK_DEADLOCK FALSE
