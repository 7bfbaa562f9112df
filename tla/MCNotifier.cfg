SPECIFICATION FairSpec
CONSTANTS
  urgent = urgent
  minor = minor
  Alert = {urgent, minor}
  Worthy = {urgent}
  QueueMaxSize = 2
  Recipients = 2
  HasCredentials = TRUE
  ServerMayStall = TRUE
  AnswerMayBeLost = TRUE
  MaxPayload = 2
  MaxTasks = 3
  MaxCrashes = 1
INVARIANTS
  TypeOK
  PendingIsBacklog
  SecondMailNeedsFailure
  ProcessedLeavesRecord
PROPERTIES
  NoMailAfterSent
  EndsUnlessStalled
CHECK_DEADLOCK FALSE
