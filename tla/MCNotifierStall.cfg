SPECIFICATION FairSpec
CONSTANTS
  urgent = urgent
  minor = minor
  Alert = {urgent, minor}
  Worthy = {urgent}
  QueueMaxSize = 2
  Recipients = 1
  HasCredentials = FALSE
  ServerMayStall = TRUE
  AnswerMayBeLost = TRUE
  MaxPayload = 2
  MaxTasks = 2
  MaxCrashes = 0
PROPERTIES
  EveryIncidentEnds
CHECK_DEADLOCK FALSE
