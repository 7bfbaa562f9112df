SPECIFICATION Spec
CONSTANTS
  r1 = r1
  r2 = r2
  r3 = r3
  Run = {r1, r2, r3}
  Scenario = {"down", "memory"}
  Steps <- TwoSteps
  MaxCancels = 2
  None = None
SYMMETRY Symmetric
INVARIANTS
  TypeOK
  OneRunAtATime
  QueueIsWaiting
  NoLoadAfterFinish
PROPERTIES
  FinishedIsFinal
CHECK_DEADLOCK FALSE
