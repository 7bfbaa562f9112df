SPECIFICATION FairSpec
CONSTANTS
  r1 = r1
  r2 = r2
  r3 = r3
  Run = {r1, r2}
  Scenario = {"tempo", "delay", "memory"}
  Steps <- ThreeSteps
  MaxCancels = 2
  None = None
INVARIANTS
  BrokenOnlyByCancel
PROPERTIES
  EveryRunEnds
CHECK_DEADLOCK FALSE
