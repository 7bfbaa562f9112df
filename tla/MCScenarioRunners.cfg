SPECIFICATION FairSpec
CHECK_DEADLOCK FALSE
CONSTANTS
  MaxQuantity = 20
  MaxVus = 4
  Starts <- MCStarts
  Probes <- MCProbes
INVARIANTS BatchesGreen KpisAgree PackPasses
PROPERTY BatchEnds
