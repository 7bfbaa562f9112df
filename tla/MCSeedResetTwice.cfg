CONSTANTS
  r1 = r1
  r2 = r2
  n1 = n1
  Reset = {r1, r2}
  NewId = {}
  Product = {"notebook", "mug", "hoodie"}
  MayKill = FALSE
SPECIFICATION Spec
INVARIANT FixturesAssertHold
CHECK_DEADLOCK FALSE
