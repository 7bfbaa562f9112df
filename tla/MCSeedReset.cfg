SPECIFICATION Spec
CONSTANTS
  r1 = r1
  r2 = r2
  n1 = n1
  Reset = {r1, r2}
  NewId = {n1}
  Product = {"notebook", "mug", "hoodie"}
  MayKill = TRUE
SYMMETRY Callers
INVARIANT AloneIsNeverRefused
PROPERTY AloneRestores
CHECK_DEADLOCK FALSE
