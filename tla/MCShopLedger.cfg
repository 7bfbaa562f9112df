SPECIFICATION Spec
CONSTANTS
  c1 = c1
  c2 = c2
  v1 = v1
  v2 = v2

  k1 = k1
  k2 = k2
  ok = ok
  declined = declined
  x1 = x1
  x2 = x2
  x3 = x3
  Id <- MCId
  Customer = {c1, c2}
  Variant = {v1, v2}
  Key = {k1, k2}
  Succeeded = ok
  FailureCode = {declined}
  MaxQuantity = 2
  SeedCarts <- MCSeedCarts
  SeedLines <- MCSeedLines
  SeedOrders <- MCSeedOrders
  SeedItems <- MCSeedItems
  SeedAttempts <- MCSeedAttempts
  SeedPaid = {}
CONSTRAINT NamesApart
SYMMETRY NewIdSymmetry
INVARIANTS
  TypeOK
  Consistent
  OneActiveCart
  CartOrderedWhole
  ItemsMatchLines
  PaidIffSucceeded
PROPERTIES
  OrderedLinesFrozen
CHECK_DEADLOCK FALSE
