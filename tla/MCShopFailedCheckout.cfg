SPECIFICATION Spec
CONSTANTS
  c1 = c1
  c2 = c2
  v1 = v1
  v2 = v2
  k0 = k0
  k1 = k1
  k2 = k2
  ok = ok
  declined = declined
  a1 = a1
  r1 = r1
  r2 = r2
  r3 = r3
  None = None
  Request = {r1, r2}
  Body <- MCBody
  SeedId <- MCSeedId
  SeedDb <- MCSeedDb
  Customer = {c1, c2}
  Address = {a1}
  AddressOf <- MCAddressOf
  Variant = {v1, v2}
  Price <- MCPrice
  StockLevel = {0, 2}
  MaxQuantity = 2
  Key = {k0, k1, k2}
  Succeeded = ok
  FailureCode = {declined}
  Connections = {3}
INVARIANTS
  FailedCheckoutLeavesNoOrder
CHECK_DEADLOCK FALSE
