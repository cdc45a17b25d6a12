SPECIFICATION SagaSpec
CONSTANTS
  r1 = r1
  r2 = r2
  r3 = r3
  a1 = a1
  a2 = a2
  b1 = b1
  alice = alice
  bob = bob
  key1 = key1
  key2 = key2
  p1 = p1
  p2 = p2
  q1 = q1
  None = None
  Checkouts = {r1, r2}
  Carts = {a1}
  Customers = {alice, bob}
  Keys = {key1, key2}
  Products = {p1, p2}
  Coupons = {q1}
  Owner <- CartOwner
  Client <- RequestBy
  KeyOf <- RequestKey
  IfMatch <- Expected
  MaxUses <- OneUse
  Rank <- ById
  Baskets <- AnyContent
  MaxVersion = 1
  MaxQty = 1
  MaxStock = 1
  InitialStock = 1
INVARIANT
  FailureRestoresCoupons
CHECK_DEADLOCK FALSE
