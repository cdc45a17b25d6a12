SPECIFICATION LifecycleSpec
CONSTANTS
  Checkouts = {c1}
  Products = {p1}
  MaxQty = 1
  MaxStock = 1
  InitialStock = 1
  Carts = {k1}
  Customers = {u1}
  Owner <- OneCustomer
  Baskets <- SmallBaskets
  Outcomes = {"async"}
  CaptureReports = {"captured"}
  FailureStatus = "failed"
  UnknownReports = {}
  Admins = {a1}
  SweepBatch = 1
  ReconcileBatch = 1
  None = None
INVARIANT
  PaidHasStock
CHECK_DEADLOCK FALSE
