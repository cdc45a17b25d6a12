SPECIFICATION FairLifecycle
CONSTANTS
  Checkouts = {c1}
  Products = {p1}
  MaxQty = 1
  MaxStock = 1
  InitialStock = 1
  Carts = {k1, k2}
  Customers = {u1}
  Owner <- OneCustomer
  Baskets <- SmallBaskets
  Outcomes = {"unconfigured"}
  CaptureReports = {"captured"}
  FailureStatus = "failed"
  UnknownReports = {}
  Admins = {a1}
  SweepBatch = 1
  ReconcileBatch = 1
  None = None
PROPERTY
  HoldsEnd
CHECK_DEADLOCK FALSE
