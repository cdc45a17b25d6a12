SPECIFICATION FairLifecycle
CONSTANTS
  Checkouts = {c1, c2}
  Products = {p1}
  MaxQty = 1
  MaxStock = 2
  InitialStock = 2
  Carts = {k1, k2}
  Customers = {u1}
  Owner <- OneCustomer
  Baskets <- SmallBaskets
  Outcomes = {"async"}
  CaptureReports = {"captured"}
  FailureStatus = "pending"
  UnknownReports = {}
  Admins = {}
  SweepBatch = 1
  ReconcileBatch = 1
  None = None
PROPERTY
  SweepReachesEvery
CHECK_DEADLOCK FALSE
