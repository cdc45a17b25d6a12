SPECIFICATION FairLifecycle
CONSTANTS
  Checkouts = {c1, c2}
  Products = {p1, p2}
  MaxQty = 1
  MaxStock = 1
  InitialStock = 1
  Carts = {k1}
  Customers = {u1}
  Owner <- OneCustomer
  Baskets <- SmallBaskets
  Outcomes = {"captured", "async", "capture_raised", "gateway_error", "invoiced"}
  CaptureReports = {"captured"}
  FailureStatus = "pending"
  UnknownReports = {"authorized", "captured"}
  Admins = {a1}
  SweepBatch = 1
  ReconcileBatch = 1
  None = None
PROPERTIES
  HoldsEnd
  StuckPaymentResolved
CHECK_DEADLOCK FALSE
