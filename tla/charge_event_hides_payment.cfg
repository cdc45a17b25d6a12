SPECIFICATION FairLifecycle
CONSTANTS
  Checkouts = {c1}
  Products = {p1}
  MaxQty = 1
  MaxStock = 1
  InitialStock = 1
  Carts = {k1}
  Customers = {u1}
  Owner <- OneCustomer
  Baskets <- SmallBaskets
  Outcomes = {"async"}
  CaptureReports = {"captured"}
  FailureStatus = "pending"
  UnknownReports = {"captured"}
  Admins = {}
  SweepBatch = 1
  ReconcileBatch = 1
  None = None
PROPERTY
  PendingPaymentConverges
CHECK_DEADLOCK FALSE
