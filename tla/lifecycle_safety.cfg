SPECIFICATION LifecycleSpec
CONSTANTS
  Checkouts = {c1, c2}
  Products = {p1}
  MaxQty = 1
  MaxStock = 1
  InitialStock = 1
  Carts = {k1, k2}
  Customers = {u1}
  Owner <- OneCustomer
  Baskets <- SmallBaskets
  Outcomes = {"captured", "async", "capture_raised", "declined", "gateway_error", "unconfigured", "unexpected", "invoiced"}
  CaptureReports = {"captured", "pending"}
  FailureStatus = "failed"
  UnknownReports = {"captured"}
  Admins = {a1}
  SweepBatch = 1
  ReconcileBatch = 1
  None = None
SYMMETRY Symmetry
INVARIANTS
  TypeOK
  ReservedIsHeld
  StockConserved
  StockFollowsOrder
  PaidWasCaptured
  InvoiceSettledTogether
  CheckingOutRecoverable
PROPERTIES
  OrderMoves
CHECK_DEADLOCK FALSE
