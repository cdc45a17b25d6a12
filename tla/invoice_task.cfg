SPECIFICATION FairSpec
CONSTANTS
  None = None
  Orders = {o1}
  Tenants = {t1}
  TenantOf <- AllHis
  Workers = {w1, w2}
  MaxRetries = 1
  MaxLosses = 2
INVARIANTS
  TypeOK
  OwnContext
  NotForgotten
PROPERTIES
  IssueSpec
  Settled
CHECK_DEADLOCK FALSE
