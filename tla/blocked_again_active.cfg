SPECIFICATION Spec
CONSTANTS
  None = None
  t1 = t1
  t2 = t2
  api = api
  e1 = e1
  ana = ana
  root = root
  Tenants = {t1, t2}
  Reserved = {api}
  Emails = {e1}
  Root = root
  Admins = {ana}
  Workers = {w1, w2}
  Requests <- AllRequests
  Provisioned = {{t1}, {t1, t2}}
  MaxRequests = 2
PROPERTY
  BlockStays
CHECK_DEADLOCK FALSE
