SPECIFICATION WalletSpec
CONSTANTS
  None = None
  ana = ana
  bob = bob
  m1 = m1
  m2 = m2
  m3 = m3
  c1 = c1
  c2 = c2
  shop = shop
  other = other
  Merchants = {shop, other}
  Bodies <- OneField
  Provisioned <- TwoStripes
  Customers = {ana, bob}
  Business = {ana}
  Methods = {m1, m2, m3}
  Configs = {c1, c2}
  Payments = {p1}
  Workers = {w1, w2}
  Processes = {server}
  Process <- OneProcess
  Offered = {"mock", "stripe", "stripe_live"}
  MaxRequests = 2
INVARIANT
  CallsOwnHost
CHECK_DEADLOCK FALSE
