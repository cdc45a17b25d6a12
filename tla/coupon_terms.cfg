SPECIFICATION Spec
CONSTANTS
  None = None
  k1 = k1
  k2 = k2
  eighth = eighth
  five = five
  sar = sar
  usd = usd
  sa = sa
  Coupons = {eighth, five}
  Carts = {k1, k2}
  Countries = {sa}
  Currencies = {sar, usd}
  Cart <- TwoCarts
  Subtotals = {4, 12}
  NewRows <- OneEighthAndFive
  Bodies <- SomeBodies
  MaxTime = 1
  MaxPatches = 2
  MaxUses = 1
INVARIANTS
  TypeOK
  PricesAgree
  SoldOnTerms
CHECK_DEADLOCK FALSE
