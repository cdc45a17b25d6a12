SPECIFICATION CartSpec
CONSTANTS
  None = None
  Customers = {alice}
  Sessions = {phone, laptop}
  Carts = {first, second}
  Products = {p1, p2}
  Coupons = {q1}
  Currencies = {EUR, USD}
  Slots = {address}
  User <- AliceOnBoth
  Owner <- AllHers
  MaxQty = 1
  MaxVersion = 3
SYMMETRY Symmetry
INVARIANT
  OrderAsSeen
CHECK_DEADLOCK FALSE
