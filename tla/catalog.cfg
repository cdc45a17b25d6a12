SPECIFICATION Spec
CONSTANTS
  None = None
  p1 = p1
  p2 = p2
  png = png
  Products = {p1, p2}
  Formats = {png, webp}
  Prices = {1, 2}
  Workers = {w1, w2, w3}
  Bodies <- SomeBodies
  Stocked <- OneOfTwo
  MaxStock = 2
  MaxRequests = 4
INVARIANT
  ImageServed
PROPERTY
  ColumnsKept
SYMMETRY Alike
CHECK_DEADLOCK FALSE
