SPECIFICATION Spec
CONSTANTS
  Product = {p1, p2}
  Sale = {s1}
  NoSale = NoSale
  NumLocations = 1
  MaxPickings = 2
  MaxQuantity = 1
  MaxOnHand = 2
  OverlapDelete = FALSE
SYMMETRY Symmetry
INVARIANTS
  SaleAccounts
  NeverOverReleased
PROPERTIES
  ClosedSaleStaysClosed
