SPECIFICATION Spec
CONSTANTS
  Product = {p1}
  Sale = {s1}
  NoSale = NoSale
  NumLocations = 1
  MaxPickings = 2
  MaxQuantity = 1
  MaxOnHand = 2
  OverlapDelete = FALSE
PROPERTIES
  PickingReserves
