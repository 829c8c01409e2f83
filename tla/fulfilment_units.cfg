SPECIFICATION Spec
CONSTANTS
  Product = {p1}
  Sale = {s1}
  NoSale = NoSale
  NumLocations = 2
  MaxPickings = 2
  MaxQuantity = 2
  MaxOnHand = 3
  OverlapDelete = FALSE
INVARIANTS
  TypeOK
  ReservedIsSum
  PickedIsSum
  ReservationFollowsOrder
  OrdersAgree
  IntegrityReportEmpty
  PickNeverRefused
  DispatchNeverRefused
PROPERTIES
  LedgerSpec
