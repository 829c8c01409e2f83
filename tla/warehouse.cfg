SPECIFICATION Spec
CONSTANTS
  None = None
  Goods = {"screws", "nuts"}
  FewGoods = {"screws"}
  Transactions = {"t1", "t2", "t3"}
  SomeUnits = 2
  FewUnits = 1
  Purchases = {"oc1"}
  Dispatches = {"ped1"}
  SomeReceipts = 2
  FewReceipts = 1
  SomeLines = 2
  FewLines = 1
  PickWaves = {w1, w2}
  LoneWave = w
  SomeOrders = 3
  FewOrders = 2
  MostUnits = 4
  Bays = 1
  Countings = {"c1"}
  SomeSurprises = 1
  Places = {"a", "b"}
  MorePlaces = {"a", "b", "c"}
  Depth = 3
  Room = 2
  SomeProducts = 2
  SomeRequests = 2
  SomeRows = 3
  Packings = {"k1"}
  Carriers = {"c1", "c2"}
  Receivers = {"ana", "ben"}
  Handlers = {"q1", "q2"}
  SomeLots = 2
  LotStrategy = "fefo"
  LotExpiries = {0, 1}
  SomeWarehouses = 2
  FewWarehouses = 1
  Pickings = 1
  SomeTransfers = 1
  MoreUnits = 3
SYMMETRY Symmetry
CHECK_DEADLOCK FALSE
INVARIANTS
  WarehouseTypeOK
  ReceiptsAccounted
  UnitsTraceable
  CapacityBounded
  NeverInsideItself
  OrderedNeverDeadlock
  FinishedWhole
PROPERTIES
  EndedIsFinal
  WritesAsAsked
