SPECIFICATION CompanySpec
CONSTANTS
  Tenant = {acme, tools}
  NoTenant = NoTenant
  Id = {row1, row2}
  Query = {x1}
  None = None
  People = {ana, ben, eva}
  Requests = {"q1", "q2"}
  Solo = {"q"}
  Logins = {"phone", "desktop"}
  SeatLimit = 1
  Invited = 2
  CustomRoles = {"buyer"}
  Staff = {"laura", "otra"}
  Documents = {"d1", "d2", "d3", "d4"}
  FewDocuments = {"d1", "d2", "d3"}
  Prefixes = {"oc", "ped"}
  DefaultPrefix = "oc"
  TypedNumbers = {2, 3}
  SetNumbers = {1, 4}
  Attempts = 3
  MaxNumber = 7
  Products = {"screws", "nuts"}
  Barcodes = {"c1", "c2"}
  FileRows = 2
  OpenRequests = 2
  LevelsAsked <- SomeLevels
  CodesByHand <- SomeCodes
  MostGenerated = 6
  LettersToZ = 2
  MostLocations = 6
  Keys = {"color"}
  MoreKeys = {"color", "weight"}
  Words = {"red", "blue"}
  FewWords = {"red"}
  Numbers = {"7"}
  Pictures = {"f1", "f2"}
  Records = {"product", "picking"}
  Companies = {"acme", "sur"}
  Workers = {"laura"}
  Operators = {"support"}
  Warehouses = {"north", "south"}
  Granted = {{"stock.adjust", "warehouses.all"}, {"reports.read", "legacy"}}
SYMMETRY Symmetry
CHECK_DEADLOCK FALSE
INVARIANTS
  CompanyTypeOK
  FindsOnlyOwn
  OneTokenPerLogin
  MembersWithinRules
  CodesSound
  RecordsAsAsked
PROPERTIES
  ChangesOnlyOwn
  MembershipKept
  WritesKeepTheRest
