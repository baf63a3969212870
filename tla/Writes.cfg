\* Two scripts of several kinds at once, on every engine.
\* Two grid requests on two rows of two columns, in every order.
SPECIFICATION WritesSpec
CONSTANTS
  k1 = k1
  k2 = k2
  NoClient = NoClient
  Scripts = {1, 2}
  Clients = {k1, k2}
  Handle = k1
  Texts <- SomeTexts
  r1 = r1
  r2 = r2
  x = x
  y = y
  Requests = {r1, r2}
  Rows = {x, y}
  GridColumns = {"a", "b"}
  GridValues = {"old", "new"}
  Default = "old"
  Asked <- MCAsked
\* Every script ends and every request is answered.
CHECK_DEADLOCK FALSE
INVARIANTS
  AllOrNothing
  FailureLeavesNothing
  SuccessIsDurable
PROPERTIES
  AtomicSpec
  EveryWriteEnds
