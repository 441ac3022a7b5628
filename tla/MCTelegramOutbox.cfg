CONSTANTS
  Rows = {1, 2, 5}
  People = {"ann", "bob"}
  Kind <- MCKind
  Reader <- MCReader
  Batch = 1
  Tokens = {"A"}
  Off = "off"
  MaxStarts = 1
  MaxSwitch = 2
SPECIFICATION Spec
INVARIANT MarkedWasSent
PROPERTY EveryoneHears
CHECK_DEADLOCK FALSE
