SPECIFICATION Spec
CONSTANTS
  f1 = f1
  f2 = f2
  f3 = f3
  File = {f1, f2, f3}
  Key = {k1}
  Value <- Values
  Client = {c1}
  Compare <- Matrix
  Worker = Worker
  NoOne = NoOne
  NoRecord = NoRecord
  NoFinding = NoFinding
  Unsigned = Unsigned
  None = None
  MaxParse = 2
  MaxRequest = 7
  MaxFault = 1
  MaxRestart = 1
INVARIANTS TypeOK ProtocolIsClosed MemoryMatchesTable
PROPERTY DecisionKept
CHECK_DEADLOCK FALSE
