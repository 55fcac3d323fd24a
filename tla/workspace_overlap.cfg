SPECIFICATION Spec
CONSTANTS
  f1 = f1
  f2 = f2
  f3 = f3
  File = {f1, f2}
  Key = {k1}
  Value <- Values
  Client = {c1, c2}
  Compare <- Matrix
  Worker = Worker
  NoOne = NoOne
  NoRecord = NoRecord
  NoFinding = NoFinding
  Unsigned = Unsigned
  None = None
  MaxParse = 8
  MaxRequest = 6
  MaxFault = 0
  MaxRestart = 0
INVARIANTS SignedForValue EveryFileCompared
SYMMETRY Symmetric
CHECK_DEADLOCK FALSE
