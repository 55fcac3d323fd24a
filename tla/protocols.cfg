SPECIFICATION Spec
CONSTANTS
  p1 = p1
  p2 = p2
  o = o
  Object = {o}
  Process = {p1, p2}
  ObjectOf <- SameObject
  Content = {x, y}
  Client = {c1, c2}
  NoProtocol = NoProtocol
  MaxVersion = 3
  MaxRequest = 4
INVARIANTS AnsweredIsStored FinalizedHasProtocol RefusedIsUndone
PROPERTY ImplementsProtocolVersions
CHECK_DEADLOCK FALSE
